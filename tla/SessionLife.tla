---------------------------- MODULE SessionLife ----------------------------
(***************************************************************************)
(* What the session store promises about the life of a session, with no    *)
(* commands, locks or tokens in it.  A session id is drawn once.  Its      *)
(* record is put in the store only by an activation that holds a copy of   *)
(* the session, and a copy is obtained at login or by reading a record     *)
(* that is there.  So once the record is gone and the last copy has been   *)
(* dropped the session is over for good.                                   *)
(***************************************************************************)
CONSTANTS Handlers, Ids

VARIABLES born,     \* ids a login has drawn
          live,     \* ids with a record in the store
          holders   \* activations holding a copy they may still put back

lifeVars == <<born, live, holders>>

LifeTypeOK ==
    /\ born \subseteq Ids
    /\ live \subseteq Ids
    /\ holders \in [Ids -> SUBSET Handlers]

LifeInit ==
    /\ born = {}
    /\ live = {}
    /\ holders = [id \in Ids |-> {}]

Draw(h, id) ==
    /\ id \notin born
    /\ born' = born \cup {id}
    /\ holders' = [holders EXCEPT ![id] = @ \cup {h}]
    /\ UNCHANGED live

Copy(h, id) ==
    /\ id \in live
    /\ holders' = [holders EXCEPT ![id] = @ \cup {h}]
    /\ UNCHANGED <<born, live>>

Put(h, id) ==
    /\ h \in holders[id]
    /\ live' = live \cup {id}
    /\ UNCHANGED <<born, holders>>

Drop(h, id) ==
    /\ holders' = [holders EXCEPT ![id] = @ \ {h}]
    /\ UNCHANGED <<born, live>>

End(id) ==
    /\ live' = live \ {id}
    /\ UNCHANGED <<born, holders>>

LifeNext ==
    \E id \in Ids :
        \/ End(id)
        \/ \E h \in Handlers :
              Draw(h, id) \/ Copy(h, id) \/ Put(h, id) \/ Drop(h, id)

LifeSpec == LifeInit /\ [][LifeNext]_lifeVars

(***************************************************************************)
(* A session that is over: drawn, without a record, without a copy.        *)
(***************************************************************************)
Over(id) == id \in born /\ id \notin live /\ holders[id] = {}

\* Once a session is over no step of any activation brings its record back:
\* the promise behind `destroy` in the store interface (store/types.ts).
OverForGood == [][\A id \in Ids : Over(id) => Over(id)']_lifeVars
=============================================================================
