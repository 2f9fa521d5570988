---------------------------- MODULE SessionData ----------------------------
(***************************************************************************)
(* The data the session modules share.  An id is random, so what kind of   *)
(* sign-in it will belong to can be fixed in advance: its user (SubOf),    *)
(* its OP session (SidOf; None: the id_token carried no sid) and whether   *)
(* it yields a refresh token (Offline).                                    *)
(***************************************************************************)
EXTENDS Naturals

CONSTANTS Ids, Sids, Subs,   \* BFF session ids, OP session ids, subjects
          SidOf, SubOf,      \* the OP session and the subject of an id
          Offline,           \* ids whose sign-in yields a refresh token
          MaxTok,            \* tokens the auth host mints per sign-in
          None

\* A session record, reduced to its refresh token and its version.  Tokens
\* are numbered in the order they were minted for the sign-in; an access
\* token carries the number of the refresh token it came with.  0 stands for
\* a session that has no refresh token.
Session == [tok : 0 .. MaxTok, ver : Nat]

ASSUME DataAssumption ==
    /\ MaxTok \in Nat \ {0}
    /\ SidOf \in [Ids -> Sids \cup {None}]
    /\ SubOf \in [Ids -> Subs]
    /\ Offline \subseteq Ids

ASSUME NoneAssumption ==
    None \notin Ids /\ None \notin Sids /\ None \notin Session /\ None \notin 0 .. MaxTok

HasSid(id) == SidOf[id] # None
=============================================================================
