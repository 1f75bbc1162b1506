----------------------------- MODULE HandleTables -----------------------------
(***************************************************************************)
(* What the three tables of dbl_tcp_udp_socket.c promise to the threads    *)
(* that call the library: an index names one object for ever, the object   *)
(* that the call which was given the index has made, and a call that uses  *)
(* an index acts upon that object.                                         *)
(***************************************************************************)
CONSTANTS
  Callers,
  NoCaller,     (* the owner of an index that was not handed out yet       *)
  Tables,
  Indices

VARIABLES
  made,         (* made[tab][i]: the caller whose object index i names     *)
  reached       (* history: the last use: caller, table, index and the     *)
                (* caller that made the object                             *)

tvars == <<made, reached>>

Nothing == <<>>

TInit ==
  /\ made = [tab \in Tables |-> [i \in Indices |-> NoCaller]]
  /\ reached = Nothing

HandOut(c, tab, i) ==
  /\ made[tab][i] = NoCaller
  /\ made' = [made EXCEPT ![tab][i] = c]

Reach(c, tab, i) ==
  /\ made[tab][i] # NoCaller
  /\ reached' = <<c, tab, i, made[tab][i]>>

(* bindAddr() and connect() use one table and hand out from another. *)
TNext ==
  \E c \in Callers, tab \in Tables, i \in Indices :
    \/ HandOut(c, tab, i) /\ UNCHANGED reached
    \/ Reach(c, tab, i) /\ UNCHANGED made
    \/ /\ Reach(c, tab, i)
       /\ \E other \in Tables \ {tab}, j \in Indices : HandOut(c, other, j)

TSpec == TInit /\ [][TNext]_tvars

=============================================================================
