--------------------------- MODULE MetadataViews ----------------------------
(***************************************************************************)
(* What the control plane promises about memory metadata, without peers,   *)
(* requests or handshakes: every engine appends memories to a log of its   *)
(* own, and every other engine has a view of that log, which is a prefix   *)
(* of it, only grows, and is given up as a whole when the connection that  *)
(* carries it ends.                                                        *)
(***************************************************************************)
EXTENDS Integers

CONSTANT Engines

VARIABLES
  log,   \* log[f]: how many memories f has published
  view   \* view[e][f]: how many of them e knows, or -1 without a connection

vars == <<log, view>>

NoView == -1

Init ==
  /\ log = [f \in Engines |-> 0]
  /\ view = [e \in Engines |-> [f \in Engines |-> NoView]]

\* f appends one memory to its log.
Append(f) ==
  /\ log' = [log EXCEPT ![f] = @ + 1]
  /\ UNCHANGED view

\* A connection begins or brings metadata: e's view of f's log grows.
Learn(e, f) ==
  /\ \E n \in 0..log[f] :
       /\ view[e][f] <= n
       /\ view' = [view EXCEPT ![e][f] = n]
  /\ UNCHANGED log

\* e gives up its connection with f, and with it both views.
Part(e, f) ==
  /\ view' = [d \in Engines |-> [g \in Engines |->
                IF {d, g} = {e, f} THEN NoView ELSE view[d][g]]]
  /\ UNCHANGED log

\* e is closed: its log is gone and so is every view that involves it.
Leave(e) ==
  /\ log' = [log EXCEPT ![e] = 0]
  /\ view' = [d \in Engines |-> [g \in Engines |->
                IF e \in {d, g} THEN NoView ELSE view[d][g]]]

Next ==
  \E e \in Engines :
    \/ Append(e) \/ Leave(e)
    \/ \E f \in Engines : Learn(e, f) \/ Part(e, f)

Spec == Init /\ [][Next]_vars
=============================================================================
