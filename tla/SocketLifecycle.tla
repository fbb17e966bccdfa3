---------------------------- MODULE SocketLifecycle ----------------------------
(***************************************************************************)
(* What the wrapper promises about a WebSocket object: it is valid from    *)
(* open to close event; JavaScript may give it up before, by closing it;   *)
(* and the close event comes once, for every object that was given up.     *)
(***************************************************************************)
CONSTANT WebSockets

VARIABLE life  \* how far each WebSocket object has come

Init == life = [w \in WebSockets |-> "none"]

Open(w) ==
    /\ life[w] = "none"
    /\ life' = [life EXCEPT ![w] = "valid"]

(* JavaScript calls close or end: no later call on the object reaches it. *)
GiveUp(w) ==
    /\ life[w] = "valid"
    /\ life' = [life EXCEPT ![w] = "givenUp"]

(* The close event: by then the object is not valid. *)
Close(w) ==
    /\ life[w] \in {"valid", "givenUp"}
    /\ life' = [life EXCEPT ![w] = "closed"]

Next == \E w \in WebSockets : Open(w) \/ GiveUp(w) \/ Close(w)

Safety == Init /\ [][Next]_life

(* What was given up is closed. *)
Spec == Safety /\ \A w \in WebSockets : WF_life(life[w] = "givenUp" /\ Close(w))
===============================================================================
