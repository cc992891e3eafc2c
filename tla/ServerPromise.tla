--------------------------- MODULE ServerPromise ---------------------------
(***************************************************************************)
(* What a Server promises the program that owns it and the clients that    *)
(* reach its port: clients are served one at a time, every one of them is  *)
(* answered or disconnected, the port is given up only after the owner     *)
(* asked for it, and when a stop() has returned normally all of that is    *)
(* over.  Threads, descriptors and the GIL do not appear.                  *)
(***************************************************************************)
CONSTANT Clients

VARIABLES port,   \* "open" or "closed"
          ending, \* the owner asked for the end, or start() failed
          over,   \* a stop() has returned normally
          status  \* progress of every client

vars == <<port, ending, over, status>>

Init == /\ port = "closed" /\ ending = FALSE /\ over = FALSE
        /\ status = [c \in Clients |-> "out"]

(* Where nobody has asked for the end yet: a port that was given up is not  *)
(* opened again.                                                            *)
Open == /\ port = "closed" /\ ~ending /\ port' = "open"
        /\ UNCHANGED <<ending, over, status>>

Connect(c) == /\ port = "open" /\ status[c] = "out"
              /\ status' = [status EXCEPT ![c] = "queued"]
              /\ UNCHANGED <<port, ending, over>>

Serve(c) == /\ status[c] = "queued" /\ \A d \in Clients : status[d] # "open"
            /\ status' = [status EXCEPT ![c] = "open"]
            /\ UNCHANGED <<port, ending, over>>

Finish(c) == /\ status[c] = "open"
             /\ \E end \in {"answered", "dropped"} :
                   status' = [status EXCEPT ![c] = end]
             /\ UNCHANGED <<port, ending, over>>

End == ending' = TRUE /\ UNCHANGED <<port, over, status>>

(* The clients still waiting in the queue are disconnected with the port. *)
Close == /\ port = "open" /\ ending /\ \A c \in Clients : status[c] # "open"
         /\ port' = "closed"
         /\ status' = [c \in Clients |->
                          IF status[c] = "queued" THEN "dropped" ELSE status[c]]
         /\ UNCHANGED <<ending, over>>

Conclude == /\ ending /\ port # "open" /\ over' = TRUE
            /\ UNCHANGED <<port, ending, status>>

Next == \/ Open \/ End \/ Close \/ Conclude
        \/ \E c \in Clients : Connect(c) \/ Serve(c) \/ Finish(c)

Spec == Init /\ [][Next]_vars

(* Only the owner's wishes and new clients may fail to come. *)
Promise == /\ Spec
           /\ WF_vars(Close)
           /\ \A c \in Clients : SF_vars(Serve(c)) /\ WF_vars(Finish(c))
=============================================================================
