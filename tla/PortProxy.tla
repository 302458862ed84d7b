------------------------------ MODULE PortProxy ------------------------------
(***************************************************************************)
(* The control port behind a CLDMA receive queue: the proxy that routes    *)
(* what the queue's work item hands over (t7xx_port_proxy.c), the port's   *)
(* list of messages and the thread that handles them                       *)
(* (t7xx_port_ctrl_msg.c).  Messages are numbered in the order in which    *)
(* the modem writes them.                                                  *)
(***************************************************************************)
EXTENDS Integers, Sequences

CONSTANTS
    MaxLen,     \* CTRL_QUEUE_MAXLEN
    Strays      \* messages for a channel that has no port

ASSUME PortAssumption == MaxLen \in Nat \ {0} /\ Strays \subseteq Nat

NoMsg == 0

VARIABLES
    rx_skb_list, rx_length_th,
    thread,     \* where port_ctl_rx_thread() is
    message,    \* the message it handles
    stopping    \* kthread_stop() has been called

portVars == <<rx_skb_list, rx_length_th, thread, message, stopping>>

PortTypeOK ==
    /\ rx_skb_list \in Seq(Nat \ {NoMsg}) /\ rx_length_th \in {0, MaxLen}
    /\ Len(rx_skb_list) <= MaxLen
    /\ thread \in {"none", "wait", "handle"}
    /\ message \in Nat /\ stopping \in BOOLEAN

PortInit ==
    /\ rx_skb_list = <<>> /\ rx_length_th = 0
    /\ thread = "none" /\ message = NoMsg /\ stopping = FALSE

(* Messages the port has taken and not yet handled *)
AtPort == {rx_skb_list[i] : i \in DOMAIN rx_skb_list} \cup IF thread = "handle" THEN {message} ELSE {}
-----------------------------------------------------------------------------
(* t7xx_port_enqueue_skb() returns -ENOBUFS *)
NoRoom == Len(rx_skb_list) >= rx_length_th

(* Faulty variant: a message that finds no room is dropped *)
EnqueueDrops(p) ==
    /\ rx_skb_list' = IF NoRoom THEN rx_skb_list ELSE Append(rx_skb_list, p)
    /\ UNCHANGED <<rx_length_th, thread, message, stopping>>

t7xx_port_enqueue_skb(p) ==
    /\ ~NoRoom
    /\ rx_skb_list' = Append(rx_skb_list, p)
    /\ UNCHANGED <<rx_length_th, thread, message, stopping>>

(* The proxy drops a message that has no port.  That it drops everything     *)
(* while md_state is invalid is left out: the queue does not run then.       *)
t7xx_port_proxy_recv_skb(p) ==
    \/ p \in Strays /\ UNCHANGED portVars
    \/ p \notin Strays /\ t7xx_port_enqueue_skb(p)

Refuses(p) == p \notin Strays /\ NoRoom
-----------------------------------------------------------------------------
(* port_ctl_rx_thread() takes the next message, if it is not to stop *)
ThreadTakes ==
    /\ thread = "wait" /\ ~stopping /\ rx_skb_list # <<>>
    /\ thread' = "handle"
    /\ message' = Head(rx_skb_list)
    /\ rx_skb_list' = Tail(rx_skb_list)
    /\ UNCHANGED <<rx_length_th, stopping>>

(* The message becomes an event of the FSM or switches channels on and off,  *)
(* an enumeration and an exception being answered by a message of the port   *)
control_msg_handler ==
    /\ thread = "handle"
    /\ thread' = "wait" /\ message' = NoMsg
    /\ UNCHANGED <<rx_skb_list, rx_length_th, stopping>>

ThreadStops ==
    /\ thread = "wait" /\ stopping
    /\ thread' = "none"
    /\ UNCHANGED <<rx_skb_list, rx_length_th, message, stopping>>

Thread == ThreadTakes \/ control_msg_handler \/ ThreadStops
-----------------------------------------------------------------------------
(* port_ctl_uninit(): the thread is stopped and waited for ... *)
UninitStops ==
    /\ stopping' = TRUE
    /\ UNCHANGED <<rx_skb_list, rx_length_th, thread, message>>

(* ... and what is left in the list is freed *)
UninitPurges ==
    /\ thread = "none"
    /\ rx_length_th' = 0 /\ rx_skb_list' = <<>> /\ stopping' = FALSE
    /\ UNCHANGED <<thread, message>>

(* t7xx_port_struct_init() and port_ctl_init() *)
port_ctl_init ==
    /\ thread = "none"
    /\ rx_skb_list' = <<>> /\ rx_length_th' = MaxLen
    /\ thread' = "wait" /\ message' = NoMsg /\ stopping' = FALSE
=============================================================================
