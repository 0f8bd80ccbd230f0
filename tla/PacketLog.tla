------------------------------ MODULE PacketLog ------------------------------
(***************************************************************************)
(* What the socket server promises, without threads, mutex or buffers: a   *)
(* log to which every connection adds what it sent in one step, together   *)
(* with the answer to its client, and every expiry of the timer a stamp.   *)
(* The server may end at any time, so the log may stop growing; when it is *)
(* killed, the log is what was saved.                                      *)
(***************************************************************************)
EXTENDS Integers, Sequences

CONSTANTS Clients, Expiries, NoReply

VARIABLES
    log,     \* the records, each with its author and its kind
    reply,   \* per client: how many records it was sent
    crashed  \* the server was killed

vars == <<log, reply, crashed>>

Init ==
    /\ log = <<>>
    /\ reply = [c \in Clients |-> NoReply]
    /\ crashed = FALSE

Authors == {log[i].by : i \in DOMAIN log}

\* The records that a step adds.
Added == (Len(log) + 1)..Len(log')

Extends ==
    /\ Len(log) <= Len(log')
    /\ \A i \in DOMAIN log : log'[i] = log[i]

\* Client c is served: all it sent is added at once, parts and then perhaps
\* a line.  One that sent a line is sent the whole log.  One that sent none
\* is sent any prefix, or nothing.
Serve(c) ==
    /\ c \notin Authors
    /\ Extends
    /\ \A i \in Added : log'[i].by = c
    /\ \A i \in Added : log'[i].kind = "part" \/ i = Len(log')
    /\ \E n \in 0..Len(log') \cup {NoReply} :
          /\ reply' = [reply EXCEPT ![c] = n]
          /\ \A i \in Added : log'[i].kind = "line" => n = Len(log')
    /\ UNCHANGED crashed

\* Expiry x adds its timestamp, once.
Stamp(x) ==
    /\ x \notin Authors
    /\ log' = Append(log, [by |-> x, kind |-> "stamp"])
    /\ UNCHANGED <<reply, crashed>>

\* The server is killed.  Records that nobody was sent may be lost at the end
\* of the log, or the log ends with a part of the packet of one client that was
\* not served yet.
Crash ==
    /\ crashed' = TRUE
    /\ \A i \in DOMAIN log \cap DOMAIN log' : log'[i] = log[i]
    /\ \A c \in Clients : reply[c] <= Len(log')
    /\ Added # {} =>
          \E c \in Clients \ Authors :
              \A i \in Added :
                  /\ log'[i].by = c
                  /\ log'[i].kind = "part" \/ i = Len(log')
    /\ UNCHANGED reply

Next ==
    /\ ~crashed
    /\ \/ \E c \in Clients : Serve(c)
       \/ \E x \in Expiries : Stamp(x)
       \/ Crash

Spec == Init /\ [][Next]_vars
=============================================================================
