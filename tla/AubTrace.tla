------------------------------ MODULE AubTrace ------------------------------
(***************************************************************************)
(* What an AUB file promises.  Packets are numbered in the order they are   *)
(* recorded.  A file holds whole packets, in that order and without a gap,  *)
(* from when it was opened; packets recorded while no file is open are held *)
(* and come first in the next file, behind its header.  A fault ends the    *)
(* recording of a file; what was recorded up to it stays, but for the last  *)
(* packets, which the closing may lose.  A file that goes on all the same   *)
(* is torn: nothing is promised of it, but of the next one.  Nothing is     *)
(* promised any more once the recording is lost in the middle of a packet.  *)
(***************************************************************************)
EXTENDS Integers, Sequences

VARIABLES
    state,  \* "closed", "open", "broken" (a fault, or no file), "torn", "lost"
    count,  \* packets recorded so far
    held,   \* packets that wait for a file
    file    \* the packets of the file

vars == <<state, count, held, file>>

Init ==
    /\ state = "closed"
    /\ count = 0
    /\ held = << >>
    /\ file = << >>

Record ==
    /\ count' = count + 1
    /\ \/ /\ state \in {"closed", "broken"}
          /\ held' = Append(held, count')
          /\ UNCHANGED file
       \/ /\ state = "open"
          /\ file' = Append(file, count')
          /\ UNCHANGED held
       \/ /\ state = "broken"
          /\ UNCHANGED <<held, file>>
    /\ UNCHANGED state

(* A new file, or an attempt that fails. *)
Open ==
    \/ /\ state \in {"closed", "torn"}
       /\ state' = "open"
       /\ file' = << >>
       /\ UNCHANGED <<count, held>>
    \/ /\ state \notin {"torn", "lost"}
       /\ state' = "broken"
       /\ UNCHANGED <<count, held, file>>

(* What was held goes into the file; it is lost only when there is none. *)
Deliver ==
    /\ \/ state = "open" /\ file' = file \o held
       \/ state = "broken" /\ UNCHANGED file
    /\ held' = << >>
    /\ state' \in IF state = "open" THEN {"open"} ELSE {"broken", "closed"}
    /\ UNCHANGED count

(* A fault hits in a packet, at its end, or what was held as it is delivered. *)
Fault ==
    /\ state = "open"
    /\ state' = "broken"
    /\ \/ count' \in {count, count + 1} /\ UNCHANGED held
       \/ held' = << >> /\ UNCHANGED count
    /\ UNCHANGED file

(* The start of a broken file is sure. *)
Close ==
    /\ state \notin {"torn", "lost"}
    /\ state' = "closed"
    /\ \/ UNCHANGED file
       \/ /\ state = "broken"
          /\ \E n \in 0 .. Len(file) : file' = SubSeq(file, 1, n)
    /\ UNCHANGED <<count, held>>

(* The file goes on behind a fault; what is recorded is in it, held, or neither. *)
Tear ==
    /\ state \in {"open", "broken", "torn"}
    /\ state' = "torn"
    /\ count' \in {count, count + 1}
    /\ held' \in {held, << >>, Append(held, count')}

Lose ==
    /\ state # "closed"
    /\ state' = "lost"

Next == Record \/ Open \/ Deliver \/ Fault \/ Close \/ Tear \/ Lose

Spec == Init /\ [][Next]_vars
=============================================================================
