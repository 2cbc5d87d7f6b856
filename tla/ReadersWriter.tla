--------------------------- MODULE ReadersWriter ---------------------------
(* What a read-write lock promises: any number of readers or one writer.   *)
CONSTANT Threads
VARIABLES readers, writers

Init == readers = {} /\ writers = {}

StartRead(t) ==
  /\ writers = {} /\ t \notin readers
  /\ readers' = readers \cup {t}
  /\ UNCHANGED writers

StartWrite(t) ==
  /\ readers = {} /\ writers = {}
  /\ writers' = {t}
  /\ UNCHANGED readers

EndRead(t) ==
  /\ t \in readers
  /\ readers' = readers \ {t}
  /\ UNCHANGED writers

EndWrite(t) ==
  /\ t \in writers
  /\ writers' = writers \ {t}
  /\ UNCHANGED readers

Next ==
  \E t \in Threads : StartRead(t) \/ StartWrite(t) \/ EndRead(t) \/ EndWrite(t)

Spec == Init /\ [][Next]_<<readers, writers>>
=============================================================================
