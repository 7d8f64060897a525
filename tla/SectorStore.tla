----------------------------- MODULE SectorStore -----------------------------
(***************************************************************************)
(* What the sector buffers promise the rest of the kernel: a disk on which *)
(* every sector has ONE current value, the one written last, although the  *)
(* medium may hold an older one.  A sector loses its current value only    *)
(* when the user answered ABORT (the whole unit falls back to the medium)  *)
(* or IGNORE (that sector is waived until it is read or written again).    *)
(***************************************************************************)
CONSTANTS Units, Sectors, Values

VARIABLES current,  \* what a read of the sector must return
          durable,  \* what the medium holds
          waived,   \* sectors on which the user accepted an error
          result    \* how the last operation ended

store == <<current, durable, waived, result>>

Blocks == Units \X Sectors

Init == /\ current \in [Blocks -> Values]
        /\ durable = current
        /\ waived = {}
        /\ result = "ok"

\* The sectors whose current value this step changes, the user not having
\* accepted an error on them.
Changed == LET old == current
               new == current'
               given == waived \cup waived'
           IN  {x \in Blocks \ given : new[x] # old[x]}

\* The medium only ever receives a value that was current.
Settle == LET old == current
              new == current'
          IN  \A x \in Blocks : durable'[x] \in {durable[x], old[x], new[x]}

\* A buffered read: no sector changes its current value.
Read == Changed = {} /\ Settle

\* A buffered write: the new value is current from now on.
Write == \E x \in Blocks : /\ Changed \subseteq {x}
                           /\ x \notin waived'
                           /\ \E d \in Values : current'[x] = d
                           /\ Settle

\* A transfer to sectors X past the buffers: the new value is on the medium
\* at once, and no sector outside X is touched.
DirectWrite == \E u \in Units : \E X \in SUBSET ({u} \X Sectors) :
                  /\ Changed \subseteq X
                  /\ \E d \in Values : \A x \in X \ waived' :
                        current'[x] = d /\ durable'[x] = d
                  /\ \A x \in Blocks \ X : durable'[x] \in {durable[x], current[x]}

\* A flush: the medium holds the current value of every sector of the unit.
Flush == /\ Changed = {}
         /\ Settle
         /\ \E u \in Units : \A x \in ({u} \X Sectors) \ waived' :
                                durable'[x] = current[x]

\* ABORT: what the medium did not get is gone, for one unit only.
Abort == \E u \in Units : /\ Changed \subseteq {u} \X Sectors
                          /\ LET new == current' IN
                             \A x \in {u} \X Sectors : new[x] = durable'[x]

Next == \/ result' = "ok" /\ (Read \/ Write \/ DirectWrite)
        \/ result' = "flushed" /\ Flush
        \/ result' = "abort" /\ Abort

Spec == Init /\ [][Next]_store
=============================================================================
