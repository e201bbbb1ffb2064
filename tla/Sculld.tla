-------------------------------- MODULE Sculld --------------------------------
(***************************************************************************)
(* The devices of src/sculld/main.c keep their data as those of scull do,  *)
(* in quanta of whole pages: PAGE_SIZE << order bytes.  The device is its  *)
(* own first list item, and each further item has an order of its own,     *)
(* which is never set.  This module adds sculld to ScullDev: in a          *)
(* behaviour one of the two drivers runs.  The order is a parameter of the *)
(* module that nobody changes once it is loaded.                           *)
(***************************************************************************)
EXTENDS ScullDev

CONSTANT Page  \* PAGE_SIZE

ASSUME PageAssumption == Page \in Nat \ {0} /\ Page <= Quantum

VARIABLE driver  \* scull or sculld; it never changes

FamilyInit == Init /\ driver \in {"scull", "sculld"}
-----------------------------------------------------------------------------
(* open, with sculld_trim; release, llseek *)

SculldOpen(p)    == Open(p) \/ OpenTrim(p)
SculldRelease(p) == Release(p)
SculldSeek(p)    == Seek(p)
-----------------------------------------------------------------------------
(* read and write *)

\* sculld_follow.  A kmalloc that fails is an access to NULL: it ends the
\* process, and what is modelled here.
SculldFollow(n) == Follow(n + 1)

\* __get_free_pages with the order of the list item, which is 0 in all but the
\* first.  They are zeroed; bytes that nobody has written are Junk here, too.
WithPages(list, i, k) == WithQuantum(list, i, k, IF i = 1 THEN quantum ELSE Page)

SculldReadLocate(p) ==
  LET place == Place(p) IN
  /\ pc[p] = "rd_down" /\ sem > 0
  /\ data' = SculldFollow(place.item)
  /\ IF QuantumAt(data', place) = NULL THEN Nothing(p)
     ELSE \E count \in ReadCounts :
            Locked(p, "rd_copy", place, ToQuantumEnd(p, ToSize(p, count)))
  /\ geometry' = [geometry EXCEPT ![p] = NoGeometry]
  /\ misfit' = (misfit \/ Outdated(p))
  /\ UNCHANGED <<quantum, qset, size, params, f_pos, dangling, got>>

\* What a further list item gets is of another size than the write divides by,
\* unless the order is 0.
SculldWriteLocate(p) ==
  LET place == Place(p)
      list  == SculldFollow(place.item)
      array == WithArray(list, place.item + 1, geometry[p][2])
      full  == WithPages(array, place.item + 1, place.s_pos)
  IN
  /\ pc[p] = "wr_down" /\ sem > 0
  /\ \/ /\ data' = full
        /\ \E count \in WriteCounts : Locked(p, "wr_copy", place, ToQuantumEnd(p, count))
     \/ /\ data' \in {list, array} \ {full}
        /\ Nothing(p)
  /\ geometry' = [geometry EXCEPT ![p] = NoGeometry]
  /\ misfit' = (misfit \/ Outdated(p) \/ (place.item > 0 /\ Page # quantum))
  /\ UNCHANGED <<quantum, qset, size, params, f_pos, dangling, got>>

\* A read gives up the lock before it moves the position of its file, which
\* no other process looks at.
SculldRead(p)  == ReadCall(p) \/ SculldReadLocate(p) \/ ReadCopy(p) \/ ReadFault(p)
SculldWrite(p) == WriteCall(p) \/ SculldWriteLocate(p) \/ WriteCopy(p) \/ WriteFault(p)
-----------------------------------------------------------------------------
SculldNext ==
  \E p \in Procs : \/ SculldOpen(p) \/ SculldRelease(p) \/ SculldSeek(p)
                   \/ SculldRead(p) \/ SculldWrite(p) \/ Interrupted(p)

FamilyNext ==
  /\ \/ driver = "scull" /\ Next
     \/ driver = "sculld" /\ SculldNext
  /\ UNCHANGED driver

FamilySpec == FamilyInit /\ [][FamilyNext]_<<vars, driver>>
=============================================================================
