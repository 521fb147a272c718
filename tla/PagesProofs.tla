------------------------------ MODULE PagesProofs ------------------------------
(* Theorems about the pages of Mission Control and the store behind the phone.  *)
(*                                                                              *)
(* First the store of paired devices, for any number of pairings, devices,      *)
(* renewals and crashes: a claimed record has one holder, a revoked device      *)
(* stays revoked, and a record is lost by a crash only. Then the phone: it      *)
(* implements the store, and the tokens it keeps or is sent are in the store.   *)
(*                                                                              *)
(* Last the pages that write through /api/exec, for any number of tabs, texts,  *)
(* requests and turns of the interview: a page reports success when its work is *)
(* on disk, and a turn of the interview carries the answers before it.          *)
EXTENDS DevicePhone, ExecPages, FiniteSetTheorems, SequenceTheorems, TLAPS

\* A renewal is attempted only while one is left.
RenewalsLeft ==
  \A p \in Processes : ~Free(p) /\ job[p].verb = "renew" => job[p].renewals < MaxRenewals
\* A device that is not paired yet has no file.
Unborn == \A d \in Devices : d > born => record[d] = Absent /\ claimed[d] = Absent
IInv == StoreTypeOK /\ RenewalsLeft /\ Unborn /\ OneHolder

-----------------------------------------------------------------------------
(* Records and jobs.                                                          *)

LEMMA AbsentIsNoRecord == Absent \notin Records
  BY DEF Absent, Records

LEMMA NewRecordTyped == NewRecord \in Records
  BY DeviceAssumption DEF NewRecord, Records

LEMMA NoJobIsNoWork == NoJob \notin JobRecords /\ ~NoJob.claim
  BY DEF NoJob, JobRecords, Devices

\* A mutator returns a record or declines, and it keeps a revocation.
LEMMA MutatorKeeps ==
  ASSUME NEW j \in JobRecords, NEW cur \in Records,
         j.verb = "renew" => j.renewals < MaxRenewals
  PROVE  /\ Mutated(j, cur) \in Records \cup {Absent}
         /\ cur.revoked => Mutated(j, cur) = Absent \/ Mutated(j, cur).revoked
<1>1. CASE j.verb = "revoke"
  BY <1>1 DEF Mutated, Records, JobRecords
<1>2. CASE j.verb = "rename"
  BY <1>2 DEF Mutated, Records, JobRecords
<1>3. CASE j.verb = "touch"
  BY <1>3 DEF Mutated, Records, JobRecords
<1>4. CASE j.verb = "renew"
  <2>1. j.renewals + 1 \in 0..MaxRenewals
    BY <1>4, DeviceAssumption DEF JobRecords
  <2> QED
    BY <1>4, <2>1 DEF Mutated, Records, JobRecords
<1> QED
  BY <1>1, <1>2, <1>3, <1>4 DEF JobRecords

\* What a process writes back is a record, revoked if the claimed one was.
LEMMA RestoredKeeps ==
  ASSUME IInv, NEW p \in Processes, ~Free(p), job[p].claim
  PROVE  /\ job[p].device \in Devices
         /\ claimed[job[p].device] \in Records
         /\ Restored(p) \in Records
         /\ claimed[job[p].device].revoked => Restored(p).revoked
<1>1. job[p] \in JobRecords
  BY DEF IInv, StoreTypeOK, Free
<1>2. job[p].device \in Devices
  BY <1>1 DEF JobRecords
<1>3. claimed[job[p].device] \in Records
  BY <1>2 DEF IInv, StoreTypeOK, OneHolder
<1>4. job[p].verb = "renew" => job[p].renewals < MaxRenewals
  BY DEF IInv, RenewalsLeft
<1> DEFINE new == Mutated(job[p], claimed[job[p].device])
<1>5. /\ new \in Records \cup {Absent}
      /\ claimed[job[p].device].revoked => new = Absent \/ new.revoked
  BY <1>1, <1>3, <1>4, MutatorKeeps
<1>6. Restored(p) = IF new = Absent THEN claimed[job[p].device] ELSE new
  BY DEF Restored
<1> HIDE DEF new
<1> QED
  BY <1>2, <1>3, <1>5, <1>6, AbsentIsNoRecord

-----------------------------------------------------------------------------
(* The inductive invariant.                                                   *)

LEMMA InitInv == StoreInit => IInv
  BY DeviceAssumption, NoJobIsNoWork
     DEF StoreInit, IInv, StoreTypeOK, RenewalsLeft, Unborn, OneHolder, Free, Processes

\* Steps of a pairing.
LEMMA PairingInv ==
  ASSUME IInv, NEW q \in Pairings, PairingStep(q)
  PROVE  IInv'
<1>1. CASE CreatePairingToken(q) \/ PairingExpires(q) \/ ExchangeCut(q)
  BY <1>1, DeviceAssumption
     DEF IInv, StoreTypeOK, RenewalsLeft, Unborn, OneHolder, Free, InPlace,
         CreatePairingToken, PairingExpires, ExchangeCut
<1>2. CASE ReserveSlotAndExchange(q)
  <2>1. /\ born + 1 \in Devices /\ born \in Nat
        /\ record[born + 1] = Absent /\ claimed[born + 1] = Absent
    BY <1>2, DeviceAssumption DEF ReserveSlotAndExchange, IInv, StoreTypeOK, Unborn, Devices
  <2>2. StoreTypeOK'
    BY <1>2, <2>1, DeviceAssumption, NewRecordTyped
       DEF ReserveSlotAndExchange, IInv, StoreTypeOK, Devices
  <2>3. Unborn'
    BY <1>2, <2>1 DEF ReserveSlotAndExchange, IInv, StoreTypeOK, Unborn, Devices
  <2>4. RenewalsLeft'
    BY <1>2 DEF ReserveSlotAndExchange, IInv, RenewalsLeft, Free
  <2>5. OneHolder'
    BY <1>2, <2>1 DEF ReserveSlotAndExchange, IInv, StoreTypeOK, OneHolder, Free, InPlace
  <2> QED
    BY <2>2, <2>3, <2>4, <2>5 DEF IInv
<1> QED
  BY <1>1, <1>2 DEF PairingStep

\* A process p takes the file of d for work j.
Takes(p, j) ==
  /\ InPlace(j.device) /\ TakeFile(j.device)
  /\ job' = [job EXCEPT ![p] = j]
  /\ UNCHANGED <<pairing, born, crashes>>

LEMMA TakeInv ==
  ASSUME IInv, NEW p \in Processes, NEW j \in JobRecords, j.claim,
         j.verb = "renew" => j.renewals < MaxRenewals,
         ~job[p].claim, Takes(p, j)
  PROVE  IInv'
<1>1. j.device \in Devices /\ record[j.device] \in Records /\ claimed[j.device] = Absent
  BY DEF Takes, InPlace, JobRecords, IInv, StoreTypeOK, OneHolder
<1>2. StoreTypeOK'
  BY <1>1 DEF Takes, TakeFile, IInv, StoreTypeOK
<1>3. RenewalsLeft'
  BY DEF Takes, IInv, StoreTypeOK, RenewalsLeft, Free
<1>4. Unborn'
  BY <1>1, AbsentIsNoRecord DEF Takes, TakeFile, IInv, StoreTypeOK, Unborn
<1>5. \A q \in Processes \ {p} : job'[q] = job[q] /\ (Free(q)' <=> Free(q))
  BY DEF Takes, IInv, StoreTypeOK, Free
<1>6. job'[p] = j /\ ~Free(p)'
  BY NoJobIsNoWork DEF Takes, IInv, StoreTypeOK, Free
<1>7. \A q \in Processes \ {p} : ~Free(q) /\ job[q].claim => job[q].device # j.device
  BY <1>1 DEF IInv, OneHolder
<1>8. \A q \in Processes : job[q].claim => ~Free(q)
  BY NoJobIsNoWork DEF Free
<1>9. \A d \in Devices \ {j.device} : record'[d] = record[d] /\ claimed'[d] = claimed[d]
  BY <1>1 DEF Takes, TakeFile, IInv, StoreTypeOK
<1>10. record'[j.device] = Absent /\ claimed'[j.device] # Absent
  BY <1>1, AbsentIsNoRecord DEF Takes, TakeFile, IInv, StoreTypeOK
<1>11. \A d \in Devices : claimed'[d] # Absent =>
          /\ record'[d] = Absent
          /\ \E q \in Processes : ~Free(q)' /\ job'[q].claim /\ job'[q].device = d
  BY <1>5, <1>6, <1>8, <1>9, <1>10 DEF IInv, OneHolder, InPlace
<1>12. \A q \in Processes : ~Free(q)' /\ job'[q].claim => claimed'[job'[q].device] # Absent
  BY <1>5, <1>6, <1>7, <1>9, <1>10 DEF IInv, StoreTypeOK, OneHolder, JobRecords, Free
<1>13. \A q, r \in Processes : q # r /\ job'[q].claim /\ job'[r].claim =>
          job'[q].device # job'[r].device
  <2> SUFFICES ASSUME NEW q \in Processes, NEW r \in Processes, q # r, job'[q].claim, job'[r].claim
               PROVE  job'[q].device # job'[r].device
    OBVIOUS
  <2>1. CASE q = p \/ r = p
    BY <2>1, <1>5, <1>6, <1>7, <1>8
  <2>2. CASE q # p /\ r # p
    BY <2>2 DEF Processes
  <2> QED
    BY <2>1, <2>2
<1> QED
  BY <1>2, <1>3, <1>4, <1>11, <1>12, <1>13 DEF IInv, OneHolder, InPlace, Processes

LEMMA ClaimInv ==
  ASSUME IInv, NEW p \in Processes, Claim(p)
  PROVE  IInv'
<1> DEFINE j == [job[p] EXCEPT !.claim = TRUE]
<1>1. job[p] \in JobRecords
  BY DEF Claim, IInv, StoreTypeOK, Free
<1>2. /\ j \in JobRecords /\ j.claim /\ j.device = job[p].device
      /\ j.verb = job[p].verb /\ j.renewals = job[p].renewals
  BY <1>1 DEF JobRecords
<1>3. j.verb = "renew" => j.renewals < MaxRenewals
  BY <1>2 DEF Claim, IInv, RenewalsLeft
<1>4. ~job[p].claim
  BY DEF Claim
<1>5. Takes(p, j)
  BY <1>2 DEF Claim, Takes, IInv, StoreTypeOK
<1> HIDE DEF j
<1> QED
  BY <1>2, <1>3, <1>4, <1>5, TakeInv

LEMMA ManageInv ==
  ASSUME IInv, NEW p \in Processes, NEW verb \in {"revoke", "rename"}, NEW d \in Devices,
         Manage(p, verb, d)
  PROVE  IInv'
<1> DEFINE j == Work(verb, d, 0, TRUE)
<1>1. j \in JobRecords /\ j.claim /\ j.verb # "renew"
  BY DeviceAssumption DEF Work, JobRecords
<1>2. ~job[p].claim
  BY NoJobIsNoWork DEF Manage, Free
<1>3. Takes(p, j)
  BY DEF Manage, Takes, Work
<1> HIDE DEF j
<1> QED
  BY <1>1, <1>2, <1>3, TakeInv

\* A job that holds no claim ends or begins.
LEMMA IdleInv ==
  ASSUME IInv, NEW p \in Processes, NEW j \in JobRecords \cup {NoJob},
         j.verb = "renew" => j.renewals < MaxRenewals,
         ~j.claim, ~job[p].claim,
         job' = [job EXCEPT ![p] = j],
         UNCHANGED <<pairing, born, record, claimed, crashes>>
  PROVE  IInv'
<1>1. StoreTypeOK'
  BY DEF IInv, StoreTypeOK
<1>2. RenewalsLeft'
  BY DEF IInv, StoreTypeOK, RenewalsLeft, Free
<1>3. Unborn'
  BY DEF IInv, Unborn
<1>4. \A q \in Processes : job'[q].claim <=> job[q].claim
  BY DEF IInv, StoreTypeOK
<1>5. \A q \in Processes : job[q].claim => job'[q] = job[q]
  BY DEF IInv, StoreTypeOK
<1>6. \A q \in Processes : job[q].claim => ~Free(q) /\ ~Free(q)'
  BY <1>5, NoJobIsNoWork DEF Free
<1>7. OneHolder'
  BY <1>4, <1>5, <1>6 DEF IInv, OneHolder, InPlace, Processes
<1> QED
  BY <1>1, <1>2, <1>3, <1>7 DEF IInv

LEMMA FindInv ==
  ASSUME IInv, NEW verb \in {"renew", "touch"}, NEW d \in Devices, NEW n \in 0..MaxRenewals,
         Find(verb, d, n)
  PROVE  IInv'
<1> DEFINE j == Work(verb, d, n, FALSE)
<1>1. j \in JobRecords /\ ~j.claim /\ (j.verb = "renew" => j.renewals < MaxRenewals)
  BY DEF Work, JobRecords, Find
<1>2. ~job["server"].claim
  BY NoJobIsNoWork DEF Find, Free
<1>3. /\ job' = [job EXCEPT !["server"] = j]
      /\ UNCHANGED <<pairing, born, record, claimed, crashes>>
  BY DEF Find
<1> HIDE DEF j
<1> QED
  BY <1>1, <1>2, <1>3, IdleInv DEF Processes

\* The file of p's claim is given up, and old or nothing is in place.
Drops(p, old) ==
  /\ record' = [record EXCEPT ![job[p].device] = old]
  /\ claimed' = [claimed EXCEPT ![job[p].device] = Absent]
  /\ job' = [job EXCEPT ![p] = NoJob]
  /\ UNCHANGED <<pairing, born>>

LEMMA DropInv ==
  ASSUME IInv, NEW p \in Processes, ~Free(p), job[p].claim, NEW old \in Records \cup {Absent},
         Drops(p, old), crashes' \in 0..MaxCrashes
  PROVE  IInv'
<1> DEFINE e == job[p].device
<1>1. e \in Devices /\ claimed[e] # Absent /\ record[e] = Absent
  BY DEF IInv, StoreTypeOK, OneHolder, Free, JobRecords, InPlace
<1>2. StoreTypeOK'
  BY <1>1 DEF Drops, IInv, StoreTypeOK
<1>3. RenewalsLeft'
  BY DEF Drops, IInv, StoreTypeOK, RenewalsLeft, Free
<1>4. Unborn'
  BY <1>1 DEF Drops, IInv, StoreTypeOK, Unborn
<1>5. \A q \in Processes \ {p} : job'[q] = job[q] /\ (Free(q)' <=> Free(q))
  BY DEF Drops, IInv, StoreTypeOK, Free
<1>6. job'[p] = NoJob /\ Free(p)' /\ ~job'[p].claim
  BY NoJobIsNoWork DEF Drops, IInv, StoreTypeOK, Free
<1>7. \A q \in Processes \ {p} : job[q].claim => job[q].device # e
  BY DEF IInv, OneHolder, Processes
<1>8. \A d \in Devices \ {e} : record'[d] = record[d] /\ claimed'[d] = claimed[d]
  BY <1>1 DEF Drops, IInv, StoreTypeOK
<1>9. claimed'[e] = Absent
  BY <1>1 DEF Drops, IInv, StoreTypeOK
<1> HIDE DEF e
<1>10. \A d \in Devices : claimed'[d] # Absent =>
          /\ record'[d] = Absent
          /\ \E q \in Processes : ~Free(q)' /\ job'[q].claim /\ job'[q].device = d
  <2> SUFFICES ASSUME NEW d \in Devices, claimed'[d] # Absent
               PROVE  /\ record'[d] = Absent
                      /\ \E q \in Processes : ~Free(q)' /\ job'[q].claim /\ job'[q].device = d
    OBVIOUS
  <2>1. d # e /\ claimed[d] # Absent
    BY <1>8, <1>9
  <2>2. PICK q \in Processes : ~Free(q) /\ job[q].claim /\ job[q].device = d
    BY <2>1 DEF IInv, OneHolder
  <2>3. q # p
    BY <2>1, <2>2 DEF e
  <2> QED
    BY <1>5, <1>8, <2>1, <2>2, <2>3 DEF IInv, OneHolder, InPlace
<1>11. \A q \in Processes : ~Free(q)' /\ job'[q].claim => claimed'[job'[q].device] # Absent
  <2> SUFFICES ASSUME NEW q \in Processes, ~Free(q)', job'[q].claim
               PROVE  claimed'[job'[q].device] # Absent
    OBVIOUS
  <2>1. q # p /\ job'[q] = job[q] /\ ~Free(q)
    BY <1>5, <1>6
  <2>2. job[q].device \in Devices /\ job[q].device # e
    BY <1>7, <2>1 DEF IInv, StoreTypeOK, Free, JobRecords
  <2> QED
    BY <1>8, <2>1, <2>2 DEF IInv, OneHolder
<1>12. ~(job'["server"].claim /\ job'["cli"].claim)
  BY <1>6 DEF Processes
<1> QED
  BY <1>2, <1>3, <1>4, <1>10, <1>11, <1>12 DEF IInv, OneHolder, InPlace

LEMMA ProcessInv ==
  ASSUME IInv, NEW p \in Processes, ProcessStep(p)
  PROVE  IInv'
<1>1. CASE Claim(p)
  BY <1>1, ClaimInv
<1>2. CASE ClaimLost(p)
  <2>1. NoJob.verb # "renew"
    BY DEF NoJob
  <2> QED
    BY <1>2, <2>1, NoJobIsNoWork, IdleInv DEF ClaimLost
<1>3. CASE WriteBack(p)
  <2>1. Restored(p) \in Records
    BY <1>3, RestoredKeeps DEF WriteBack
  <2>2. Drops(p, Restored(p)) /\ crashes' \in 0..MaxCrashes
    BY <1>3 DEF WriteBack, Drops, IInv, StoreTypeOK
  <2> QED
    BY <1>3, <2>1, <2>2, DropInv DEF WriteBack
<1>4. CASE Crash(p)
  <2>1. crashes' \in 0..MaxCrashes
    BY <1>4, DeviceAssumption DEF Crash, IInv, StoreTypeOK
  <2>2. CASE job[p].claim
    <3>1. job[p].device \in Devices /\ record[job[p].device] = Absent
      BY <1>4, <2>2 DEF Crash, IInv, StoreTypeOK, OneHolder, Free, JobRecords, InPlace
    <3>2. Drops(p, Absent)
      BY <1>4, <2>2, <3>1 DEF Crash, Drops, IInv, StoreTypeOK
    <3> QED
      BY <1>4, <2>1, <2>2, <3>2, DropInv DEF Crash
  <2>3. CASE ~job[p].claim
    <3>1. StoreTypeOK'
      BY <1>4, <2>1, <2>3 DEF Crash, IInv, StoreTypeOK
    <3>2. RenewalsLeft'
      BY <1>4 DEF Crash, IInv, StoreTypeOK, RenewalsLeft, Free
    <3>3. Unborn'
      BY <1>4, <2>3 DEF Crash, IInv, Unborn
    <3>4. \A q \in Processes : job'[q].claim <=> job[q].claim
      BY <1>4, <2>3, NoJobIsNoWork DEF Crash, IInv, StoreTypeOK
    <3>5. \A q \in Processes : job[q].claim => job'[q] = job[q] /\ ~Free(q) /\ ~Free(q)'
      BY <1>4, <2>3, NoJobIsNoWork DEF Crash, IInv, StoreTypeOK, Free
    <3>6. OneHolder'
      BY <1>4, <2>3, <3>4, <3>5 DEF Crash, IInv, OneHolder, InPlace, Processes
    <3> QED
      BY <3>1, <3>2, <3>3, <3>6 DEF IInv
  <2> QED
    BY <2>2, <2>3
<1> QED
  BY <1>1, <1>2, <1>3, <1>4 DEF ProcessStep

\* The passing of time leaves a record a record.
LEMMA TimeChanges ==
  ASSUME IInv, NEW d \in Devices, Ages(d) \/ HourPasses(d)
  PROVE  \E r \in Records : record' = [record EXCEPT ![d] = r] /\ record[d] \in Records
<1> DEFINE aged == [record[d] EXCEPT !.age = Older(record[d].age)]
           unseen == [record[d] EXCEPT !.seen = FALSE]
<1>1. record[d] \in Records
  BY DEF Ages, HourPasses, InPlace, Absent, IInv, StoreTypeOK
<1>2. aged \in Records /\ unseen \in Records
  BY <1>1 DEF Records, Older
<1>3. CASE Ages(d)
  <2>1. record' = [record EXCEPT ![d] = aged]
    BY <1>3 DEF Ages
  <2> HIDE DEF aged
  <2> QED
    BY <1>1, <1>2, <2>1
<1>4. CASE HourPasses(d)
  <2>1. record' = [record EXCEPT ![d] = unseen]
    BY <1>4 DEF HourPasses
  <2> HIDE DEF unseen
  <2> QED
    BY <1>1, <1>2, <2>1
<1> QED
  BY <1>3, <1>4

LEMMA TimeInv ==
  ASSUME IInv, NEW d \in Devices, Ages(d) \/ HourPasses(d)
  PROVE  IInv'
<1>1. PICK r \in Records : record' = [record EXCEPT ![d] = r] /\ record[d] \in Records
  BY TimeChanges
<1>2. UNCHANGED <<pairing, born, claimed, job, crashes>>
  BY DEF Ages, HourPasses
<1>3. \A e \in Devices : record'[e] = Absent <=> record[e] = Absent
  BY <1>1, AbsentIsNoRecord DEF IInv, StoreTypeOK
<1>4. StoreTypeOK'
  BY <1>1, <1>2 DEF IInv, StoreTypeOK
<1>5. RenewalsLeft' /\ Unborn' /\ OneHolder'
  BY <1>2, <1>3 DEF IInv, RenewalsLeft, Unborn, OneHolder, Free, InPlace
<1> QED
  BY <1>4, <1>5 DEF IInv

LEMMA StepInv == IInv /\ [StoreNext]_store => IInv'
<1> SUFFICES ASSUME IInv, [StoreNext]_store PROVE IInv'
  OBVIOUS
<1>1. ASSUME NEW q \in Pairings, PairingStep(q) PROVE IInv'
  BY <1>1, PairingInv
<1>2. ASSUME NEW p \in Processes, ProcessStep(p) PROVE IInv'
  BY <1>2, ProcessInv
<1>3. ASSUME NEW d \in Devices, DeviceStep(d) PROVE IInv'
  BY <1>3, FindInv, ManageInv, TimeInv DEF DeviceStep
<1>4. CASE UNCHANGED store
  BY <1>4 DEF store, IInv, StoreTypeOK, RenewalsLeft, Unborn, OneHolder, Free, InPlace
<1> QED
  BY <1>1, <1>2, <1>3, <1>4 DEF StoreNext

LEMMA InvAlways == StoreSpec => []IInv
  BY InitInv, StepInv, PTL DEF StoreSpec

-----------------------------------------------------------------------------
(* The theorems.                                                              *)

\* A claimed device file is held by one of the two processes and is never in place
\* as well (mutateDeviceRecord), whatever is killed when.
THEOREM OneHolderHolds == StoreSpec => []OneHolder
<1>1. IInv => OneHolder
  BY DEF IInv
<1> QED
  BY <1>1, InvAlways, PTL

\* The files of the store keep their types, and renewals and crashes their bounds.
THEOREM TypeCorrect == StoreSpec => []StoreTypeOK
<1>1. IInv => StoreTypeOK
  BY DEF IInv
<1> QED
  BY <1>1, InvAlways, PTL

\* What a step makes of the copy of a device that is revoked.
LEMMA RevokedStep ==
  ASSUME IInv, StoreNext, NEW d \in Devices, Copy(d).revoked
  PROVE  ~Active(Copy(d)')
<1>1. Copy(d) \in Records
  BY DEF Copy, Absent, InPlace, IInv, StoreTypeOK
<1>2. \A r : r = Absent \/ r.revoked => ~Active(r)
  BY DEF Active
<1>3. CASE record'[d] = record[d] /\ claimed'[d] = claimed[d]
  BY <1>2, <1>3 DEF Copy, InPlace
<1>4. ASSUME NEW q \in Pairings, PairingStep(q)
      PROVE  record'[d] = record[d] /\ claimed'[d] = claimed[d]
  <2>1. d # born + 1 \/ ~ReserveSlotAndExchange(q)
    BY <1>1, AbsentIsNoRecord
       DEF ReserveSlotAndExchange, Copy, InPlace, IInv, StoreTypeOK, Unborn, Devices
  <2> QED
    BY <1>4, <2>1
       DEF PairingStep, CreatePairingToken, PairingExpires, ReserveSlotAndExchange, ExchangeCut,
           IInv, StoreTypeOK
<1>5. ASSUME NEW e \in Devices, InPlace(e), TakeFile(e)
      PROVE  Copy(d)' = Copy(d)
  BY <1>5 DEF TakeFile, Copy, InPlace, IInv, StoreTypeOK, OneHolder
<1>6. ASSUME NEW p \in Processes, ProcessStep(p)
      PROVE  ~Active(Copy(d)')
  <2>1. CASE Claim(p)
    <3>1. job[p].device \in Devices
      BY <2>1 DEF Claim, IInv, StoreTypeOK, Free, JobRecords
    <3> QED
      BY <1>2, <1>5, <2>1, <3>1 DEF Claim
  <2>2. CASE ClaimLost(p)
    BY <1>3, <2>2 DEF ClaimLost
  <2>3. CASE WriteBack(p)
    <3>1. /\ job[p].device \in Devices /\ Restored(p) \in Records
          /\ claimed[job[p].device] \in Records
          /\ claimed[job[p].device].revoked => Restored(p).revoked
      BY <2>3, RestoredKeeps DEF WriteBack
    <3>2. CASE d = job[p].device
      <4>1. Copy(d) = claimed[d]
        BY <3>1, <3>2, AbsentIsNoRecord DEF Copy, InPlace, IInv, OneHolder
      <4>2. Copy(d)' = Restored(p)
        BY <2>3, <3>1, <3>2, AbsentIsNoRecord DEF WriteBack, Copy, InPlace, IInv, StoreTypeOK
      <4> QED
        BY <1>2, <3>1, <3>2, <4>1, <4>2
    <3>3. CASE d # job[p].device
      BY <1>3, <2>3, <3>3 DEF WriteBack, IInv, StoreTypeOK
    <3> QED
      BY <3>2, <3>3
  <2>4. CASE Crash(p)
    <3>1. record'[d] = record[d] /\ claimed'[d] \in {claimed[d], Absent}
      BY <2>4 DEF Crash, IInv, StoreTypeOK
    <3>2. Copy(d)' = Copy(d) \/ Copy(d)' = Absent
      BY <3>1 DEF Copy, InPlace
    <3> QED
      BY <1>2, <3>2
  <2> QED
    BY <1>6, <2>1, <2>2, <2>3, <2>4 DEF ProcessStep
<1>7. ASSUME NEW e \in Devices, DeviceStep(e)
      PROVE  ~Active(Copy(d)')
  <2>1. ASSUME NEW verb \in {"renew", "touch"}, NEW n \in 0..MaxRenewals, Find(verb, e, n)
        PROVE  record'[d] = record[d] /\ claimed'[d] = claimed[d]
    BY <2>1 DEF Find
  <2>2. ASSUME NEW p \in Processes, NEW verb \in {"revoke", "rename"}, Manage(p, verb, e)
        PROVE  Copy(d)' = Copy(d)
    BY <1>5, <2>2 DEF Manage
  <2>3. ASSUME Ages(e) \/ HourPasses(e)
        PROVE  Copy(d)' = Absent \/ Copy(d)'.revoked
    <3>1. claimed' = claimed /\ \A f \in Devices \ {e} : record'[f] = record[f]
      BY <2>3 DEF Ages, HourPasses, IInv, StoreTypeOK
    <3>2. CASE d # e
      BY <3>1, <3>2 DEF Copy, InPlace
    <3>3. CASE d = e /\ record[d] \in Records
      <4>1. Copy(d) = record[d]
        BY <3>3, AbsentIsNoRecord DEF Copy, InPlace
      <4>2. record'[d] \in Records /\ record'[d].revoked = record[d].revoked
        <5>1. CASE Ages(d)
          <6>1. record'[d] = [record[d] EXCEPT !.age = Older(record[d].age)]
            BY <5>1, <3>3 DEF Ages, IInv, StoreTypeOK
          <6> QED
            BY <3>3, <6>1 DEF Older, Records
        <5>2. CASE HourPasses(d)
          <6>1. record'[d] = [record[d] EXCEPT !.seen = FALSE]
            BY <5>2, <3>3 DEF HourPasses, IInv, StoreTypeOK
          <6> QED
            BY <3>3, <6>1 DEF Records
        <5> QED
          BY <2>3, <3>3, <5>1, <5>2
      <4> QED
        BY <4>1, <4>2, AbsentIsNoRecord DEF Copy, InPlace
    <3>4. CASE d = e /\ record[d] \notin Records
      BY <2>3, <3>4 DEF Ages, HourPasses, InPlace, Absent, IInv, StoreTypeOK
    <3> QED
      BY <3>2, <3>3, <3>4
  <2> QED
    BY <1>2, <1>3, <1>7, <2>1, <2>2, <2>3 DEF DeviceStep
<1> QED
  BY <1>3, <1>4, <1>6, <1>7 DEF StoreNext

\* A revoked device is never valid again, whatever renewal or last-seen update read
\* its record before the revocation (the promise above mutateDeviceRecord).
THEOREM RevokedStays == StoreSpec => RevokedStaysRevoked
<1>1. IInv /\ [StoreNext]_store =>
         [\A d \in Devices : Copy(d).revoked => ~Active(Copy(d)')]_store
  BY RevokedStep
<1> QED
  BY <1>1, InvAlways, PTL DEF StoreSpec, RevokedStaysRevoked

-----------------------------------------------------------------------------
(* What is lost.                                                              *)

Lost == {d \in 1..born : Copy(d) = Absent}
LossInv == IInv /\ IsFiniteSet(Lost) /\ LossNeedsCrash

\* A step that loses nothing more.
LEMMA NothingLost ==
  ASSUME LossInv, StoreTypeOK', Lost' \subseteq Lost, crashes' >= crashes
  PROVE  IsFiniteSet(Lost') /\ Cardinality(Lost') <= crashes'
<1>1. IsFiniteSet(Lost') /\ Cardinality(Lost') <= Cardinality(Lost)
  BY FS_Subset DEF LossInv
<1>2. Cardinality(Lost) <= crashes
  BY DEF LossInv, LossNeedsCrash, Lost
<1>3. Cardinality(Lost) \in Nat /\ Cardinality(Lost') \in Nat
  BY <1>1, FS_CardinalityType DEF LossInv
<1> QED
  BY <1>1, <1>2, <1>3, DeviceAssumption DEF LossInv, IInv, StoreTypeOK

\* A killed process takes one record along at most.
LEMMA OneLost ==
  ASSUME LossInv, StoreTypeOK', NEW e, Lost' \subseteq Lost \cup {e}, crashes' = crashes + 1
  PROVE  IsFiniteSet(Lost') /\ Cardinality(Lost') <= crashes'
<1>1. /\ IsFiniteSet(Lost \cup {e})
      /\ Cardinality(Lost \cup {e}) <= Cardinality(Lost) + 1
  <2>1. IsFiniteSet(Lost)
    BY DEF LossInv
  <2>2. Cardinality(Lost) \in Nat
    BY <2>1, FS_CardinalityType
  <2>3. /\ IsFiniteSet(Lost \cup {e})
        /\ Cardinality(Lost \cup {e}) = IF e \in Lost THEN Cardinality(Lost) ELSE Cardinality(Lost) + 1
    BY <2>1, FS_AddElement
  <2> QED
    BY <2>2, <2>3
<1>2. IsFiniteSet(Lost') /\ Cardinality(Lost') <= Cardinality(Lost \cup {e})
  BY <1>1, FS_Subset
<1>3. Cardinality(Lost) <= crashes
  BY DEF LossInv, LossNeedsCrash, Lost
<1>4. Cardinality(Lost) \in Nat /\ Cardinality(Lost') \in Nat /\ Cardinality(Lost \cup {e}) \in Nat
  BY <1>1, <1>2, FS_CardinalityType DEF LossInv
<1> QED
  BY <1>1, <1>2, <1>3, <1>4, DeviceAssumption DEF LossInv, IInv, StoreTypeOK

\* No copy disappears but by a crash.
LEMMA CopyStays ==
  ASSUME IInv, StoreNext, NEW d \in Devices, Copy(d) # Absent,
         \A p \in Processes : ~Crash(p)
  PROVE  Copy(d)' # Absent
<1>1. CASE record'[d] = record[d] /\ claimed'[d] = claimed[d]
  BY <1>1 DEF Copy, InPlace
<1>2. ASSUME NEW q \in Pairings, PairingStep(q)
      PROVE  Copy(d)' # Absent
  <2>1. CASE ReserveSlotAndExchange(q)
    <3>1. NewRecord # Absent
      BY DEF NewRecord, Absent
    <3> QED
      BY <2>1, <3>1 DEF ReserveSlotAndExchange, Copy, InPlace, IInv, StoreTypeOK
  <2>2. CASE ~ReserveSlotAndExchange(q)
    BY <1>1, <1>2, <2>2 DEF PairingStep, CreatePairingToken, PairingExpires, ExchangeCut
  <2> QED
    BY <2>1, <2>2
<1>3. ASSUME NEW e \in Devices, InPlace(e), TakeFile(e)
      PROVE  Copy(d)' = Copy(d)
  BY <1>3 DEF TakeFile, Copy, InPlace, IInv, StoreTypeOK, OneHolder
<1>4. ASSUME NEW p \in Processes, ProcessStep(p)
      PROVE  Copy(d)' # Absent
  <2>1. CASE Claim(p)
    <3>1. job[p].device \in Devices
      BY <2>1 DEF Claim, IInv, StoreTypeOK, Free, JobRecords
    <3> QED
      BY <1>3, <2>1, <3>1 DEF Claim
  <2>2. CASE ClaimLost(p)
    BY <1>1, <2>2 DEF ClaimLost
  <2>3. CASE WriteBack(p)
    <3>1. job[p].device \in Devices /\ Restored(p) \in Records
      BY <2>3, RestoredKeeps DEF WriteBack
    <3>2. CASE d = job[p].device
      BY <2>3, <3>1, <3>2, AbsentIsNoRecord DEF WriteBack, Copy, InPlace, IInv, StoreTypeOK
    <3>3. CASE d # job[p].device
      BY <1>1, <2>3, <3>3 DEF WriteBack, IInv, StoreTypeOK
    <3> QED
      BY <3>2, <3>3
  <2> QED
    BY <1>4, <2>1, <2>2, <2>3 DEF ProcessStep
<1>5. ASSUME NEW e \in Devices, DeviceStep(e)
      PROVE  Copy(d)' # Absent
  <2>1. ASSUME NEW verb \in {"renew", "touch"}, NEW n \in 0..MaxRenewals, Find(verb, e, n)
        PROVE  Copy(d)' # Absent
    BY <1>1, <2>1 DEF Find
  <2>2. ASSUME NEW p \in Processes, NEW verb \in {"revoke", "rename"}, Manage(p, verb, e)
        PROVE  Copy(d)' # Absent
    BY <1>3, <2>2 DEF Manage
  <2>3. ASSUME Ages(e) \/ HourPasses(e)
        PROVE  Copy(d)' # Absent
    <3>1. PICK r \in Records : record' = [record EXCEPT ![e] = r]
      BY <2>3, TimeChanges
    <3> QED
      BY <2>3, <3>1, AbsentIsNoRecord DEF Ages, HourPasses, Copy, InPlace, IInv, StoreTypeOK
  <2> QED
    BY <1>5, <2>1, <2>2, <2>3 DEF DeviceStep
<1> QED
  BY <1>2, <1>4, <1>5 DEF StoreNext

LEMMA LossStep == LossInv /\ [StoreNext]_store => LossInv'
<1> SUFFICES ASSUME LossInv, [StoreNext]_store PROVE LossInv'
  OBVIOUS
<1>1. IInv' /\ StoreTypeOK'
  BY StepInv DEF LossInv, IInv
<1> SUFFICES IsFiniteSet(Lost') /\ Cardinality(Lost') <= crashes'
  BY <1>1 DEF LossInv, LossNeedsCrash, Lost
<1>2. CASE UNCHANGED store
  <2>1. Lost' = Lost /\ crashes' = crashes
    BY <1>2 DEF store, Lost, Copy, InPlace
  <2> QED
    BY <1>1, <2>1, NothingLost DEF LossInv, IInv, StoreTypeOK
<1>3. ASSUME NEW p \in Processes, Crash(p)
      PROVE  IsFiniteSet(Lost') /\ Cardinality(Lost') <= crashes'
  <2>1. born' = born /\ crashes' = crashes + 1
    BY <1>3 DEF Crash
  <2>2. \A d \in 1..born : d # job[p].device => record'[d] = record[d] /\ claimed'[d] = claimed[d]
    BY <1>3 DEF Crash, LossInv, IInv, StoreTypeOK, Devices
  <2>3. Lost' \subseteq Lost \cup {job[p].device}
    BY <2>1, <2>2 DEF Lost, Copy, InPlace
  <2> QED
    BY <1>1, <2>1, <2>3, OneLost
<1>4. CASE StoreNext /\ \A p \in Processes : ~Crash(p)
  <2>1. \A d \in Devices : Copy(d) # Absent => Copy(d)' # Absent
    BY <1>4, CopyStays DEF LossInv
  <2>2. born \in Nat /\ 1..born \subseteq Devices /\ crashes \in Nat
    BY DeviceAssumption DEF LossInv, IInv, StoreTypeOK, Devices
  <2>3. \/ born' = born /\ (crashes' = crashes \/ crashes' = crashes + 1)
        \/ \E q \in Pairings : ReserveSlotAndExchange(q)
    BY <1>4
       DEF StoreNext, PairingStep, ProcessStep, DeviceStep, CreatePairingToken, PairingExpires,
           ExchangeCut, Claim, ClaimLost, WriteBack, Find, Manage, Ages, HourPasses
  <2>4. CASE born' = born /\ (crashes' = crashes \/ crashes' = crashes + 1)
    <3>1. Lost' \subseteq Lost
      BY <2>1, <2>2, <2>4 DEF Lost
    <3> QED
      BY <1>1, <2>2, <2>4, <3>1, NothingLost
  <2>5. ASSUME NEW q \in Pairings, ReserveSlotAndExchange(q)
        PROVE  Lost' \subseteq Lost /\ crashes' = crashes
    <3>1. born' = born + 1 /\ born + 1 \in Devices /\ crashes' = crashes
      BY <2>2, <2>5, DeviceAssumption DEF ReserveSlotAndExchange, LossInv, IInv, StoreTypeOK, Devices
    <3>2. record'[born + 1] = NewRecord
      BY <2>5, <3>1 DEF ReserveSlotAndExchange, LossInv, IInv, StoreTypeOK
    <3>4. \A d \in 1..born + 1 : d = born + 1 \/ d \in 1..born
      BY <2>2
    <3>5. ASSUME NEW d \in Lost' PROVE d \in Lost
      <4>1. d \in 1..born + 1 /\ Copy(d)' = Absent
        BY <3>1, <3>5 DEF Lost
      <4>2. d # born + 1
        <5> SUFFICES ASSUME d = born + 1 PROVE FALSE
          OBVIOUS
        <5>1. Copy(d)' = IF record'[d] # Absent THEN record'[d] ELSE claimed'[d]
          BY DEF Copy, InPlace
        <5> QED
          BY <3>2, <4>1, <5>1 DEF NewRecord, Absent
      <4>3. d \in 1..born
        BY <3>4, <4>1, <4>2
      <4> QED
        BY <2>1, <2>2, <4>1, <4>3 DEF Lost
    <3> QED
      BY <3>1, <3>5
  <2>6. crashes' = crashes /\ Lost' \subseteq Lost => IsFiniteSet(Lost') /\ Cardinality(Lost') <= crashes'
    BY <1>1, <2>2, NothingLost
  <2> QED
    BY <2>3, <2>4, <2>5, <2>6
<1> QED
  BY <1>2, <1>3, <1>4

\* The record of a device disappears with a killed process only, one for each.
THEOREM LossNeedsCrashHolds == StoreSpec => []LossNeedsCrash
<1>1. StoreInit => LossInv
  <2> SUFFICES ASSUME StoreInit PROVE LossInv
    OBVIOUS
  <2>1. Lost = {}
    BY DEF StoreInit, Lost
  <2> QED
    BY <2>1, InitInv, FS_EmptySet DEF LossInv, LossNeedsCrash, Lost, StoreInit
<1>2. LossInv => LossNeedsCrash
  BY DEF LossInv
<1> QED
  BY <1>1, <1>2, LossStep, PTL DEF StoreSpec

\* Together: the two processes never hold one record both, and a record comes back
\* from every change, also from one that is declined (mutateDeviceRecord).
THEOREM RecordsAreKeptHolds == StoreSpec => []RecordsAreKept
<1>1. StoreTypeOK /\ OneHolder /\ LossNeedsCrash => RecordsAreKept
  BY DEF RecordsAreKept
<1> QED
  BY <1>1, TypeCorrect, OneHolderHolds, LossNeedsCrashHolds, PTL

-----------------------------------------------------------------------------
(* The phone.  A store with more renewals knows every token it knew before.     *)

\* A token the store knows: of a device it has made, and no newer than its record.
Known(t, b, c) ==
  t # NoToken => t[1] <= b /\ (c[t[1]] # Absent => t[2] <= c[t[1]].renewals)
Copies == [d \in Devices |-> Copy(d)]
Stored(b, c) == {t \in Tokens : Known(t, b, c)}
PhoneShape(S) ==
  /\ serving \in {"none", "page", "exec", "renew"}
  /\ wire \in [Kinds -> [at : {"none", "sent", "answered"}, token : S, ok : BOOLEAN]]
  /\ shelf \in S /\ post \in Seq(S) /\ inbox \in S
  /\ worker \in [memory : S, saved : S, timed : BOOLEAN, renewing : BOOLEAN]
  /\ page \in {"none", "loading", "open"}
PhoneInv == IInv /\ PhoneShape(Stored(born, Copies))

LEMMA TokenParts ==
  ASSUME NEW t \in Tokens, t # NoToken
  PROVE  t[1] \in Devices /\ t[2] \in 0..MaxRenewals /\ t = Token(t[1], t[2])
  BY DEF Tokens, Token
LEMMA NoTokenStored == \A b, c : NoToken \in Stored(b, c)
  BY DEF Stored, Known, Tokens

LEMMA TokenIsKnown ==
  ASSUME NEW d \in Devices, NEW n \in 0..MaxRenewals, NEW b, NEW c, d <= b,
         c[d] # Absent => n <= c[d].renewals
  PROVE  Token(d, n) \in Stored(b, c)
<1>1. Token(d, n) \in Tokens /\ Token(d, n)[1] = d /\ Token(d, n)[2] = n
  BY DEF Tokens, Token
<1>. QED
  BY <1>1 DEF Stored, Known

\* What is written back was renewed at most once more than what was claimed.
LEMMA RestoredRenews ==
  ASSUME IInv, NEW p \in Processes, ~Free(p), job[p].claim
  PROVE  /\ claimed[job[p].device].renewals <= Restored(p).renewals
         /\ job[p].verb = "renew" /\ Mutated(job[p], claimed[job[p].device]) # Absent =>
               Restored(p).renewals = job[p].renewals + 1
<1> DEFINE j == job[p]
           cur == claimed[j.device]
           new == Mutated(j, cur)
<1>1. j \in JobRecords /\ cur \in Records
  BY RestoredKeeps DEF IInv, StoreTypeOK, Free
<1>2. Restored(p) = IF new = Absent THEN cur ELSE new
  BY DEF Restored
<1>3. new # Absent =>
         /\ cur.renewals <= new.renewals
         /\ j.verb = "renew" => new.renewals = j.renewals + 1
  <2>0. cur.renewals \in Nat
    BY <1>1, DeviceAssumption DEF Records
  <2>1. CASE j.verb = "revoke"
    BY <1>1, <2>0, <2>1 DEF Mutated, Records
  <2>2. CASE j.verb = "rename"
    BY <1>1, <2>0, <2>2 DEF Mutated, Records
  <2>3. CASE j.verb = "touch"
    BY <1>1, <2>0, <2>3 DEF Mutated, Records
  <2>4. CASE j.verb = "renew"
    BY <1>1, <2>0, <2>4 DEF Mutated, Records
  <2> QED
    BY <1>1, <2>1, <2>2, <2>3, <2>4 DEF JobRecords
<1>4. cur.renewals \in Nat
  BY <1>1, DeviceAssumption DEF Records
<1> QED
  BY <1>2, <1>3, <1>4

\* Time passes without a renewal.
LEMMA TimeRenewals ==
  ASSUME IInv, NEW e \in Devices, Ages(e) \/ HourPasses(e)
  PROVE  /\ record[e] \in Records /\ record'[e].renewals = record[e].renewals
         /\ record'[e] \in Records /\ claimed' = claimed
         /\ \A f \in Devices \ {e} : record'[f] = record[f]
<1> DEFINE aged == [record[e] EXCEPT !.age = Older(record[e].age)]
           unseen == [record[e] EXCEPT !.seen = FALSE]
<1>1. record[e] \in Records /\ record \in [Devices -> Records \cup {Absent}]
  BY DEF Ages, HourPasses, InPlace, Absent, IInv, StoreTypeOK
<1>2. /\ aged \in Records /\ aged.renewals = record[e].renewals
      /\ unseen \in Records /\ unseen.renewals = record[e].renewals
  BY <1>1 DEF Records, Older
<1>3. claimed' = claimed
         /\ (record' = [record EXCEPT ![e] = aged] \/ record' = [record EXCEPT ![e] = unseen])
  BY DEF Ages, HourPasses
<1> HIDE DEF aged, unseen
<1> QED
  BY <1>1, <1>2, <1>3

\* The store forgets no token: a device stays born, and its record is renewed, not
\* set back.
LEMMA Renewals ==
  ASSUME IInv, [StoreNext]_store, NEW d \in Devices, d <= born, Copy(d)' # Absent
  PROVE  Copy(d) # Absent /\ Copy(d)'.renewals \in Nat /\ Copy(d).renewals <= Copy(d)'.renewals
<1>0. Copy(d) \in Records \cup {Absent} /\ \A r \in Records : r.renewals \in Nat
  BY DeviceAssumption DEF IInv, StoreTypeOK, Copy, Records
<1>1. ASSUME Copy(d)' = Copy(d)
      PROVE  Copy(d) # Absent /\ Copy(d)'.renewals \in Nat /\ Copy(d).renewals <= Copy(d)'.renewals
  BY <1>0, <1>1
<1>2. CASE record'[d] = record[d] /\ claimed'[d] = claimed[d]
  BY <1>1, <1>2 DEF Copy, InPlace
<1>3. CASE UNCHANGED store
  BY <1>2, <1>3 DEF store
<1>4. ASSUME NEW q \in Pairings, PairingStep(q)
      PROVE  Copy(d) # Absent /\ Copy(d)'.renewals \in Nat /\ Copy(d).renewals <= Copy(d)'.renewals
  <2>1. CASE ReserveSlotAndExchange(q)
    <3>1. d # born + 1
      BY DeviceAssumption DEF IInv, StoreTypeOK, Devices
    <3>. QED
      BY <1>2, <2>1, <3>1 DEF ReserveSlotAndExchange, IInv, StoreTypeOK
  <2>2. CASE ~ReserveSlotAndExchange(q)
    BY <1>2, <1>4, <2>2 DEF PairingStep, CreatePairingToken, PairingExpires, ExchangeCut
  <2>. QED
    BY <2>1, <2>2
<1>5. ASSUME NEW e \in Devices, InPlace(e), TakeFile(e)
      PROVE  Copy(d)' = Copy(d)
  BY <1>5 DEF TakeFile, Copy, InPlace, IInv, StoreTypeOK, OneHolder
<1>6. ASSUME NEW p \in Processes, ProcessStep(p)
      PROVE  Copy(d) # Absent /\ Copy(d)'.renewals \in Nat /\ Copy(d).renewals <= Copy(d)'.renewals
  <2>1. CASE Claim(p)
    <3>1. job[p].device \in Devices
      BY <2>1 DEF Claim, IInv, StoreTypeOK, Free, JobRecords
    <3>. QED
      BY <1>1, <1>5, <2>1, <3>1 DEF Claim
  <2>2. CASE ClaimLost(p)
    BY <1>2, <2>2 DEF ClaimLost
  <2>3. CASE WriteBack(p)
    <3>1. /\ job[p].device \in Devices /\ claimed[job[p].device] \in Records
          /\ Restored(p) \in Records
      BY <2>3, RestoredKeeps DEF WriteBack
    <3>2. CASE d # job[p].device
      BY <1>2, <2>3, <3>1, <3>2 DEF WriteBack, IInv, StoreTypeOK
    <3>3. CASE d = job[p].device
      <4>1. record[d] = Absent
        BY <3>1, <3>3, AbsentIsNoRecord DEF IInv, OneHolder, InPlace
      <4>2. Copy(d) = claimed[d] /\ Copy(d)' = Restored(p)
        BY <2>3, <3>1, <3>3, <4>1, AbsentIsNoRecord
           DEF WriteBack, Copy, InPlace, IInv, StoreTypeOK
      <4>3. claimed[d].renewals <= Restored(p).renewals
        BY <2>3, <3>1, <3>3, RestoredRenews DEF WriteBack
      <4>. QED
        BY <1>0, <3>1, <3>3, <4>2, <4>3, AbsentIsNoRecord
    <3>. QED
      BY <3>2, <3>3
  <2>4. CASE Crash(p)
    <3>1. record'[d] = record[d] /\ (claimed'[d] = claimed[d] \/ claimed'[d] = Absent)
      BY <2>4 DEF Crash, IInv, StoreTypeOK
    <3>2. Copy(d)' = Copy(d)
      BY <3>1 DEF Copy, InPlace
    <3>. QED
      BY <1>1, <3>2
  <2>. QED
    BY <1>6, <2>1, <2>2, <2>3, <2>4 DEF ProcessStep
<1>7. ASSUME NEW e \in Devices, DeviceStep(e)
      PROVE  Copy(d) # Absent /\ Copy(d)'.renewals \in Nat /\ Copy(d).renewals <= Copy(d)'.renewals
  <2>1. ASSUME NEW verb \in {"renew", "touch"}, NEW n \in 0..MaxRenewals, Find(verb, e, n)
        PROVE  record'[d] = record[d] /\ claimed'[d] = claimed[d]
    BY <2>1 DEF Find
  <2>2. ASSUME NEW p \in Processes, NEW verb \in {"revoke", "rename"}, Manage(p, verb, e)
        PROVE  Copy(d)' = Copy(d)
    BY <1>5, <2>2 DEF Manage
  <2>3. ASSUME Ages(e) \/ HourPasses(e)
        PROVE  Copy(d) # Absent /\ Copy(d)'.renewals \in Nat /\ Copy(d).renewals <= Copy(d)'.renewals
    <3>1. /\ record[e] \in Records /\ record'[e].renewals = record[e].renewals
          /\ record'[e] \in Records /\ claimed' = claimed
          /\ \A f \in Devices \ {e} : record'[f] = record[f]
      BY <2>3, TimeRenewals
    <3>2. CASE d # e
      BY <1>2, <3>1, <3>2
    <3>3. CASE d = e
      <4>1. Copy(d) = record[d] /\ Copy(d)' = record'[d]
        BY <3>1, <3>3, AbsentIsNoRecord DEF Copy, InPlace
      <4>. QED
        BY <1>0, <3>1, <3>3, <4>1, AbsentIsNoRecord
    <3>. QED
      BY <3>2, <3>3
  <2>. QED
    BY <1>1, <1>2, <1>7, <2>1, <2>2, <2>3 DEF DeviceStep
<1>. QED
  BY <1>3, <1>4, <1>6, <1>7 DEF StoreNext

LEMMA StoredStays ==
  ASSUME IInv, [StoreNext]_store
  PROVE  Stored(born, Copies) \subseteq Stored(born', Copies')
<1> SUFFICES ASSUME NEW t \in Stored(born, Copies), t # NoToken
             PROVE  t \in Stored(born', Copies')
  BY NoTokenStored
<1>1. t[1] \in Devices /\ t[2] \in 0..MaxRenewals /\ t = Token(t[1], t[2])
  BY TokenParts DEF Stored
<1>2. /\ t[1] <= born /\ (Copy(t[1]) # Absent => t[2] <= Copy(t[1]).renewals)
      /\ born \in Nat /\ t[1] \in Nat /\ t[2] \in Nat
  BY <1>1, DeviceAssumption DEF Stored, Known, Copies, IInv, StoreTypeOK, Devices
<1>3. born' = born \/ born' = born + 1
  BY DEF StoreNext, store, PairingStep, ProcessStep, DeviceStep, CreatePairingToken, PairingExpires,
         ReserveSlotAndExchange, ExchangeCut, Claim, ClaimLost, WriteBack, Crash, Find, Manage,
         Ages, HourPasses
<1>4. Copy(t[1])' # Absent => t[2] <= Copy(t[1])'.renewals
  <2> SUFFICES ASSUME Copy(t[1])' # Absent PROVE t[2] <= Copy(t[1])'.renewals
    OBVIOUS
  <2>1. /\ Copy(t[1]) # Absent /\ Copy(t[1])'.renewals \in Nat
        /\ Copy(t[1]).renewals <= Copy(t[1])'.renewals
    BY <1>1, <1>2, Renewals
  <2>2. Copy(t[1]).renewals \in Nat
    BY <1>1, <2>1, DeviceAssumption DEF IInv, StoreTypeOK, Copy, InPlace, Records
  <2> QED
    BY <1>2, <2>1, <2>2
<1>5. Copies'[t[1]] = Copy(t[1])'
  BY <1>1 DEF Copies
<1>6. t[1] <= born'
  BY <1>2, <1>3
<1> HIDE DEF Copies
<1>7. Token(t[1], t[2]) \in Stored(born', Copies')
  BY <1>1, <1>4, <1>5, <1>6, TokenIsKnown
<1> QED
  BY <1>1, <1>7

LEMMA ShapeGrows ==
  ASSUME NEW S, NEW T, S \subseteq T, PhoneShape(S)
  PROVE  PhoneShape(T)
<1>1. post \in Seq(T)
  BY SeqMonotonic DEF PhoneShape
<1> QED
  BY <1>1 DEF PhoneShape

-----------------------------------------------------------------------------
(* What a step puts where tokens are kept.                                    *)

Wire(S) == [at : {"none", "sent", "answered"}, token : S, ok : BOOLEAN]
Worker(S) == [memory : S, saved : S, timed : BOOLEAN, renewing : BOOLEAN]

LEMMA WireSet ==
  ASSUME NEW S, wire \in [Kinds -> Wire(S)], NEW k \in Kinds, NEW m \in Wire(S),
         wire' = [wire EXCEPT ![k] = m]
  PROVE  wire' \in [Kinds -> Wire(S)]
  OBVIOUS

LEMMA SilentWire == ASSUME NEW S, NoToken \in S PROVE Silent \in Wire(S)
  BY DEF Silent, Wire
LEMMA SentWire ==
  ASSUME NEW S, NEW t \in S
  PROVE  [at |-> "sent", token |-> t, ok |-> FALSE] \in Wire(S)
  BY DEF Wire
LEMMA AnsweredWire ==
  ASSUME NEW S, NEW t \in S, NEW ok \in BOOLEAN
  PROVE  [at |-> "answered", token |-> t, ok |-> ok] \in Wire(S)
  BY DEF Wire

\* Only requests change.
LEMMA WireOnly ==
  ASSUME NEW S, PhoneShape(S), wire' \in [Kinds -> Wire(S)],
         serving' \in {"none", "page", "exec", "renew"}, UNCHANGED phone
  PROVE  PhoneShape(S)'
  BY DEF PhoneShape, phone, Wire

LEMMA PhoneAnswers ==
  ASSUME NEW S, PhoneShape(S), NEW k \in Kinds, NEW t \in S, NEW ok \in BOOLEAN,
         Answer(k, t, ok)
  PROVE  wire' \in [Kinds -> Wire(S)]
<1>1. wire \in [Kinds -> Wire(S)]
  BY DEF PhoneShape, Wire
<1> QED
  BY <1>1, AnsweredWire, WireSet DEF Answer

LEMMA WireToken ==
  ASSUME NEW S, PhoneShape(S), NEW k \in Kinds
  PROVE  wire[k].token \in S /\ wire[k].ok \in BOOLEAN
  BY DEF PhoneShape

LEMMA PhoneRefuses ==
  ASSUME NEW S, PhoneShape(S), NEW k \in Kinds, Refuse(k)
  PROVE  wire' \in [Kinds -> Wire(S)]
  BY WireToken, PhoneAnswers DEF Refuse

LEMMA ServerShape ==
  ASSUME NEW S, PhoneShape(S),
         \/ \E k \in {"page", "exec", "renew"} : Unauthorized(k) \/ Accept(k)
         \/ \E k \in {"page", "exec"} : Serve(k)
         \/ ServeRenew \/ ServerClaims \/ ServerKilled \/ Desk
  PROVE  PhoneShape(S)'
<1>0. wire \in [Kinds -> Wire(S)] /\ serving \in {"none", "page", "exec", "renew"}
  BY DEF PhoneShape, Wire
<1>1. ASSUME NEW k \in {"page", "exec", "renew"}, Unauthorized(k)
      PROVE  PhoneShape(S)'
  <2>1. wire' \in [Kinds -> Wire(S)]
    BY <1>1, PhoneRefuses DEF Unauthorized, Kinds
  <2> QED
    BY <1>0, <1>1, <2>1, WireOnly DEF Unauthorized
<1>2. ASSUME NEW k \in {"page", "exec", "renew"}, Accept(k)
      PROVE  PhoneShape(S)'
  BY <1>0, <1>2, WireOnly DEF Accept
<1>3. ASSUME NEW k \in {"page", "exec"}, Serve(k)
      PROVE  PhoneShape(S)'
  <2>1. wire' \in [Kinds -> Wire(S)]
    BY <1>3, WireToken, PhoneAnswers DEF Serve, Kinds
  <2> QED
    BY <1>3, <2>1, WireOnly DEF Serve
<1>4. CASE ServeRenew
  <2>1. wire["renew"].token \in S
    BY WireToken DEF Kinds
  <2>2. /\ UNCHANGED phone /\ serving' \in {serving, "none"}
        /\ wire' = wire \/ Answer("renew", wire["renew"].token, TRUE) \/ Refuse("renew")
    BY <1>4 DEF ServeRenew
  <2>3. wire' \in [Kinds -> Wire(S)]
    BY <1>0, <2>1, <2>2, PhoneAnswers, PhoneRefuses DEF Kinds
  <2> QED
    BY <1>0, <2>2, <2>3, WireOnly
<1>5. CASE ServerClaims \/ Desk
  BY <1>0, <1>5, WireOnly DEF ServerClaims, Desk
<1>6. CASE ServerKilled
  <2>1. wire' \in [Kinds -> Wire(S)]
    <3>1. CASE serving = "none"
      BY <1>0, <1>6, <3>1 DEF ServerKilled
    <3>2. CASE serving # "none"
      <4>1. wire' = [wire EXCEPT ![serving] = [wire[serving] EXCEPT !.at = "answered"]]
        BY <1>0, <1>6, <3>2 DEF ServerKilled, Kinds
      <4>2. wire[serving] \in Wire(S) /\ serving \in Kinds
        BY <1>0, <3>2 DEF Kinds
      <4>3. [wire[serving] EXCEPT !.at = "answered"] \in Wire(S)
        BY <4>2 DEF Wire
      <4> QED
        BY <1>0, <4>1, <4>2, <4>3, WireSet
    <3> QED
      BY <3>1, <3>2
  <2> QED
    BY <1>6, <2>1, WireOnly DEF ServerKilled
<1> QED
  BY <1>1, <1>2, <1>3, <1>4, <1>5, <1>6

\* Every variable of the phone.
LEMMA ShapeOf ==
  ASSUME NEW S, serving' \in {"none", "page", "exec", "renew"}, wire' \in [Kinds -> Wire(S)],
         shelf' \in S, post' \in Seq(S), inbox' \in S, worker' \in Worker(S),
         page' \in {"none", "loading", "open"}
  PROVE  PhoneShape(S)'
  BY DEF PhoneShape, Wire, Worker

LEMMA ShapeParts ==
  ASSUME NEW S, PhoneShape(S)
  PROVE  /\ serving \in {"none", "page", "exec", "renew"} /\ wire \in [Kinds -> Wire(S)]
         /\ shelf \in S /\ post \in Seq(S) /\ inbox \in S /\ worker \in Worker(S)
         /\ page \in {"none", "loading", "open"}
         /\ \A k \in Kinds : wire[k].token \in S /\ wire[k].ok \in BOOLEAN
  BY DEF PhoneShape, Wire, Worker

LEMMA WorkerChanges ==
  ASSUME NEW S, NEW w \in Worker(S), NEW t \in S, NEW u \in S, NEW b \in BOOLEAN, NEW c \in BOOLEAN
  PROVE  /\ [w EXCEPT !.memory = t, !.timed = b] \in Worker(S)
         /\ [w EXCEPT !.memory = t, !.renewing = b] \in Worker(S)
         /\ [w EXCEPT !.renewing = b, !.timed = c, !.memory = t, !.saved = u] \in Worker(S)
         /\ [w EXCEPT !.memory = t, !.saved = u, !.timed = b] \in Worker(S)
         /\ [w EXCEPT !.memory = t, !.timed = b, !.renewing = c] \in Worker(S)
         /\ [w EXCEPT !.renewing = b] \in Worker(S)
         /\ w.memory \in S /\ w.saved \in S /\ w.timed \in BOOLEAN
  BY DEF Worker

LEMMA FetchShape ==
  ASSUME NEW S, NoToken \in S, PhoneShape(S), NEW k \in Kinds, k # "renew", Fetch(k)
  PROVE  wire' \in [Kinds -> Wire(S)] /\ worker' \in Worker(S)
<1> DEFINE m == [at |-> "sent", token |-> Held, ok |-> FALSE]
<1>0. wire \in [Kinds -> Wire(S)] /\ worker \in Worker(S)
  BY ShapeParts
<1>1. Held \in S
  BY <1>0, WorkerChanges DEF Held, Worker
<1>2. m \in Wire(S)
  BY <1>1, SentWire
<1>3. \/ /\ wire' = [wire EXCEPT ![k] = m]
         /\ worker' = [worker EXCEPT !.memory = Held, !.timed = TRUE]
      \/ /\ wire' = [[wire EXCEPT ![k] = m] EXCEPT !["renew"] = m]
         /\ worker' = [worker EXCEPT !.memory = Held, !.renewing = TRUE]
  BY DEF Fetch, Send
<1>4. worker' \in Worker(S)
  <2>1. /\ [worker EXCEPT !.memory = Held, !.timed = TRUE] \in Worker(S)
        /\ [worker EXCEPT !.memory = Held, !.renewing = TRUE] \in Worker(S)
    BY <1>0, <1>1 DEF Worker
  <2> HIDE DEF m
  <2> QED
    BY <1>3, <2>1
<1> HIDE DEF m
<1>5. wire' \in [Kinds -> Wire(S)]
  <2>1. [wire EXCEPT ![k] = m] \in [Kinds -> Wire(S)]
    BY <1>0, <1>2
  <2> QED
    BY <1>2, <1>3, <2>1
<1> QED
  BY <1>4, <1>5

LEMMA WorkerShape ==
  ASSUME NEW S, NoToken \in S, PhoneShape(S), WorkerStep \/ \E k \in Kinds : Lose(k)
  PROVE  PhoneShape(S)'
<1>0. /\ serving \in {"none", "page", "exec", "renew"} /\ wire \in [Kinds -> Wire(S)]
      /\ shelf \in S /\ post \in Seq(S) /\ inbox \in S /\ worker \in Worker(S)
      /\ page \in {"none", "loading", "open"}
      /\ \A k \in Kinds : wire[k].token \in S /\ wire[k].ok \in BOOLEAN
  BY ShapeParts
<1>1. ASSUME NEW k \in Kinds, wire' = [wire EXCEPT ![k] = Silent]
      PROVE  wire' \in [Kinds -> Wire(S)]
  BY <1>0, <1>1, SilentWire
<1>2. CASE RenewAnswered
  <2>1. wire' \in [Kinds -> Wire(S)]
    BY <1>1, <1>2 DEF RenewAnswered, Kinds
  <2>2. wire["renew"].token \in S /\ wire["renew"].ok \in BOOLEAN
    BY <1>0 DEF Kinds
  <2>3. inbox' \in S
    BY <1>0, <1>2, <2>2 DEF RenewAnswered
  <2>4. worker' \in Worker(S)
    <3>1. PICK t \in S, u \in S, c \in BOOLEAN :
             worker' = [worker EXCEPT !.renewing = FALSE, !.timed = c, !.memory = t, !.saved = u]
      <4>1. worker.memory \in S /\ worker.saved \in S /\ worker.timed \in BOOLEAN
        BY <1>0 DEF Worker
      <4>2. CASE wire["renew"].ok
        <5>1. worker' = [worker EXCEPT !.renewing = FALSE, !.timed = TRUE,
                                       !.memory = wire["renew"].token,
                                       !.saved = wire["renew"].token]
          BY <1>2, <4>2 DEF RenewAnswered
        <5> QED
          BY <2>2, <5>1
      <4>3. CASE ~wire["renew"].ok
        <5>1. worker' = [worker EXCEPT !.renewing = FALSE, !.timed = worker.timed,
                                       !.memory = worker.memory, !.saved = worker.saved]
          BY <1>2, <4>1, <4>3 DEF RenewAnswered
        <5> QED
          BY <4>1, <5>1
      <4> QED
        BY <4>2, <4>3
    <3> QED
      BY <1>0, <3>1, WorkerChanges
  <2> QED
    BY <1>0, <1>2, <2>1, <2>3, <2>4, ShapeOf DEF RenewAnswered
<1>3. CASE WorkerMessage
  <2>1. Head(post) \in S /\ post' \in Seq(S)
    BY <1>0, <1>3, HeadTailProperties DEF WorkerMessage
  <2>2. worker' \in Worker(S)
    <3>1. PICK b \in BOOLEAN :
             worker' = [worker EXCEPT !.memory = Head(post), !.saved = Head(post), !.timed = b]
      BY <1>3 DEF WorkerMessage
    <3> QED
      BY <1>0, <2>1, <3>1, WorkerChanges
  <2> QED
    BY <1>0, <1>3, <2>1, <2>2, ShapeOf DEF WorkerMessage
<1>4. CASE WorkerStops
  <2>1. wire' \in [Kinds -> Wire(S)]
    BY <1>1, <1>4 DEF WorkerStops, Kinds
  <2>2. worker' \in Worker(S)
    <3>1. worker' = [worker EXCEPT !.memory = NoToken, !.timed = FALSE, !.renewing = FALSE]
      BY <1>4 DEF WorkerStops
    <3> QED
      BY <1>0, <3>1, WorkerChanges
  <2> QED
    BY <1>0, <1>4, <2>1, <2>2, ShapeOf DEF WorkerStops
<1>5. ASSUME NEW k \in Kinds, Lose(k)
      PROVE  PhoneShape(S)'
  <2>1. wire' \in [Kinds -> Wire(S)]
    BY <1>1, <1>5 DEF Lose
  <2>2. worker' \in Worker(S)
    BY <1>0, <1>5, WorkerChanges DEF Lose
  <2> QED
    <3>1. UNCHANGED <<serving, shelf, post, inbox, page>>
      BY <1>5 DEF Lose
    <3> QED
      BY <1>0, <2>1, <2>2, <3>1, ShapeOf
<1> QED
  BY <1>2, <1>3, <1>4, <1>5 DEF WorkerStep

LEMMA PageShape ==
  ASSUME NEW S, NoToken \in S, PhoneShape(S), PageStep
  PROVE  PhoneShape(S)'
<1>0. /\ serving \in {"none", "page", "exec", "renew"} /\ wire \in [Kinds -> Wire(S)]
      /\ shelf \in S /\ post \in Seq(S) /\ inbox \in S /\ worker \in Worker(S)
      /\ page \in {"none", "loading", "open"}
      /\ \A k \in Kinds : wire[k].token \in S /\ wire[k].ok \in BOOLEAN
  BY ShapeParts
<1>1. ASSUME NEW k \in Kinds, wire' = [wire EXCEPT ![k] = Silent]
      PROVE  wire' \in [Kinds -> Wire(S)]
  BY <1>0, <1>1, SilentWire
<1>2. \A t \in S : Append(post, t) \in Seq(S)
  BY <1>0, AppendProperties
<1>3. CASE StartExchange
  <2>1. wire' \in [Kinds -> Wire(S)]
    BY <1>0, <1>3, SentWire DEF StartExchange, Send, Kinds
  <2> QED
    BY <1>0, <1>3, <2>1, ShapeOf DEF StartExchange
<1>4. CASE ExchangeAnswered
  <2>1. wire' \in [Kinds -> Wire(S)] /\ wire["exchange"].token \in S
    BY <1>0, <1>1, <1>4 DEF ExchangeAnswered, Kinds
  <2>2. shelf' \in S /\ post' \in Seq(S)
    BY <1>0, <1>2, <1>4, <2>1 DEF ExchangeAnswered
  <2> QED
    BY <1>0, <1>4, <2>1, <2>2, ShapeOf DEF ExchangeAnswered
<1>5. CASE Navigate
  <2>1. wire' \in [Kinds -> Wire(S)] /\ worker' \in Worker(S)
    BY <1>5, FetchShape DEF Navigate, Kinds
  <2> QED
    BY <1>0, <1>5, <2>1, ShapeOf DEF Navigate
<1>6. CASE PageAnswered
  <2>1. wire' \in [Kinds -> Wire(S)]
    BY <1>1, <1>6 DEF PageAnswered, Kinds
  <2> QED
    BY <1>0, <1>6, <2>1, ShapeOf DEF PageAnswered
<1>7. CASE ClosePage
  BY <1>0, <1>7, ShapeOf DEF ClosePage
<1>8. CASE Arm
  <2>1. post' \in Seq(S)
    BY <1>0, <1>2, <1>8 DEF Arm
  <2> QED
    BY <1>0, <1>8, <2>1, ShapeOf DEF Arm
<1>9. CASE PageMessage
  BY <1>0, <1>9, ShapeOf DEF PageMessage
<1>10. CASE Approve
  <2>1. wire' \in [Kinds -> Wire(S)] /\ worker' \in Worker(S)
    BY <1>10, FetchShape DEF Approve, Kinds
  <2> QED
    BY <1>0, <1>10, <2>1, ShapeOf DEF Approve
<1>11. CASE ApproveAnswered
  <2>1. wire' \in [Kinds -> Wire(S)]
    BY <1>1, <1>11 DEF ApproveAnswered, Kinds
  <2>2. /\ shelf' \in S /\ post' \in Seq(S) /\ inbox' \in S
        /\ page' \in {"none", "loading", "open"}
    BY <1>0, <1>2, <1>11 DEF ApproveAnswered
  <2> QED
    BY <1>0, <1>11, <2>1, <2>2, ShapeOf DEF ApproveAnswered
<1> QED
  BY <1>3, <1>4, <1>5, <1>6, <1>7, <1>8, <1>9, <1>10, <1>11 DEF PageStep

-----------------------------------------------------------------------------
(* The tokens that are new.                                                   *)

LEMMA ExchangedShape ==
  ASSUME NEW S, IInv, S = Stored(born', Copies'), PhoneShape(S), NEW p \in Pairings, Exchanged(p)
  PROVE  PhoneShape(S)'
<1>0. /\ "exchange" \in Kinds /\ UNCHANGED <<serving, phone>>
      /\ serving \in {"none", "page", "exec", "renew"}
  BY ShapeParts DEF Exchanged, Kinds
<1>1. CASE ReserveSlotAndExchange(p) /\ Answer("exchange", Token(born + 1, 0), TRUE)
  <2>1. /\ born + 1 \in Devices /\ born' = born + 1 /\ 0 \in 0..MaxRenewals
        /\ record'[born + 1] = NewRecord
    BY <1>1, DeviceAssumption DEF ReserveSlotAndExchange, IInv, StoreTypeOK, Devices
  <2>2. Copies'[born + 1] = NewRecord
    BY <2>1 DEF Copies, Copy, InPlace, NewRecord, Absent
  <2>3. NewRecord.renewals = 0
    BY DEF NewRecord
  <2> HIDE DEF Copies
  <2>4. Token(born + 1, 0) \in Stored(born', Copies')
    BY <2>1, <2>2, <2>3, TokenIsKnown DEF Devices
  <2> QED
    BY <1>0, <1>1, <2>4, PhoneAnswers, WireOnly
<1>2. CASE Refuse("exchange")
  BY <1>0, <1>2, PhoneRefuses, WireOnly
<1> QED
  BY <1>1, <1>2 DEF Exchanged

LEMMA JobEndsShape ==
  ASSUME NEW S, IInv, S = Stored(born', Copies'), PhoneShape(S), ServerJobEnds
  PROVE  PhoneShape(S)'
<1> DEFINE j == job["server"]
<1>0. /\ "renew" \in Kinds /\ UNCHANGED phone /\ wire \in [Kinds -> Wire(S)]
      /\ serving \in {"none", "page", "exec", "renew"} /\ "server" \in Processes
  BY ShapeParts DEF ServerJobEnds, Kinds, Processes
<1>1. CASE UNCHANGED <<serving, wire>>
  BY <1>0, <1>1, WireOnly
<1>2. CASE serving' = "none" /\ Refuse("renew")
  BY <1>0, <1>2, PhoneRefuses, WireOnly
<1>3. CASE /\ j.verb = "renew" /\ serving' = "none" /\ Renewed(j)
           /\ Answer("renew", Token(j.device, j.renewals + 1), TRUE)
  <2>1. WriteBack("server") /\ Mutated(j, claimed[j.device]) # Absent /\ ~Free("server") /\ j.claim
    BY <1>3 DEF ServerJobEnds, Renewed, ClaimLost, WriteBack
  <2>2. /\ j.device \in Devices /\ claimed[j.device] \in Records /\ Restored("server") \in Records
        /\ Restored("server").renewals = j.renewals + 1
    BY <1>0, <1>3, <2>1, RestoredKeeps, RestoredRenews
  <2>3. j.renewals + 1 \in 0..MaxRenewals
    BY <2>2, DeviceAssumption DEF Records
  <2>4. Copies'[j.device] = Restored("server")
    <3>1. record'[j.device] = Restored("server")
      BY <2>1, <2>2 DEF WriteBack, IInv, StoreTypeOK
    <3> QED
      BY <2>2, <3>1, AbsentIsNoRecord DEF Copies, Copy, InPlace
  <2>5. j.device <= born /\ born' = born
    BY <2>1, <2>2, AbsentIsNoRecord, DeviceAssumption
       DEF WriteBack, IInv, StoreTypeOK, Unborn, Devices
  <2> HIDE DEF Copies, j
  <2>6. Token(j.device, j.renewals + 1) \in Stored(born', Copies')
    BY <2>2, <2>3, <2>4, <2>5, TokenIsKnown, DeviceAssumption
  <2> QED
    BY <1>0, <1>3, <2>6, PhoneAnswers, WireOnly
<1> QED
  BY <1>1, <1>2, <1>3 DEF ServerJobEnds

LEMMA ValidFound ==
  ASSUME PhoneInv, NEW k \in Kinds, TokenValid(wire[k].token), NEW verb \in {"renew", "touch"},
         Find(verb, wire[k].token[1], wire[k].token[2])
  PROVE  StoreNext
<1>1. wire[k].token \in Stored(born, Copies)
  BY WireToken DEF PhoneInv
<1>2. wire[k].token[1] \in Devices /\ wire[k].token[2] \in 0..MaxRenewals
  BY <1>1, TokenParts DEF Stored, TokenValid
<1> QED
  BY <1>2 DEF StoreNext, DeviceStep

\* To the store, a step of the phone is one of its own or none.
LEMMA PhoneStoreStep ==
  ASSUME PhoneInv, [PhoneNext]_phoneVars
  PROVE  [StoreNext]_store
<1>0. CASE UNCHANGED store
  BY <1>0
<1>1. CASE UNCHANGED phoneVars
  BY <1>1 DEF phoneVars, store
<1>2. ASSUME NEW p \in {"server", "cli"}, ProcessStep(p)
      PROVE  [StoreNext]_store
  BY <1>2 DEF StoreNext, Processes
<1>3. ASSUME NEW k \in {"page", "exec", "renew"}, Unauthorized(k) \/ Accept(k)
      PROVE  [StoreNext]_store
  <2>1. CASE UNCHANGED store
    BY <2>1
  <2>2. CASE TokenValid(wire[k].token) /\ Find("touch", wire[k].token[1], wire[k].token[2])
    BY <2>2, ValidFound DEF Kinds
  <2> QED
    BY <1>3, <2>1, <2>2 DEF Unauthorized, Accept
<1>4. CASE ServeRenew
  <2>1. CASE UNCHANGED store
    BY <2>1
  <2>2. CASE /\ TokenValid(wire["renew"].token)
             /\ Find("renew", wire["renew"].token[1], wire["renew"].token[2])
    BY <2>2, ValidFound DEF Kinds
  <2> QED
    BY <1>4, <2>1, <2>2 DEF ServeRenew
<1>5. CASE ServerClaims \/ ServerJobEnds \/ ServerKilled
  BY <1>2, <1>5 DEF ServerClaims, ServerJobEnds, ServerKilled, ProcessStep
<1>6. ASSUME NEW p \in Pairings, Exchanged(p)
      PROVE  [StoreNext]_store
  <2>1. CASE PairingStep(p)
    BY <2>1 DEF StoreNext
  <2> QED
    BY <1>6, <2>1 DEF Exchanged, PairingStep
<1>7. CASE Desk
  <2>1. ASSUME NEW p \in Pairings, CreatePairingToken(p) \/ PairingExpires(p)
        PROVE  StoreNext
    BY <2>1 DEF StoreNext, PairingStep
  <2>2. ASSUME NEW d \in Devices, NEW verb \in {"revoke", "rename"}, NEW p \in Processes,
               Manage(p, verb, d)
        PROVE  StoreNext
    BY <2>2 DEF StoreNext, DeviceStep
  <2>3. ASSUME NEW d \in Devices, Ages(d) \/ HourPasses(d)
        PROVE  StoreNext
    BY <2>3 DEF StoreNext, DeviceStep
  <2>4. CASE Claim("cli") \/ ClaimLost("cli") \/ WriteBack("cli") \/ Crash("cli")
    BY <1>2, <2>4 DEF ProcessStep
  <2> QED
    BY <1>7, <2>1, <2>2, <2>3, <2>4 DEF Desk, Processes
<1>8. CASE (\E k \in {"page", "exec"} : Serve(k)) \/ PageStep \/ WorkerStep \/ \E k \in Kinds : Lose(k)
  BY <1>8 DEF Serve, PageStep, WorkerStep, StartExchange, ExchangeAnswered, Navigate, PageAnswered,
              ClosePage, Arm, PageMessage, Approve, ApproveAnswered, RenewAnswered, WorkerMessage,
              WorkerStops, Lose
<1> QED
  BY <1>1, <1>3, <1>4, <1>5, <1>6, <1>7, <1>8 DEF PhoneNext, ServerStep

LEMMA InitPhone == PhoneInit => PhoneInv
<1> SUFFICES ASSUME PhoneInit PROVE PhoneInv
  OBVIOUS
<1>1. IInv
  BY InitInv DEF PhoneInit
<1>2. NoToken \in Stored(born, Copies)
  BY NoTokenStored
<1>3. Silent \in Wire(Stored(born, Copies))
  BY <1>2, SilentWire
<1>4. << >> \in Seq(Stored(born, Copies))
  OBVIOUS
<1>5. PhoneShape(Stored(born, Copies))
  <2> DEFINE S == Stored(born, Copies)
  <2>1. NoToken \in S /\ Silent \in Wire(S) /\ << >> \in Seq(S)
    BY <1>2, <1>3, <1>4
  <2> HIDE DEF S
  <2>2. PhoneShape(S)
    BY <2>1 DEF PhoneInit, PhoneStarts, PhoneShape, Wire
  <2> QED
    BY <2>2 DEF S
<1> QED
  BY <1>1, <1>5 DEF PhoneInv

LEMMA PhoneStep == PhoneInv /\ [PhoneNext]_phoneVars => PhoneInv'
<1> SUFFICES ASSUME PhoneInv, [PhoneNext]_phoneVars PROVE PhoneInv'
  OBVIOUS
<1>1. IInv /\ [StoreNext]_store
  BY PhoneStoreStep DEF PhoneInv
<1>2. IInv'
  BY <1>1, StepInv
<1>3. ASSUME NEW S, S = Stored(born', Copies')
      PROVE  PhoneShape(S)'
  <2>1. PhoneShape(S) /\ NoToken \in S
    BY <1>1, <1>3, StoredStays, ShapeGrows, NoTokenStored DEF PhoneInv
  <2>2. CASE UNCHANGED phoneVars
    BY <2>1, <2>2 DEF phoneVars, phone, PhoneShape
  <2>3. ASSUME NEW p \in Pairings, Exchanged(p)
        PROVE  PhoneShape(S)'
    BY <1>1, <1>3, <2>1, <2>3, ExchangedShape
  <2>4. CASE ServerJobEnds
    BY <1>1, <1>3, <2>1, <2>4, JobEndsShape
  <2>5. CASE WorkerStep \/ \E k \in Kinds : Lose(k)
    BY <2>1, <2>5, WorkerShape
  <2>6. CASE PageStep
    BY <2>1, <2>6, PageShape
  <2>7. CASE \/ \E k \in {"page", "exec", "renew"} : Unauthorized(k) \/ Accept(k)
             \/ \E k \in {"page", "exec"} : Serve(k)
             \/ ServeRenew \/ ServerClaims \/ ServerKilled \/ Desk
    BY <2>1, <2>7, ServerShape
  <2> QED
    BY <2>2, <2>3, <2>4, <2>5, <2>6, <2>7 DEF PhoneNext, ServerStep
<1> QED
  BY <1>2, <1>3 DEF PhoneInv

\* Whatever the phone, its service worker and the server do to a token while answers
\* are lost and the server is killed, the files change only as the store's own
\* operations change them: what is proved of the store holds with the phone.
THEOREM PhoneImplementsStore == PhoneSpec => StoreSpec
<1>1. PhoneInit => StoreInit
  BY DEF PhoneInit
<1>. QED
  BY <1>1, InitPhone, PhoneStep, PhoneStoreStep, PTL DEF PhoneSpec, StoreSpec

\* The phone holds no token that the store has not: wherever it keeps one, and in
\* every answer on its way, the token is of a paired device and at most as new as
\* its record, also when pair.sh revoked or renamed the device while a renewal was
\* under way and whatever was lost or killed (handleDeviceRenew and the service
\* worker); the records of the store are kept, because the phone implements it.
THEOREM TokensAreStoredHolds == PhoneSpec => []TokensAreStored
<1>1. PhoneInv /\ RecordsAreKept => TokensAreStored
  <2> SUFFICES ASSUME PhoneInv, RecordsAreKept PROVE TokensAreStored
    OBVIOUS
  <2>1. Stored(born, Copies) \subseteq Tokens
    BY DEF Stored
  <2>2. PhoneShape(Tokens)
    BY <2>1, ShapeGrows DEF PhoneInv
  <2>3. PhoneTypeOK
    BY <2>2 DEF PhoneShape, PhoneTypeOK, Wires, PhoneInv, IInv
  <2>4. \A t \in Stored(born, Copies) :
           t # NoToken => t[1] <= born /\ (Copy(t[1]) # Absent => t[2] <= Copy(t[1]).renewals)
    BY TokenParts DEF Stored, Known, Copies
  <2>5. \A t \in {shelf, inbox, worker.memory, worker.saved} \cup {wire[k].token : k \in Kinds}
                 \cup ToSet(post) : t \in Stored(born, Copies)
    <3> DEFINE S == Stored(born, Copies)
    <3>1. /\ shelf \in S /\ inbox \in S /\ worker \in Worker(S) /\ post \in Seq(S)
          /\ \A k \in Kinds : wire[k].token \in S
      BY ShapeParts DEF PhoneInv
    <3> HIDE DEF S
    <3>2. worker.memory \in S /\ worker.saved \in S
      BY <3>1 DEF Worker
    <3>3. \A i \in DOMAIN post : post[i] \in S
      BY <3>1
    <3>4. \A t \in {shelf, inbox, worker.memory, worker.saved} \cup {wire[k].token : k \in Kinds}
                   \cup ToSet(post) : t \in S
      BY <3>1, <3>2, <3>3 DEF ToSet
    <3> QED
      BY <3>4 DEF S
  <2> QED
    BY <2>3, <2>4, <2>5 DEF TokensAreStored
<1>2. PhoneSpec => []PhoneInv
  BY InitPhone, PhoneStep, PTL DEF PhoneSpec
<1>3. PhoneSpec => []RecordsAreKept
  BY PhoneImplementsStore, RecordsAreKeptHolds
<1> QED
  BY <1>1, <1>2, <1>3, PTL

------------------------------------------------------------------------------
(* The pages that write through /api/exec.                                      *)

(* What the variables are made of, and what the invariants say.                 *)

IsDisk(d) ==
    /\ d = [doc |-> d.doc, priority |-> d.priority, labels |-> d.labels, made |-> d.made,
            setting |-> d.setting]
    /\ d.priority \in {0, 1} /\ d.labels \in {0, 1}
IsEditor(e) ==
    e = [base |-> e.base, text |-> e.text, busy |-> e.busy, review |-> e.review,
         draft |-> e.draft, reload |-> e.reload, offline |-> e.offline]
Forms == [priority : {0, 1}, labels : {0, 1}, tasks : {<<>>, <<"set-labels">>},
          busy : BOOLEAN, saved : BOOLEAN]
Talks == [turn : Nat, lines : Nat, answers : Nat, busy : BOOLEAN]
IsJob(x) ==
    /\ x = [p |-> x.p, tab |-> x.tab, value |-> x.value, stage |-> x.stage,
            heard |-> x.heard]
    /\ x.heard \in BOOLEAN
TypesInv ==
    /\ IsDisk(disk) /\ form \in Forms /\ talk \in Talks
    /\ editor = [t \in Editors |-> editor[t]] /\ \A t \in Editors : IsEditor(editor[t])
    /\ jobs = [j \in Jobs |-> jobs[j]] /\ \A j \in Jobs : IsJob(jobs[j])

CardCommands == {"idle", "ticket_edit", "new_ticket", "ticket_lifecycle"}
SiteInv == \A j \in Jobs :
    /\ jobs[j].p.command = "ticket_edit" => site = "card"
    /\ site = "card" => jobs[j].p.command \in CardCommands
    /\ site = "interview" => jobs[j].p.command \in {"idle", "ai_draft"}

HeardApart ==
    site \in {"card", "interview"} =>
        \A i, j \in Jobs : jobs[i].heard /\ jobs[j].heard => i = j

TurnInv == site = "interview" =>
    /\ talk.turn \in 1..Interview_Max
    /\ \/ talk.answers = talk.turn - 1
       \/ talk.answers = talk.turn /\ talk.turn = Interview_Max /\ talk.busy
    /\ \A j \in Jobs : jobs[j].heard =>
           /\ talk.busy /\ talk.answers = talk.turn - 1
           /\ jobs[j].value = [turn |-> talk.turn, answers |-> talk.answers]

Sent(req) == 
    \/ /\ req.p.action = "set-priority"
       /\ req.stage = "worked" => disk.priority = 1
       /\ form.labels = 1 <=> form.tasks = <<"set-labels">>
    \/ /\ req.p.action = "set-labels"
       /\ form.priority = 1 => disk.priority = 1
       /\ req.stage = "worked" => disk.labels = 1
       /\ form.tasks = <<>>
CardInv == site = "card" =>
    /\ form.saved => form.busy
    /\ \A j \in Jobs : jobs[j].heard =>
           /\ form.busy /\ ~form.saved
           /\ jobs[j].p.command = "ticket_edit" => Sent(jobs[j])
PageInv == TypesInv /\ SiteInv /\ HeardApart /\ TurnInv /\ CardInv

-----------------------------------------------------------------------------
(* Requests and editors.                                                      *)

JobsTyped(js) == js = [j \in Jobs |-> js[j]] /\ \A j \in Jobs : IsJob(js[j])
Lessened ==
    /\ JobsTyped(jobs')
    /\ \A k \in Jobs :
           \/ jobs'[k] = jobs[k]
           \/ ~jobs'[k].heard /\ jobs'[k].p.command \in {jobs[k].p.command, "idle"}
TabsTyped(ts) == ts = [t \in Editors |-> ts[t]] /\ \A t \in Editors : IsEditor(ts[t])

LEMMA IdleIsJob == IsJob(NoRequest) /\ NoRequest.p.command = "idle" /\ NoRequest.heard = FALSE /\ NoRequest.stage = "idle"
  BY DEF IsJob, NoRequest
LEMMA RequestIsJob ==
    ASSUME NEW p, NEW t, NEW value
    PROVE  /\ IsJob(Posting(p, t, value))
           /\ Posting(p, t, value).p = p /\ Posting(p, t, value).value = value
           /\ Posting(p, t, value).stage = "posted" /\ Posting(p, t, value).heard = TRUE
  BY DEF IsJob, Posting
LEMMA StagedIsJob ==
    ASSUME NEW x, IsJob(x), NEW s, NEW y, y = [x EXCEPT !.stage = s]
    PROVE  IsJob(y) /\ y.p = x.p /\ y.tab = x.tab /\ y.value = x.value /\ y.heard = x.heard
             /\ y.stage = s
  BY DEF IsJob
LEMMA UnheardIsJob ==
    ASSUME NEW x, IsJob(x), NEW y, y = [x EXCEPT !.heard = FALSE]
    PROVE  IsJob(y) /\ y.p = x.p /\ y.tab = x.tab /\ y.value = x.value /\ y.heard = FALSE
             /\ y.stage = x.stage
  BY DEF IsJob
LEMMA EditorChanged ==
    ASSUME NEW e, IsEditor(e), NEW v
    PROVE  /\ IsEditor([e EXCEPT !.text = v]) /\ [e EXCEPT !.text = v].reload = e.reload
           /\ IsEditor([e EXCEPT !.review = v]) /\ [e EXCEPT !.review = v].reload = e.reload
           /\ IsEditor([e EXCEPT !.busy = v]) /\ [e EXCEPT !.busy = v].reload = e.reload
           /\ IsEditor([e EXCEPT !.offline = v]) /\ [e EXCEPT !.offline = v].reload = e.reload
           /\ IsEditor([e EXCEPT !.draft = v]) /\ [e EXCEPT !.draft = v].reload = e.reload
           /\ IsEditor([e EXCEPT !.reload = v])
  BY DEF IsEditor

LEMMA OneJobChanged ==
    ASSUME JobsTyped(jobs), NEW j \in Jobs, NEW y, IsJob(y), jobs' = [jobs EXCEPT ![j] = y]
    PROVE  JobsTyped(jobs') /\ jobs'[j] = y /\ \A k \in Jobs \ {j} : jobs'[k] = jobs[k]
  BY DEF JobsTyped

LEMMA EndedLessens ==
    ASSUME TypesInv, NEW j \in Jobs, NEW outcome, jobs' = Ended(j, outcome)
    PROVE  Lessened /\ ~jobs'[j].heard /\ \A k \in Jobs \ {j} : jobs'[k] = jobs[k]
<1>. DEFINE y == IF outcome = "lost" /\ jobs[j].stage \in {"posted", "running"}
                 THEN [jobs[j] EXCEPT !.heard = FALSE] ELSE NoRequest
<1>1. JobsTyped(jobs) /\ IsJob(jobs[j])
  BY DEF TypesInv, JobsTyped
<1>2. jobs' = [jobs EXCEPT ![j] = y]
  BY <1>1 DEF Ended, JobsTyped
<1>3. IsJob(y) /\ ~y.heard /\ y.p.command \in {jobs[j].p.command, "idle"}
  BY <1>1, IdleIsJob, UnheardIsJob
<1>. HIDE DEF y
<1>4. JobsTyped(jobs') /\ jobs'[j] = y /\ \A k \in Jobs \ {j} : jobs'[k] = jobs[k]
  BY <1>1, <1>2, <1>3, OneJobChanged
<1>. QED
  BY <1>3, <1>4 DEF Lessened

LEMMA PostAdds ==
    ASSUME TypesInv, NEW p, NEW t, NEW value, Post(p, t, value)
    PROVE  /\ JobsTyped(jobs')
           /\ \E j \in Jobs :
                 /\ ~jobs[j].heard
                 /\ jobs'[j] = Posting(p, t, value)
                 /\ \A k \in Jobs \ {j} : jobs'[k] = jobs[k]
<1>1. PICK j \in Jobs : jobs[j] = NoRequest /\ jobs' = [jobs EXCEPT ![j] = Posting(p, t, value)]
  BY DEF Post
<1>2. JobsTyped(jobs) /\ IsJob(Posting(p, t, value))
  BY RequestIsJob DEF TypesInv, JobsTyped
<1>3. JobsTyped(jobs') /\ jobs'[j] = Posting(p, t, value)
        /\ \A k \in Jobs \ {j} : jobs'[k] = jobs[k]
  BY <1>1, <1>2, OneJobChanged
<1>. QED
  BY <1>1, <1>3, IdleIsJob

LEMMA LoadLessens ==
    ASSUME TypesInv, NEW t \in Editors, Load(t)
    PROVE  Lessened /\ TabsTyped(editor') /\ ~editor'[t].reload
             /\ \A u \in Editors \ {t} : editor'[u] = editor[u]
<1>1. /\ JobsTyped(jobs) /\ TabsTyped(editor)
      /\ \A k \in Jobs : IsJob(jobs[k])
  BY DEF TypesInv, JobsTyped, TabsTyped
<1>2. \A k \in Jobs :
         \/ jobs'[k] = jobs[k]
         \/ jobs'[k] = NoRequest
         \/ jobs'[k] = [jobs[k] EXCEPT !.heard = FALSE]
  BY DEF Load
<1>3. \A k \in Jobs : IsJob(jobs'[k])
         /\ \/ jobs'[k] = jobs[k]
            \/ ~jobs'[k].heard /\ jobs'[k].p.command \in {jobs[k].p.command, "idle"}
  <2>. TAKE k \in Jobs
  <2>1. CASE jobs'[k] = jobs[k]
    BY <2>1, <1>1
  <2>2. CASE jobs'[k] = NoRequest
    BY <2>2, IdleIsJob
  <2>3. CASE jobs'[k] = [jobs[k] EXCEPT !.heard = FALSE]
    BY <2>3, <1>1, UnheardIsJob
  <2>. QED
    BY <2>1, <2>2, <2>3, <1>2
<1>4. jobs' = [k \in Jobs |-> jobs'[k]]
  BY DEF Load
<1>5. IsEditor(Editor(disk.doc)) /\ Editor(disk.doc).reload = FALSE
  BY DEF IsEditor, Editor
<1>6. editor' = [editor EXCEPT ![t] = Editor(disk.doc)]
  BY DEF Load
<1>. QED
  BY <1>1, <1>3, <1>4, <1>5, <1>6 DEF Lessened, JobsTyped, TabsTyped

LEMMA SpawnStages ==
    ASSUME TypesInv, NEW j \in Jobs, Spawn(j)
    PROVE  /\ JobsTyped(jobs') /\ \A k \in Jobs \ {j} : jobs'[k] = jobs[k]
           /\ jobs'[j].p = jobs[j].p /\ jobs'[j].value = jobs[j].value
           /\ jobs'[j].heard = jobs[j].heard
           /\ jobs'[j].stage = "worked" => jobs[j].p.command = "run_loop"
<1>1. JobsTyped(jobs) /\ IsJob(jobs[j])
  BY DEF TypesInv, JobsTyped
<1>2. PICK s \in {"running", "worked"} :
         /\ s = "worked" => jobs[j].p.command = "run_loop"
         /\ jobs' = [jobs EXCEPT ![j].stage = s]
  BY DEF Spawn
<1>. DEFINE y == [jobs[j] EXCEPT !.stage = s]
<1>3. jobs' = [jobs EXCEPT ![j] = y]
  BY <1>1, <1>2 DEF JobsTyped
<1>4. IsJob(y) /\ y.p = jobs[j].p /\ y.value = jobs[j].value /\ y.heard = jobs[j].heard
        /\ y.stage = s
  BY <1>1, StagedIsJob
<1>. HIDE DEF y
<1>5. JobsTyped(jobs') /\ jobs'[j] = y /\ \A k \in Jobs \ {j} : jobs'[k] = jobs[k]
  BY <1>1, <1>3, <1>4, OneJobChanged
<1>. QED
  BY <1>2, <1>4, <1>5

LEMMA WorkStages ==
    ASSUME TypesInv, NEW j \in Jobs, ScriptWorks(j)
    PROVE  /\ JobsTyped(jobs') /\ \A k \in Jobs \ {j} : jobs'[k] = jobs[k]
           /\ \/ ~jobs'[j].heard /\ jobs'[j].p.command = "idle"
              \/ /\ jobs'[j].p = jobs[j].p /\ jobs'[j].value = jobs[j].value
                 /\ jobs'[j].heard /\ jobs[j].heard /\ jobs'[j].stage = "worked"
<1>. DEFINE y == IF jobs[j].heard THEN [jobs[j] EXCEPT !.stage = "worked"] ELSE NoRequest
<1>1. JobsTyped(jobs) /\ IsJob(jobs[j])
  BY DEF TypesInv, JobsTyped
<1>2. jobs' = [jobs EXCEPT ![j] = y]
  BY <1>1 DEF ScriptWorks, JobsTyped
<1>3. IsJob(y)
      /\ \/ ~y.heard /\ y.p.command = "idle"
         \/ /\ y.p = jobs[j].p /\ y.value = jobs[j].value
            /\ y.heard /\ jobs[j].heard /\ y.stage = "worked"
  BY <1>1, IdleIsJob, StagedIsJob
<1>. HIDE DEF y
<1>4. JobsTyped(jobs') /\ jobs'[j] = y /\ \A k \in Jobs \ {j} : jobs'[k] = jobs[k]
  BY <1>1, <1>2, <1>3, OneJobChanged
<1>. QED
  BY <1>3, <1>4

LEMMA EffectOnCard ==
    ASSUME NEW req, NEW d, IsDisk(d), NEW e, e = Effect(req, d)
    PROVE  /\ IsDisk(e)
           /\ e.priority \in {d.priority, 1} /\ e.labels \in {d.labels, 1}
           /\ req.p.command = "ticket_edit" /\ req.p.action = "set-priority" => e.priority = 1
           /\ req.p.command = "ticket_edit" /\ req.p.action = "set-labels" => e.labels = 1
<1>1. CASE req.p.command \in {"doc_edit", "spec_edit", "ticket_body"}
  <2>1. e = [d EXCEPT !.doc = req.value]
    BY <1>1 DEF Effect
  <2>. QED
    BY <1>1, <2>1 DEF IsDisk
<1>2. CASE req.p.command = "ticket_edit"
  <2>1. CASE req.p.action = "set-priority"
    <3>1. e = [d EXCEPT !.priority = 1]
      BY <1>2, <2>1 DEF Effect
    <3>. QED
      BY <1>2, <2>1, <3>1 DEF IsDisk
  <2>2. CASE req.p.action = "set-labels"
    <3>1. e = [d EXCEPT !.labels = 1]
      BY <1>2, <2>2 DEF Effect
    <3>. QED
      BY <1>2, <2>2, <3>1 DEF IsDisk
  <2>3. CASE req.p.action \notin {"set-priority", "set-labels"}
    <3>1. e = d
      BY <1>2, <2>3 DEF Effect
    <3>. QED
      BY <1>2, <2>3, <3>1
  <2>. QED
    BY <2>1, <2>2, <2>3
<1>3. CASE req.p.command = "new_ticket"
  <2>1. e = [d EXCEPT !.made = d.made + 1]
    BY <1>3 DEF Effect
  <2>. QED
    BY <1>3, <2>1 DEF IsDisk
<1>4. CASE req.p.command \in {"set_mode", "autopilot_grant", "rate_config"}
  <2>1. e = [d EXCEPT !.setting = req.value]
    BY <1>4 DEF Effect
  <2>. QED
    BY <1>4, <2>1 DEF IsDisk
<1>5. CASE req.p.command = "autopilot_revoke"
  <2>1. e = [d EXCEPT !.setting = 0]
    BY <1>5 DEF Effect
  <2>. QED
    BY <1>5, <2>1 DEF IsDisk
<1>6. CASE req.p.command \notin {"doc_edit", "spec_edit", "ticket_body", "ticket_edit",
              "new_ticket", "set_mode", "autopilot_grant", "rate_config", "autopilot_revoke"}
  <2>1. e = d
    BY <1>6 DEF Effect
  <2>. QED
    BY <1>6, <2>1
<1>. QED
  BY <1>1, <1>2, <1>3, <1>4, <1>5, <1>6

-----------------------------------------------------------------------------
(* Commands.                                                                  *)

LEMMA ButtonCommands ==
    ASSUME NEW p \in ButtonRequests
    PROVE  p.command \in {"run_loop", "approve", "session_ctl", "open_project_mc"}
  BY DEF ButtonRequests
LEMMA CaseCommands ==
    /\ \A text : HasEditor => SaveRequest(text).command \in {"doc_edit", "spec_edit", "ticket_body"}
    /\ HasEditor => DraftRequest.command = "ai_draft"
  BY DEF HasEditor, SaveRequest, DraftRequest

-----------------------------------------------------------------------------
(* Lists of tasks, and the interview.                                         *)

LEMMA PairOf ==
    ASSUME NEW a, NEW b
    PROVE  <<a>> \o <<b>> = <<a, b>>
<1>. DEFINE u == <<a>>
            v == <<b>>
            w == <<a, b>>
            S == {a, b}
<1>1. /\ u \in Seq(S) /\ Len(u) = 1 /\ u[1] = a
      /\ v \in Seq(S) /\ Len(v) = 1 /\ v[1] = b
      /\ w \in Seq(S) /\ Len(w) = 2 /\ w[1] = a /\ w[2] = b
  OBVIOUS
<1>. HIDE DEF u, v, w
<1>2. u \o v \in Seq(S) /\ Len(u \o v) = 2 /\ (u \o v)[1] = a /\ (u \o v)[2] = b
  BY <1>1
<1>3. u \o v = w
  BY <1>1, <1>2, SeqEqual
<1>. QED
  BY <1>3 DEF u, v, w

LEMMA Sequences1 ==
    ASSUME NEW a, NEW b
    PROVE  /\ <<a>> \o <<>> = <<a>> /\ <<>> \o <<a>> = <<a>> /\ <<>> \o <<>> = <<>>
           /\ <<a>> # <<>> /\ Head(<<a>>) = a /\ Tail(<<a>>) = <<>>
           /\ <<a, b>> # <<>> /\ Head(<<a, b>>) = a /\ Tail(<<a, b>>) = <<b>>
  OBVIOUS

LEMMA TaskLists ==
    ASSUME NEW f \in Forms
    PROVE  /\ f.priority = 0 /\ f.labels = 0 => Tasks(f) = <<>>
           /\ f.priority = 0 /\ f.labels = 1 => Tasks(f) = <<"set-labels">>
           /\ f.priority = 1 /\ f.labels = 0 => Tasks(f) = <<"set-priority">>
           /\ f.priority = 1 /\ f.labels = 1 => Tasks(f) = <<"set-priority", "set-labels">>
<1>. DEFINE first == IF f.priority # 0 THEN <<"set-priority">> ELSE <<>>
            second == IF f.labels # 0 THEN <<"set-labels">> ELSE <<>>
<1>1. Tasks(f) = first \o second
  BY DEF Tasks
<1>2. CASE f.priority = 0 /\ f.labels = 0
  <2>1. first = <<>> /\ second = <<>>
    BY <1>2
  <2>. QED
    BY <1>1, <1>2, <2>1, Sequences1
<1>3. CASE f.priority = 0 /\ f.labels = 1
  <2>1. first = <<>> /\ second = <<"set-labels">>
    BY <1>3
  <2>. QED
    BY <1>1, <1>3, <2>1, Sequences1
<1>4. CASE f.priority = 1 /\ f.labels = 0
  <2>1. first = <<"set-priority">> /\ second = <<>>
    BY <1>4
  <2>. QED
    BY <1>1, <1>4, <2>1, Sequences1
<1>5. CASE f.priority = 1 /\ f.labels = 1
  <2>1. first = <<"set-priority">> /\ second = <<"set-labels">>
    BY <1>5
  <2>. QED
    BY <1>1, <1>5, <2>1, PairOf
<1>. QED
  BY <1>2, <1>3, <1>4, <1>5

LEMMA TaskTails ==
    ASSUME NEW f \in Forms
    PROVE  /\ Tasks(f) # <<>> => Tail(Tasks(f)) \in {<<>>, <<"set-labels">>}
           /\ f.tasks # <<>> => Head(f.tasks) = "set-labels" /\ Tail(f.tasks) = <<>>
           /\ Tasks(f) # <<>> =>
                 \/ /\ Head(Tasks(f)) = "set-priority"
                    /\ f.labels = 1 <=> Tail(Tasks(f)) = <<"set-labels">>
                 \/ /\ Head(Tasks(f)) = "set-labels"
                    /\ f.priority = 0 /\ Tail(Tasks(f)) = <<>>
<1>1. f.priority \in {0, 1} /\ f.labels \in {0, 1} /\ f.tasks \in {<<>>, <<"set-labels">>}
  BY DEF Forms
<1>2. f.tasks # <<>> => Head(f.tasks) = "set-labels" /\ Tail(f.tasks) = <<>>
  BY <1>1, Sequences1
<1>3. CASE f.priority = 0 /\ f.labels = 0
  BY <1>2, <1>3, TaskLists
<1>4. CASE f.priority = 0 /\ f.labels = 1
  BY <1>2, <1>4, TaskLists, Sequences1
<1>5. CASE f.priority = 1 /\ f.labels = 0
  BY <1>2, <1>5, TaskLists, Sequences1
<1>6. CASE f.priority = 1 /\ f.labels = 1
  <2>1. Tasks(f) = <<"set-priority", "set-labels">>
    BY <1>6, TaskLists
  <2>2. Tail(Tasks(f)) = <<"set-labels">> /\ Head(Tasks(f)) = "set-priority"
    BY <2>1, Sequences1
  <2>. QED
    BY <1>2, <1>6, <2>2
<1>. QED
  BY <1>1, <1>3, <1>4, <1>5, <1>6

LEMMA TalkGivenBack ==
    ASSUME NEW t \in Talks, NEW u, u = [t EXCEPT !.busy = FALSE]
    PROVE  u \in Talks /\ u.turn = t.turn /\ u.answers = t.answers /\ u.busy = FALSE
  BY DEF Talks

LEMMA TalkAdvanced ==
    ASSUME NEW t \in Talks, NEW n \in Nat, NEW u, u = Advanced(t, n), Interview_Max \in Nat
    PROVE  /\ u \in Talks /\ u.answers = t.answers + 1
           /\ t.turn >= Interview_Max => u.turn = t.turn /\ u.busy = t.busy
           /\ t.turn < Interview_Max => u.turn = t.turn + 1 /\ u.busy = FALSE
<1>1. t.turn \in Nat /\ t.lines \in Nat /\ t.answers \in Nat
  BY DEF Talks
<1>2. PICK a \in Nat, l \in Nat, k \in Nat :
         /\ a = t.answers + 1 /\ k = t.turn + 1
         /\ l = t.lines + n
  BY <1>1
<1>3. CASE t.turn >= Interview_Max
  <2>1. u = [t EXCEPT !.answers = a, !.lines = l]
    BY <1>2, <1>3 DEF Advanced
  <2>2. u \in Talks
    BY Zenon, <2>1 DEF Talks
  <2>3. u.answers = a /\ u.turn = t.turn /\ u.busy = t.busy
    BY <2>1 DEF Talks
  <2>. QED
    BY <1>1, <1>2, <1>3, <2>2, <2>3
<1>4. CASE t.turn < Interview_Max
  <2>1. u = [t EXCEPT !.answers = a, !.lines = l, !.turn = k, !.busy = FALSE]
    BY <1>1, <1>2, <1>4 DEF Advanced
  <2>2. u \in Talks
    BY Zenon, <2>1 DEF Talks
  <2>3. u.answers = a /\ u.turn = k /\ u.busy = FALSE
    BY <2>1 DEF Talks
  <2>. QED
    BY <1>1, <1>2, <1>4, <2>2, <2>3
<1>5. t.turn >= Interview_Max \/ t.turn < Interview_Max
  BY <1>1
<1>. QED
  BY <1>3, <1>4, <1>5

LEMMA TalkBegins == NewTalk \in Talks /\ NewTalk.turn = 1 /\ NewTalk.answers = 0 /\ NewTalk.busy = FALSE
  BY DEF Talks, NewTalk

-----------------------------------------------------------------------------
(* Types, and what a click or an answer does to an editor.                    *)

LEMMA TypesSplit ==
    /\ TypesInv <=> /\ IsDisk(disk) /\ form \in Forms /\ talk \in Talks
                    /\ TabsTyped(editor) /\ JobsTyped(jobs)
    /\ TypesInv' <=> /\ IsDisk(disk') /\ form' \in Forms /\ talk' \in Talks
                     /\ TabsTyped(editor') /\ JobsTyped(jobs')
  BY DEF TypesInv, TabsTyped, JobsTyped

LEMMA OneTabChanged ==
    ASSUME TabsTyped(editor), NEW t, NEW e, IsEditor(e), editor' = [editor EXCEPT ![t] = e]
    PROVE  /\ TabsTyped(editor')
           /\ \A u \in Editors : editor'[u] = IF u = t THEN e ELSE editor[u]
  BY DEF TabsTyped

LEMMA InitTypes ==
    ASSUME PagesInit, Interview_Max \in Nat
    PROVE  TypesInv
<1>1. IsDisk(disk)
  BY DEF PagesInit, IsDisk
<1>2. form \in Forms /\ talk \in Talks
  BY TalkBegins DEF PagesInit, Forms
<1>3. TabsTyped(editor) /\ JobsTyped(jobs)
  BY IdleIsJob DEF PagesInit, TabsTyped, JobsTyped, IsEditor, Editor
<1>. QED
  BY <1>1, <1>2, <1>3, TypesSplit

\* A click on an editor's button disables it and posts one request.
LEMMA ClickEffect ==
    ASSUME TypesInv, NEW t \in Editors, NEW button, NEW p, NEW value, Press(t, button, p, value)
    PROVE  /\ TabsTyped(editor') /\ \A u \in Editors : editor'[u].reload = editor[u].reload
           /\ Post(p, t, value)
           /\ UNCHANGED <<site, disk, form, talk>>
<1>. DEFINE e == [editor[t] EXCEPT !.busy = editor[t].busy \cup {button}]
<1>1. TabsTyped(editor) /\ IsEditor(editor[t])
  BY TypesSplit DEF TabsTyped
<1>2. editor' = [editor EXCEPT ![t] = e]
  BY DEF Press
<1>3. IsEditor(e) /\ e.reload = editor[t].reload
  BY <1>1, EditorChanged
<1>. HIDE DEF e
<1>4. TabsTyped(editor') /\ \A u \in Editors : editor'[u] = IF u = t THEN e ELSE editor[u]
  BY ZenonT(30), <1>1, <1>2, <1>3, OneTabChanged
<1>. QED
  BY <1>3, <1>4 DEF Press

\* What a person does in an editor without a request.
LEMMA EditingEffect ==
    ASSUME TypesInv, NEW t \in Editors, Edit(t) \/ Review(t) \/ Offline(t)
    PROVE  /\ TabsTyped(editor') /\ \A u \in Editors : editor'[u].reload = editor[u].reload
           /\ UNCHANGED <<site, disk, form, talk, jobs>>
<1>1. TabsTyped(editor) /\ IsEditor(editor[t])
  BY TypesSplit DEF TabsTyped
<1>2. UNCHANGED <<site, disk, form, talk, jobs>>
  BY DEF Edit, Review, Offline
<1>3. PICK e : IsEditor(e) /\ e.reload = editor[t].reload /\ editor' = [editor EXCEPT ![t] = e]
  <2>1. CASE Edit(t)
    <3>1. PICK text : editor' = [editor EXCEPT ![t].text = text]
      BY <2>1 DEF Edit
    <3>. QED
      BY <1>1, <3>1, EditorChanged
  <2>2. CASE Review(t)
    <3>1. editor' = [editor EXCEPT ![t].review = <<editor[t].base, editor[t].text>>]
      BY <2>2 DEF Review
    <3>. QED
      BY <1>1, <3>1, EditorChanged
  <2>3. CASE Offline(t)
    <3>1. editor' = [editor EXCEPT ![t].offline = TRUE]
      BY <2>3 DEF Offline
    <3>. QED
      BY <1>1, <3>1, EditorChanged
  <2>. QED
    BY <2>1, <2>2, <2>3
<1>4. TabsTyped(editor') /\ \A u \in Editors : editor'[u] = IF u = t THEN e ELSE editor[u]
  BY ZenonT(30), <1>1, <1>3, OneTabChanged
<1>. QED
  BY <1>2, <1>3, <1>4

\* An answer that succeeded is one of a script that did its work.
LEMMA OkIsWorked ==
    ASSUME NEW j, NEW commands, NEW outcome, Hears(j, commands, outcome), outcome = "ok"
    PROVE  jobs[j].stage = "worked"
  BY DEF Hears, Outcomes, ExitCode

\* The answers to an editor: what they do to it.
LEMMA EditorAnswered ==
    ASSUME TypesInv, NEW j \in Jobs, SaveAnswered(j) \/ DraftAnswered(j)
    PROVE  /\ TabsTyped(editor')
           /\ \A u \in Editors : ~editor[u].reload /\ editor'[u].reload =>
                 jobs[j].tab = u /\ jobs[j].stage = "worked"
           /\ Lessened
           /\ UNCHANGED <<site, disk, form, talk>>
<1>1. TabsTyped(editor)
  BY TypesSplit
<1>2. CASE SaveAnswered(j)
  <2>1. PICK outcome \in Heard :
           /\ Hears(j, {"doc_edit", "spec_edit", "ticket_body"}, outcome)
           /\ jobs' = Ended(j, outcome)
           /\ editor' = IF outcome = "ok" THEN [editor EXCEPT ![jobs[j].tab].reload = TRUE]
                     ELSE [editor EXCEPT ![jobs[j].tab].busy = @ \ {"save"}]
    BY <1>2 DEF SaveAnswered
  <2>2. Lessened /\ UNCHANGED <<site, disk, form, talk>>
    BY <1>2, <2>1, EndedLessens DEF SaveAnswered
  <2>3. CASE jobs[j].tab \notin Editors
    <3>1. editor' = editor
      BY <1>1, <2>1, <2>3 DEF TabsTyped
    <3>. QED
      BY <1>1, <2>2, <3>1
  <2>4. CASE jobs[j].tab \in Editors
    <3>0. PICK t \in Editors : t = jobs[j].tab
      BY <2>4
    <3>. DEFINE e == IF outcome = "ok" THEN [editor[t] EXCEPT !.reload = TRUE]
                     ELSE [editor[t] EXCEPT !.busy = editor[t].busy \ {"save"}]
    <3>1. IsEditor(editor[t])
      BY <1>1 DEF TabsTyped
    <3>2. IsEditor(e) /\ (outcome # "ok" => e.reload = editor[t].reload)
      BY <3>1, EditorChanged
    <3>3. editor' = [editor EXCEPT ![t] = e]
      <4>1. CASE outcome = "ok"
        BY <1>1, <2>1, <3>0, <4>1 DEF TabsTyped
      <4>2. CASE outcome # "ok"
        BY <1>1, <2>1, <3>0, <4>2 DEF TabsTyped
      <4>. QED
        BY <4>1, <4>2
    <3>. HIDE DEF e
    <3>4. TabsTyped(editor') /\ \A u \in Editors : editor'[u] = IF u = t THEN e ELSE editor[u]
      BY ZenonT(30), <1>1, <3>2, <3>3, OneTabChanged
    <3>5. outcome = "ok" => jobs[j].stage = "worked"
      BY <2>1, OkIsWorked
    <3>. QED
      BY <2>2, <3>0, <3>2, <3>4, <3>5
  <2>. QED
    BY <2>3, <2>4
<1>3. CASE DraftAnswered(j)
  <2>1. PICK outcome \in Heard :
           /\ jobs' = Ended(j, outcome)
           /\ editor' = [editor EXCEPT ![jobs[j].tab].busy = @ \ {"draft"},
                                 ![jobs[j].tab].draft = Draft(outcome, jobs[j], @)]
    BY <1>3 DEF DraftAnswered
  <2>2. Lessened /\ UNCHANGED <<site, disk, form, talk>>
    BY <1>3, <2>1, EndedLessens DEF DraftAnswered
  <2>3. CASE jobs[j].tab \notin Editors
    <3>1. editor' = editor
      BY <1>1, <2>1, <2>3 DEF TabsTyped
    <3>. QED
      BY <1>1, <2>2, <3>1
  <2>4. CASE jobs[j].tab \in Editors
    <3>0. PICK t \in Editors : t = jobs[j].tab
      BY <2>4
    <3>. DEFINE c == [editor[t] EXCEPT !.busy = editor[t].busy \ {"draft"}]
                e == [c EXCEPT !.draft = Draft(outcome, jobs[j], editor[t].draft)]
    <3>1. IsEditor(editor[t])
      BY <1>1 DEF TabsTyped
    <3>2. IsEditor(c) /\ c.reload = editor[t].reload
      BY <3>1, EditorChanged
    <3>3. c.draft = editor[t].draft
      BY <3>1 DEF IsEditor
    <3>4. editor' = [editor EXCEPT ![t] = [c EXCEPT !.draft = Draft(outcome, jobs[j], c.draft)]]
      BY <1>1, <2>1, <3>0 DEF TabsTyped
    <3>5. editor' = [editor EXCEPT ![t] = e]
      BY <3>3, <3>4
    <3>. HIDE DEF c
    <3>6. IsEditor(e) /\ e.reload = editor[t].reload
      BY <3>2, EditorChanged
    <3>. HIDE DEF e
    <3>7. TabsTyped(editor') /\ \A u \in Editors : editor'[u] = IF u = t THEN e ELSE editor[u]
      BY ZenonT(30), <1>1, <3>6, <3>5, OneTabChanged
    <3>. QED
      BY <2>2, <3>6, <3>7
  <2>. QED
    BY <2>3, <2>4
<1>. QED
  BY <1>2, <1>3

-----------------------------------------------------------------------------
(* What a step does to the requests.                                          *)

Elsewhere == site \notin {"card", "interview"}
OthersKept(j) == \A k \in Jobs \ {j} : jobs'[k] = jobs[k]
Passive == Lessened /\ UNCHANGED <<disk, form, talk>>
Returned(j) == jobs[j].heard /\ ~jobs'[j].heard /\ OthersKept(j) /\ UNCHANGED disk
FormReturned ==
    site = "card" /\ form.busy /\ ~form.saved => (form'.saved => form'.busy)
MetaGoesOn(j) ==
    /\ jobs[j].heard /\ jobs[j].p.command = "ticket_edit" /\ jobs[j].stage = "worked"
    /\ form.tasks # <<>>
    /\ jobs'[j] = Posting(TicketEdit(Head(form.tasks)), Nothing, 1)
    /\ form' = [form EXCEPT !.tasks = Tail(form.tasks)]
    /\ OthersKept(j) /\ UNCHANGED <<disk, talk>>
Posted(p, value) ==
    \E j \in Jobs : jobs'[j] = Posting(p, Nothing, value) /\ ~jobs[j].heard /\ OthersKept(j)
MetaPosted ==
    /\ ~form.busy /\ Tasks(form) # <<>>
    /\ Posted(TicketEdit(Head(Tasks(form))), 1)
    /\ form' = [form EXCEPT !.tasks = Tail(Tasks(form)), !.busy = TRUE]
    /\ UNCHANGED <<disk, talk>>
FormPosted ==
    /\ ~form.busy
    /\ \E p : p.command \in {"new_ticket", "ticket_lifecycle"} /\ Posted(p, 1)
    /\ form' = [form EXCEPT !.busy = TRUE]
    /\ UNCHANGED <<disk, talk>>
TurnPosted ==
    /\ ~talk.busy
    /\ \E p : p.command = "ai_draft"
              /\ Posted(p, [turn |-> talk.turn, answers |-> talk.answers])
    /\ talk' = [talk EXCEPT !.busy = TRUE, !.lines = talk.lines + 1]
    /\ UNCHANGED <<disk, form>>

\* What a step does to the requests, and to what the invariants compare them with.
StepKinds ==
    \/ Elsewhere
    \/ Passive
    \/ \E j \in Jobs : Returned(j) /\ talk' = talk /\ FormReturned
    \/ \E j \in Jobs : Returned(j) /\ TurnAnswered(j) /\ form' = form
    \/ site = "card" /\ \E j \in Jobs : MetaGoesOn(j)
    \/ site = "card" /\ (MetaPosted \/ FormPosted \/ Fill)
    \/ PageReloads
    \/ site = "interview" /\ (TurnPosted \/ RestartTalk)
    \/ \E j \in Jobs : Spawn(j) \/ ScriptWorks(j)

LEMMA PostedTypes ==
    ASSUME TypesInv, SiteInv, NEW p, NEW t, NEW value, Post(p, t, value), site' = site,
           p.command = "ticket_edit" => site = "card",
           site = "card" => p.command \in CardCommands,
           site = "interview" => p.command \in {"idle", "ai_draft"}
    PROVE  JobsTyped(jobs') /\ SiteInv'
<1>1. JobsTyped(jobs')
  BY PostAdds
<1>2. PICK j \in Jobs : jobs'[j] = Posting(p, t, value) /\ OthersKept(j)
  BY PostAdds DEF OthersKept
<1>3. jobs'[j].p = p
  BY <1>2 DEF Posting
<1>4. ASSUME NEW k \in Jobs
      PROVE  /\ jobs'[k].p.command = "ticket_edit" => site = "card"
             /\ site = "card" => jobs'[k].p.command \in CardCommands
             /\ site = "interview" => jobs'[k].p.command \in {"idle", "ai_draft"}
  <2>1. CASE k = j
    BY <1>3, <2>1
  <2>2. CASE k # j
    BY <1>2, <2>2 DEF SiteInv, OthersKept
  <2>. QED
    BY <2>1, <2>2
<1>. QED
  BY <1>1, <1>4 DEF SiteInv

LEMMA LessenedSites ==
    ASSUME TypesInv, SiteInv, Lessened, site' = site
    PROVE  JobsTyped(jobs') /\ SiteInv'
<1>1. JobsTyped(jobs')
  BY DEF Lessened
<1>2. ASSUME NEW k \in Jobs
      PROVE  /\ jobs'[k].p.command = "ticket_edit" => site = "card"
             /\ site = "card" => jobs'[k].p.command \in CardCommands
             /\ site = "interview" => jobs'[k].p.command \in {"idle", "ai_draft"}
  BY DEF Lessened, SiteInv, CardCommands
<1>. QED
  BY <1>1, <1>2 DEF SiteInv

LEMMA TabSteps ==
    ASSUME TypesInv, SiteInv, NEW t \in Editors,
           \/ Edit(t) \/ Review(t) \/ ClickSave(t) \/ ClickDraft(t)
           \/ ReloadEditor(t) \/ Offline(t) \/ Online(t)
    PROVE  TypesInv' /\ SiteInv' /\ StepKinds /\ site' = site
<1>1. CASE Edit(t) \/ Review(t) \/ Offline(t)
  <2>1. TabsTyped(editor') /\ UNCHANGED <<site, disk, form, talk, jobs>>
    BY <1>1, EditingEffect
  <2>2. JobsTyped(jobs') /\ Lessened
    BY <2>1, TypesSplit DEF Lessened
  <2>. QED
    BY <2>1, <2>2, TypesSplit, LessenedSites DEF StepKinds, Passive
<1>2. CASE ReloadEditor(t) \/ Online(t)
  <2>1. Lessened /\ TabsTyped(editor') /\ UNCHANGED <<site, disk, form, talk>>
    BY <1>2, LoadLessens DEF ReloadEditor, Online, Load
  <2>. QED
    BY <2>1, TypesSplit, LessenedSites DEF StepKinds, Passive
<1>3. CASE ClickSave(t) \/ ClickDraft(t)
  <2>1. PICK p, button, value :
           /\ HasEditor
           /\ p.command \in {"doc_edit", "spec_edit", "ticket_body", "ai_draft"}
           /\ Press(t, button, p, value)
    BY <1>3, CaseCommands DEF ClickSave, ClickDraft
  <2>2. TabsTyped(editor') /\ Post(p, t, value) /\ UNCHANGED <<site, disk, form, talk>>
    BY <2>1, ClickEffect
  <2>3. site \notin {"card", "interview"}
    BY <2>1 DEF HasEditor
  <2>4. JobsTyped(jobs') /\ SiteInv'
    BY <2>1, <2>2, <2>3, PostedTypes
  <2>. QED
    BY <2>2, <2>3, <2>4, TypesSplit DEF StepKinds, Elsewhere
<1>. QED
  BY <1>1, <1>2, <1>3

LEMMA FormEffects ==
    ASSUME NEW f \in Forms
    PROVE  /\ [f EXCEPT !.busy = TRUE] \in Forms
           /\ [f EXCEPT !.busy = FALSE] \in Forms
           /\ [f EXCEPT !.saved = TRUE] \in Forms
           /\ \A b \in BOOLEAN : [f EXCEPT !.busy = FALSE, !.saved = b] \in Forms
           /\ [f EXCEPT !.tasks = <<>>, !.busy = FALSE] \in Forms
           /\ \A l \in {<<>>, <<"set-labels">>} :
                 [f EXCEPT !.tasks = l, !.busy = TRUE] \in Forms
           /\ [f EXCEPT !.tasks = <<>>] \in Forms
           /\ [f EXCEPT !.priority = 0, !.labels = 0, !.busy = FALSE, !.saved = FALSE] \in Forms
  BY DEF Forms

LEMMA CardSteps ==
    ASSUME TypesInv, SiteInv,
           Fill \/ ClickMeta \/ ClickCreate \/ ClickLifecycle \/ PageReloads
    PROVE  TypesInv' /\ SiteInv' /\ StepKinds /\ site' = site
<1>1. form \in Forms /\ IsDisk(disk) /\ JobsTyped(jobs)
  BY TypesSplit
<1>2. CASE Fill
  <2>1. UNCHANGED <<site, disk, editor, talk, jobs>> /\ site = "card" /\ form' \in Forms
    BY <1>2 DEF Fill, Forms
  <2>. QED
    BY <1>1, <1>2, <2>1, TypesSplit DEF StepKinds, SiteInv
<1>3. CASE PageReloads
  <2>1. UNCHANGED <<site, editor, talk, jobs>> /\ form' \in Forms
    BY <1>1, <1>3, FormEffects DEF PageReloads
  <2>2. IsDisk(disk')
    BY <1>1, <1>3 DEF PageReloads, IsDisk
  <2>3. SiteInv'
    BY <2>1 DEF SiteInv
  <2>4. StepKinds
    BY <1>3 DEF StepKinds
  <2>. QED
    BY <2>1, <2>2, <2>3, <2>4, TypesSplit
<1>4. CASE ClickMeta
  <2>1. /\ site = "card" /\ ~form.busy /\ Tasks(form) # <<>>
        /\ Post(TicketEdit(Head(Tasks(form))), Nothing, 1)
        /\ form' = [form EXCEPT !.tasks = Tail(Tasks(form)), !.busy = TRUE]
        /\ UNCHANGED <<site, disk, editor, talk>>
    BY <1>4 DEF ClickMeta
  <2>2. form' \in Forms
    BY <1>1, <2>1, FormEffects, TaskTails
  <2>3. TicketEdit(Head(Tasks(form))).command = "ticket_edit"
    BY DEF TicketEdit
  <2>4. JobsTyped(jobs') /\ SiteInv'
    BY <2>1, <2>3, PostedTypes DEF CardCommands
  <2>5. StepKinds
    BY <2>1, PostAdds DEF StepKinds, MetaPosted, Posted, OthersKept
  <2>. QED
    BY <2>1, <2>2, <2>4, <2>5, TypesSplit
<1>5. CASE ClickCreate \/ ClickLifecycle
  <2>1. PICK p :
           /\ site = "card" /\ ~form.busy
           /\ p.command \in {"new_ticket", "ticket_lifecycle"}
           /\ Post(p, Nothing, 1)
           /\ form' = [form EXCEPT !.busy = TRUE]
           /\ UNCHANGED <<site, disk, editor, talk>>
    BY <1>5 DEF ClickCreate, ClickLifecycle
  <2>2. form' \in Forms
    BY <1>1, <2>1, FormEffects
  <2>4. JobsTyped(jobs') /\ SiteInv'
    BY <2>1, PostedTypes DEF CardCommands
  <2>5. StepKinds
    BY <2>1, PostAdds DEF StepKinds, FormPosted, Posted, OthersKept
  <2>. QED
    BY <2>1, <2>2, <2>4, <2>5, TypesSplit
<1>. QED
  BY <1>2, <1>3, <1>4, <1>5

LEMMA SettingsSteps ==
    ASSUME TypesInv, SiteInv, ClickRates \/ ClickButton \/ ClickPreview \/ ClickSwitch
    PROVE  TypesInv' /\ SiteInv' /\ StepKinds /\ site' = site
<1>1. form \in Forms
  BY TypesSplit
<1>2. PICK p, value :
         /\ site \in {"settings", "buttons"}
         /\ p.command \notin {"ticket_edit"}
         /\ Post(p, Nothing, value)
         /\ form' \in {form, [form EXCEPT !.busy = TRUE]}
         /\ UNCHANGED <<site, disk, editor, talk>>
  <2>1. CASE ClickRates
    BY <2>1 DEF ClickRates
  <2>2. CASE ClickPreview
    BY <2>2 DEF ClickPreview
  <2>3. CASE ClickSwitch
    <3>1. PICK p \in {[command |-> "set_mode", mode |-> "ok"],
                  [command |-> "autopilot_grant", budget |-> "ok", expiryMin |-> "ok"],
                  [command |-> "autopilot_revoke"]} : Post(p, Nothing, 1)
      BY <2>3 DEF ClickSwitch
    <3>2. p.command # "ticket_edit"
      BY <3>1
    <3>. QED
      BY <2>3, <3>1, <3>2 DEF ClickSwitch
  <2>4. CASE ClickButton
    <3>1. PICK p \in ButtonRequests : Post(p, Nothing, 1)
      BY <2>4 DEF ClickButton
    <3>. QED
      BY <2>4, <3>1, ButtonCommands DEF ClickButton
  <2>. QED
    BY <2>1, <2>2, <2>3, <2>4
<1>3. form' \in Forms
  BY <1>1, <1>2, FormEffects
<1>4. JobsTyped(jobs') /\ SiteInv'
  BY <1>2, PostedTypes
<1>. QED
  BY <1>2, <1>3, <1>4, TypesSplit DEF StepKinds, Elsewhere

LEMMA InterviewSteps ==
    ASSUME TypesInv, SiteInv, SendTurn \/ RestartTalk
    PROVE  TypesInv' /\ SiteInv' /\ StepKinds /\ site' = site
<1>1. talk \in Talks /\ JobsTyped(jobs)
  BY TypesSplit
<1>2. CASE SendTurn
  <2>1. PICK p :
           /\ site = "interview" /\ ~talk.busy
           /\ p.command = "ai_draft"
           /\ Post(p, Nothing, [turn |-> talk.turn, answers |-> talk.answers])
           /\ talk' = [talk EXCEPT !.busy = TRUE, !.lines = talk.lines + 1]
           /\ UNCHANGED <<site, disk, editor, form>>
    BY <1>2 DEF SendTurn
  <2>2. PICK n \in Nat : n = talk.lines + 1
    BY <1>1 DEF Talks
  <2>3. talk' \in Talks
    <3>1. talk' = [talk EXCEPT !.busy = TRUE, !.lines = n]
      BY <2>1, <2>2
    <3>. QED
      BY Zenon, <1>1, <3>1 DEF Talks
  <2>4. JobsTyped(jobs') /\ SiteInv'
    BY <2>1, PostedTypes
  <2>5. StepKinds
    BY <2>1, PostAdds DEF StepKinds, TurnPosted, Posted, OthersKept
  <2>. QED
    BY <2>1, <2>3, <2>4, <2>5, TypesSplit
<1>3. CASE RestartTalk
  <2>1. site = "interview" /\ talk' = NewTalk /\ UNCHANGED <<site, disk, editor, form, jobs>>
    BY <1>3 DEF RestartTalk, Begun
  <2>. QED
    BY <1>1, <1>3, <2>1, TalkBegins, TypesSplit DEF StepKinds, SiteInv
<1>. QED
  BY <1>2, <1>3

-----------------------------------------------------------------------------
(* The answers, and the work of the server.                                   *)

LEMMA AnswerReturns ==
    ASSUME TypesInv, SiteInv, NEW j \in Jobs, NEW commands, NEW outcome,
           Hears(j, commands, outcome), jobs' = Ended(j, outcome), UNCHANGED <<site, disk>>
    PROVE  Lessened /\ Returned(j) /\ JobsTyped(jobs') /\ SiteInv'
<1>1. Lessened /\ ~jobs'[j].heard /\ \A k \in Jobs \ {j} : jobs'[k] = jobs[k]
  BY EndedLessens
<1>2. Returned(j)
  BY <1>1 DEF Returned, OthersKept, Hears
<1>. QED
  BY <1>1, <1>2, LessenedSites

LEMMA MetaAnswers ==
    ASSUME TypesInv, SiteInv, NEW j \in Jobs, MetaAnswered(j)
    PROVE  /\ TypesInv' /\ SiteInv' /\ StepKinds /\ UNCHANGED <<site, editor>>
           /\ ~form.saved /\ form'.saved =>
                 form.tasks = <<>> /\ jobs[j].stage = "worked" /\ jobs[j].heard
                 /\ jobs[j].p.command = "ticket_edit" /\ UNCHANGED disk
<1>0. form \in Forms
  BY TypesSplit
<1>1. PICK outcome \in Heard :
         /\ Hears(j, {"ticket_edit"}, outcome)
         /\ \/ /\ outcome = "ok" /\ form.tasks # <<>>
               /\ jobs' = [jobs EXCEPT ![j] = Posting(TicketEdit(Head(form.tasks)), Nothing, 1)]
               /\ form' = [form EXCEPT !.tasks = Tail(form.tasks)]
            \/ /\ outcome = "ok" /\ form.tasks = <<>>
               /\ jobs' = Ended(j, outcome)
               /\ form' = [form EXCEPT !.saved = TRUE]
            \/ /\ outcome # "ok"
               /\ jobs' = Ended(j, outcome)
               /\ form' = [form EXCEPT !.tasks = <<>>, !.busy = FALSE]
  BY DEF MetaAnswered
<1>2. UNCHANGED <<site, disk, editor, talk>>
  BY DEF MetaAnswered
<1>3. jobs[j].p.command = "ticket_edit" /\ jobs[j].heard /\ site = "card"
  BY <1>1 DEF Hears, SiteInv
<1>4. outcome = "ok" => jobs[j].stage = "worked"
  BY <1>1, OkIsWorked
<1>5. CASE /\ outcome = "ok" /\ form.tasks # <<>>
           /\ jobs' = [jobs EXCEPT ![j] = Posting(TicketEdit(Head(form.tasks)), Nothing, 1)]
           /\ form' = [form EXCEPT !.tasks = Tail(form.tasks)]
  <2>1. form' \in Forms /\ (form'.saved = form.saved)
    <3>1. Tail(form.tasks) = <<>>
      BY <1>0, <1>5, TaskTails
    <3>. QED
      BY <1>0, <1>5, <3>1, FormEffects DEF Forms
  <2>. DEFINE y == Posting(TicketEdit(Head(form.tasks)), Nothing, 1)
  <2>2. IsJob(y) /\ y.p.command = "ticket_edit"
    BY RequestIsJob DEF TicketEdit, Posting
  <2>3. jobs' = [jobs EXCEPT ![j] = y] /\ JobsTyped(jobs)
    BY <1>5, TypesSplit
  <2>. HIDE DEF y
  <2>4. JobsTyped(jobs') /\ jobs'[j] = y /\ OthersKept(j)
    BY <2>2, <2>3, OneJobChanged DEF OthersKept
  <2>5. SiteInv'
    <3>1. ASSUME NEW k \in Jobs
          PROVE  /\ jobs'[k].p.command = "ticket_edit" => site = "card"
                 /\ site = "card" => jobs'[k].p.command \in CardCommands
                 /\ site = "interview" => jobs'[k].p.command \in {"idle", "ai_draft"}
      <4>1. CASE k = j
        BY <1>3, <2>2, <2>4, <4>1 DEF CardCommands
      <4>2. CASE k # j
        BY <2>4, <4>2 DEF OthersKept, SiteInv
      <4>. QED
        BY <4>1, <4>2
    <3>. QED
      BY <1>2, <3>1 DEF SiteInv
  <2>6. StepKinds
    BY <1>2, <1>3, <1>4, <1>5, <2>4 DEF StepKinds, MetaGoesOn, y
  <2>. QED
    BY <1>2, <2>1, <2>4, <2>5, <2>6, TypesSplit DEF Forms
<1>6. CASE jobs' = Ended(j, outcome) /\ form' \in {[form EXCEPT !.saved = TRUE],
                [form EXCEPT !.tasks = <<>>, !.busy = FALSE]}
  <2>1. form' \in Forms
    BY <1>0, <1>6, FormEffects
  <2>2. Returned(j) /\ JobsTyped(jobs') /\ SiteInv'
    BY <1>1, <1>2, <1>6, AnswerReturns
  <2>3. StepKinds
    <3>1. FormReturned
      BY <1>0, <1>6 DEF FormReturned, Forms
    <3>. QED
      BY <1>2, <2>2, <3>1 DEF StepKinds
  <2>4. form' = [form EXCEPT !.tasks = <<>>, !.busy = FALSE] => form'.saved = form.saved
    BY <1>0 DEF Forms
  <2>5. ~form.saved /\ form'.saved => outcome = "ok" /\ form.tasks = <<>>
    <3>1. CASE outcome = "ok" /\ form.tasks = <<>>
      BY <3>1
    <3>2. CASE outcome # "ok"
      BY <1>1, <2>4, <3>2
    <3>3. CASE form.tasks # <<>> /\ outcome = "ok"
      <4>1. form' = [form EXCEPT !.tasks = Tail(form.tasks)]
        BY <1>1, <3>3
      <4>2. form'.saved = form.saved
        BY <1>0, <4>1 DEF Forms
      <4>. QED
        BY <4>2
    <3>. QED
      BY <3>1, <3>2, <3>3
  <2>. QED
    BY <1>2, <1>3, <1>4, <2>1, <2>2, <2>3, <2>5, TypesSplit
<1>. QED
  BY <1>1, <1>5, <1>6

LEMMA FormAnswers ==
    ASSUME TypesInv, SiteInv, NEW j \in Jobs,
           FormAnswered(j) \/ ButtonAnswered(j) \/ SwitchAnswered(j) \/ PreviewAnswered(j)
    PROVE  /\ TypesInv' /\ SiteInv' /\ StepKinds /\ UNCHANGED <<site, editor>>
           /\ ~form.saved /\ form'.saved =>
                 jobs[j].stage = "worked" /\ jobs[j].p.command # "ticket_edit"
<1>0. form \in Forms
  BY TypesSplit
<1>1. PICK outcome, commands :
         /\ outcome \in Heard
         /\ "ticket_edit" \notin commands
         /\ commands \cap CardCommands = {} \/ form'.busy = form.busy \/ outcome # "ok"
         /\ Hears(j, commands, outcome)
         /\ jobs' = Ended(j, outcome)
         /\ \/ form' \in {form, [form EXCEPT !.busy = FALSE]}
            \/ outcome = "ok" /\ form' = [form EXCEPT !.saved = TRUE]
            \/ form' = [form EXCEPT !.busy = FALSE, !.saved = (outcome = "ok")]
  <2>1. CASE FormAnswered(j)
    <3>1. PICK outcome \in Heard :
             /\ Hears(j, {"new_ticket", "ticket_lifecycle", "rate_config"}, outcome)
             /\ jobs' = Ended(j, outcome)
             /\ form' = IF outcome = "ok" THEN [form EXCEPT !.saved = TRUE]
                        ELSE [form EXCEPT !.busy = FALSE]
      BY <2>1 DEF FormAnswered
    <3>. QED
      BY <1>0, <3>1 DEF Forms
  <2>2. CASE ButtonAnswered(j)
    <3>1. PICK outcome \in Heard :
             /\ Hears(j, {"run_loop", "approve", "session_ctl", "open_project_mc"}, outcome)
             /\ jobs' = Ended(j, outcome)
      BY <2>2 DEF ButtonAnswered
    <3>. QED
      BY <2>2, <3>1 DEF ButtonAnswered, CardCommands
  <2>3. CASE SwitchAnswered(j)
    <3>1. PICK outcome \in Heard :
             /\ Hears(j, {"set_mode", "autopilot_grant", "autopilot_revoke"}, outcome)
             /\ jobs' = Ended(j, outcome)
             /\ form' = [form EXCEPT !.busy = FALSE, !.saved = (outcome = "ok")]
      BY <2>3 DEF SwitchAnswered
    <3>. QED
      BY <3>1 DEF CardCommands
  <2>4. CASE PreviewAnswered(j)
    <3>1. PICK outcome \in Heard :
             Hears(j, {"prune_preview"}, outcome) /\ jobs' = Ended(j, outcome)
      BY <2>4 DEF PreviewAnswered
    <3>. QED
      BY <2>4, <3>1 DEF PreviewAnswered, CardCommands
  <2>. QED
    BY <2>1, <2>2, <2>3, <2>4
<1>2. UNCHANGED <<site, disk, editor, talk>>
  BY DEF FormAnswered, ButtonAnswered, SwitchAnswered, PreviewAnswered
<1>3. form' \in Forms
  BY <1>0, <1>1, FormEffects
<1>4. Returned(j) /\ JobsTyped(jobs') /\ SiteInv'
  BY <1>1, <1>2, AnswerReturns
<1>6. ~form.saved /\ form'.saved => outcome = "ok"
  BY <1>0, <1>1 DEF Forms
<1>5. StepKinds
  <2>1. site = "card" => form'.busy = form.busy \/ ~(outcome = "ok")
    BY <1>1 DEF SiteInv, Hears
  <2>2. FormReturned
    BY <1>6, <2>1 DEF FormReturned
  <2>. QED
    BY <1>2, <1>4, <2>2 DEF StepKinds
<1>7. jobs[j].p.command # "ticket_edit" /\ (outcome = "ok" => jobs[j].stage = "worked")
  BY <1>1, OkIsWorked DEF Hears
<1>. QED
  BY <1>2, <1>3, <1>4, <1>5, <1>6, <1>7, TypesSplit

LEMMA TurnAnswers ==
    ASSUME TypesInv, SiteInv, Interview_Max \in Nat, NEW j \in Jobs, TurnAnswered(j)
    PROVE  /\ TypesInv' /\ SiteInv' /\ StepKinds /\ UNCHANGED <<site, disk, editor, form>>
           /\ site = "interview" /\ jobs[j].heard
           /\ \/ \E lines \in {1, 2} : talk' = Advanced(talk, lines)
              \/ talk' = [talk EXCEPT !.busy = FALSE]
<1>1. PICK outcome \in Heard :
         /\ Hears(j, {"ai_draft"}, outcome)
         /\ jobs' = Ended(j, outcome)
         /\ \/ \E lines \in {1, 2} : talk' = Advanced(talk, lines)
            \/ talk' = [talk EXCEPT !.busy = FALSE]
  BY DEF TurnAnswered
<1>2. UNCHANGED <<site, disk, editor, form>> /\ site = "interview"
  BY DEF TurnAnswered
<1>3. talk \in Talks
  BY TypesSplit
<1>4. talk' \in Talks
  <2>1. CASE talk' = [talk EXCEPT !.busy = FALSE]
    BY <1>3, <2>1, TalkGivenBack
  <2>2. ASSUME NEW lines \in {1, 2}, talk' = Advanced(talk, lines)
        PROVE  talk' \in Talks
    <3>1. PICK n \in Nat : n = lines
      BY <2>2
    <3>. QED
      BY <1>3, <2>2, <3>1, TalkAdvanced
  <2>. QED
    BY <1>1, <2>1, <2>2
<1>5. Returned(j) /\ JobsTyped(jobs') /\ SiteInv'
  BY <1>1, <1>2, AnswerReturns
<1>6. StepKinds
  BY <1>2, <1>5 DEF StepKinds
<1>. QED
  BY <1>1, <1>2, <1>4, <1>5, <1>6, TypesSplit DEF Hears

LEMMA ServerSteps ==
    ASSUME TypesInv, SiteInv, NEW j \in Jobs, Spawn(j) \/ ScriptWorks(j) \/ Fails(j) \/ Dropped(j)
    PROVE  TypesInv' /\ SiteInv' /\ StepKinds /\ UNCHANGED <<site, editor, form>>
<1>1. IsDisk(disk) /\ JobsTyped(jobs)
  BY TypesSplit
<1>2. CASE Fails(j) \/ Dropped(j)
  <2>1. jobs' = [jobs EXCEPT ![j] = NoRequest] /\ UNCHANGED <<site, disk, editor, form, talk>>
    BY <1>2 DEF Fails, Dropped
  <2>2. JobsTyped(jobs') /\ jobs'[j] = NoRequest /\ \A k \in Jobs \ {j} : jobs'[k] = jobs[k]
    BY <1>1, <2>1, IdleIsJob, OneJobChanged
  <2>3. Lessened
    BY <2>2, IdleIsJob DEF Lessened
  <2>. QED
    BY <2>1, <2>3, LessenedSites, TypesSplit DEF StepKinds, Passive
<1>3. CASE Spawn(j)
  <2>1. UNCHANGED <<site, disk, editor, form, talk>>
    BY <1>3 DEF Spawn
  <2>2. JobsTyped(jobs') /\ jobs'[j].p = jobs[j].p /\ \A k \in Jobs \ {j} : jobs'[k] = jobs[k]
    BY <1>3, SpawnStages
  <2>3. SiteInv'
    BY <2>1, <2>2 DEF SiteInv
  <2>. QED
    BY <1>3, <2>1, <2>2, <2>3, TypesSplit DEF StepKinds
<1>4. CASE ScriptWorks(j)
  <2>1. UNCHANGED <<site, editor, form, talk>> /\ disk' = Effect(jobs[j], disk)
    BY <1>4 DEF ScriptWorks
  <2>2. /\ JobsTyped(jobs') /\ \A k \in Jobs \ {j} : jobs'[k] = jobs[k]
        /\ jobs'[j].p.command \in {jobs[j].p.command, "idle"}
    BY <1>4, WorkStages
  <2>3. IsDisk(disk')
    BY <1>1, <2>1, EffectOnCard
  <2>4. SiteInv'
    <3>1. ASSUME NEW k \in Jobs
          PROVE  jobs'[k].p.command \in {jobs[k].p.command, "idle"}
      BY <2>2
    <3>. QED
      BY <2>1, <3>1 DEF SiteInv, CardCommands
  <2>. QED
    BY <1>4, <2>1, <2>2, <2>3, <2>4, TypesSplit DEF StepKinds
<1>. QED
  BY <1>2, <1>3, <1>4

LEMMA EveryStep ==
    ASSUME TypesInv, SiteInv, Interview_Max \in Nat, [PagesNext]_pageVars
    PROVE  TypesInv' /\ SiteInv' /\ StepKinds /\ site' = site
<1>1. CASE UNCHANGED pageVars
  <2>1. UNCHANGED <<site, disk, editor, form, talk, jobs>>
    BY <1>1 DEF pageVars
  <2>2. Lessened
    BY <2>1, TypesSplit DEF Lessened
  <2>. QED
    BY <2>1, <2>2, TypesSplit, LessenedSites DEF StepKinds, Passive
<1>2. ASSUME NEW t \in Editors,
             \/ Edit(t) \/ Review(t) \/ ClickSave(t) \/ ClickDraft(t)
             \/ ReloadEditor(t) \/ Offline(t) \/ Online(t)
      PROVE  TypesInv' /\ SiteInv' /\ StepKinds /\ site' = site
  BY <1>2, TabSteps
<1>3. CASE Fill \/ ClickMeta \/ ClickCreate \/ ClickLifecycle \/ PageReloads
  BY <1>3, CardSteps
<1>4. CASE ClickRates \/ ClickButton \/ ClickPreview \/ ClickSwitch
  BY <1>4, SettingsSteps
<1>5. CASE SendTurn \/ RestartTalk
  BY <1>5, InterviewSteps
<1>6. ASSUME NEW j \in Jobs, Spawn(j) \/ ScriptWorks(j) \/ Fails(j) \/ Dropped(j)
      PROVE  TypesInv' /\ SiteInv' /\ StepKinds /\ site' = site
  BY <1>6, ServerSteps
<1>7. ASSUME NEW j \in Jobs, Answered(j)
      PROVE  TypesInv' /\ SiteInv' /\ StepKinds /\ site' = site
  <2>1. CASE SaveAnswered(j) \/ DraftAnswered(j)
    <3>1. TabsTyped(editor') /\ Lessened /\ UNCHANGED <<site, disk, form, talk>>
      BY <2>1, EditorAnswered
    <3>. QED
      BY <3>1, TypesSplit, LessenedSites DEF StepKinds, Passive
  <2>2. CASE MetaAnswered(j)
    BY <2>2, MetaAnswers
  <2>3. CASE FormAnswered(j) \/ ButtonAnswered(j) \/ SwitchAnswered(j) \/ PreviewAnswered(j)
    BY <2>3, FormAnswers
  <2>4. CASE TurnAnswered(j)
    BY <2>4, TurnAnswers
  <2>. QED
    BY <1>7, <2>1, <2>2, <2>3, <2>4 DEF Answered
<1>. QED
  BY <1>1, <1>2, <1>3, <1>4, <1>5, <1>6, <1>7 DEF PagesNext

-----------------------------------------------------------------------------
(* The inductive invariants.                                                  *)

LEMMA StagedHeard ==
    ASSUME TypesInv, NEW j \in Jobs, Spawn(j) \/ ScriptWorks(j)
    PROVE  /\ OthersKept(j) /\ UNCHANGED <<site, form, talk>>
           /\ jobs'[j].heard => jobs[j].heard /\ jobs'[j].p = jobs[j].p
                                  /\ jobs'[j].value = jobs[j].value
  BY SpawnStages, WorkStages DEF Spawn, ScriptWorks, OthersKept

\* One request at a time is heard where a button waits for the one before.
LEMMA HeardStep ==
    ASSUME TypesInv, HeardApart, TurnInv, CardInv, StepKinds, site' = site
    PROVE  HeardApart'
<1>. SUFFICES ASSUME site \in {"card", "interview"}
              PROVE  \A i, k \in Jobs : jobs'[i].heard /\ jobs'[k].heard => i = k
  BY DEF HeardApart
<1>0. \A i, k \in Jobs : jobs[i].heard /\ jobs[k].heard => i = k
  BY DEF HeardApart
<1>1. CASE Passive
  BY <1>0, <1>1 DEF Passive, Lessened
<1>2. ASSUME NEW j \in Jobs, Returned(j)
      PROVE  \A i, k \in Jobs : jobs'[i].heard /\ jobs'[k].heard => i = k
  BY <1>0, <1>2 DEF Returned, OthersKept
<1>3. ASSUME NEW j \in Jobs, MetaGoesOn(j)
      PROVE  \A i, k \in Jobs : jobs'[i].heard /\ jobs'[k].heard => i = k
  BY <1>0, <1>3 DEF MetaGoesOn, OthersKept
<1>4. CASE site = "card" /\ (MetaPosted \/ FormPosted)
  <2>1. \A k \in Jobs : ~jobs[k].heard
    BY <1>4 DEF CardInv, MetaPosted, FormPosted
  <2>2. PICK j \in Jobs : OthersKept(j)
    BY <1>4 DEF MetaPosted, FormPosted, Posted
  <2>. QED
    BY <2>1, <2>2 DEF OthersKept
<1>5. CASE site = "interview" /\ TurnPosted
  <2>1. \A k \in Jobs : ~jobs[k].heard
    BY <1>5 DEF TurnInv, TurnPosted
  <2>2. PICK j \in Jobs : OthersKept(j)
    BY <1>5 DEF TurnPosted, Posted
  <2>. QED
    BY <2>1, <2>2 DEF OthersKept
<1>6. CASE Fill \/ PageReloads \/ RestartTalk
  BY <1>0, <1>6 DEF Fill, PageReloads, RestartTalk
<1>7. ASSUME NEW j \in Jobs, Spawn(j) \/ ScriptWorks(j)
      PROVE  \A i, k \in Jobs : jobs'[i].heard /\ jobs'[k].heard => i = k
  BY <1>0, <1>7, StagedHeard DEF OthersKept
<1>. QED
  BY <1>1, <1>2, <1>3, <1>4, <1>5, <1>6, <1>7 DEF StepKinds, Elsewhere

\* What a turn is sent with, and what becomes of its answer.
LEMMA TurnStep ==
    ASSUME TypesInv, SiteInv, HeardApart, TurnInv, StepKinds, site' = site,
           Interview_Max \in Nat \ {0}, ~Hasty
    PROVE  TurnInv'
<1>. SUFFICES ASSUME site = "interview"
              PROVE  /\ talk'.turn \in 1..Interview_Max
                     /\ \/ talk'.answers = talk'.turn - 1
                        \/ talk'.answers = talk'.turn /\ talk'.turn = Interview_Max /\ talk'.busy
                     /\ \A k \in Jobs : jobs'[k].heard =>
                           /\ talk'.busy /\ talk'.answers = talk'.turn - 1
                           /\ jobs'[k].value = [turn |-> talk'.turn, answers |-> talk'.answers]
  BY DEF TurnInv
<1>. DEFINE Fits(t) == /\ t.turn \in 1..Interview_Max
                       /\ \/ t.answers = t.turn - 1
                          \/ t.answers = t.turn /\ t.turn = Interview_Max /\ t.busy
            Carries(t, req) == /\ t.busy /\ t.answers = t.turn - 1
                               /\ req.value = [turn |-> t.turn, answers |-> t.answers]
<1>. SUFFICES Fits(talk') /\ \A k \in Jobs : jobs'[k].heard => Carries(talk', jobs'[k])
  OBVIOUS
<1>0. /\ Fits(talk) /\ \A k \in Jobs : jobs[k].heard => Carries(talk, jobs[k])
      /\ talk \in Talks
  BY TypesSplit DEF TurnInv
<1>. HIDE DEF Fits, Carries
<1>1. CASE Passive
  BY <1>0, <1>1 DEF Passive, Lessened
<1>2. ASSUME NEW j \in Jobs, Returned(j), talk' = talk
      PROVE  Fits(talk') /\ \A k \in Jobs : jobs'[k].heard => Carries(talk', jobs'[k])
  BY <1>0, <1>2 DEF Returned, OthersKept
<1>3. ASSUME NEW j \in Jobs, Returned(j), TurnAnswered(j)
      PROVE  Fits(talk') /\ \A k \in Jobs : jobs'[k].heard => Carries(talk', jobs'[k])
  <2>1. \A k \in Jobs : ~jobs'[k].heard
    BY <1>3 DEF Returned, OthersKept, HeardApart
  <2>2. Fits(talk')
    <3>0. Carries(talk, jobs[j])
      BY <1>0, <1>3 DEF Returned
    <3>1. /\ talk.turn \in 1..Interview_Max /\ talk.answers = talk.turn - 1
          /\ talk.busy
      BY <1>0, <3>0 DEF Fits, Carries
    <3>2. CASE talk' = [talk EXCEPT !.busy = FALSE]
      <4>1. talk'.turn = talk.turn /\ talk'.answers = talk.answers
        BY <1>0, <3>2, TalkGivenBack
      <4>. QED
        BY <3>1, <4>1 DEF Fits
    <3>3. ASSUME NEW n \in Nat, talk' = Advanced(talk, n)
          PROVE  Fits(talk')
      <4>1. /\ talk'.answers = talk.answers + 1
            /\ talk.turn >= Interview_Max => talk'.turn = talk.turn /\ talk'.busy = talk.busy
            /\ talk.turn < Interview_Max => talk'.turn = talk.turn + 1 /\ talk'.busy = FALSE
        BY <1>0, <3>3, TalkAdvanced
      <4>2. CASE talk.turn >= Interview_Max
        <5>1. talk'.busy
          BY <3>1, <4>1, <4>2
        <5>2. talk.turn = Interview_Max
          BY <3>1, <4>2
        <5>3. talk'.answers = talk.answers + 1 /\ talk'.turn = talk.turn
          BY <4>1, <4>2
        <5>4. talk'.answers = talk'.turn /\ talk'.turn = Interview_Max
          BY <3>1, <5>2, <5>3
        <5>. QED
          BY <5>1, <5>4 DEF Fits
      <4>3. CASE talk.turn < Interview_Max
        BY <3>1, <4>1, <4>3 DEF Fits
      <4>. QED
        BY <3>1, <4>2, <4>3
    <3>4. \/ \E n \in Nat : talk' = Advanced(talk, n)
          \/ talk' = [talk EXCEPT !.busy = FALSE]
      BY <1>3, TurnAnswers
    <3>. QED
      BY <3>2, <3>3, <3>4
  <2>. QED
    BY <2>1, <2>2
<1>4. CASE TurnPosted
  <2>0. PICK p : Posted(p, [turn |-> talk.turn, answers |-> talk.answers])
    BY <1>4 DEF TurnPosted
  <2>1. PICK j \in Jobs :
           /\ jobs'[j] = Posting(p, Nothing, [turn |-> talk.turn, answers |-> talk.answers])
           /\ OthersKept(j)
    BY <2>0 DEF Posted
  <2>2. \A k \in Jobs : ~jobs[k].heard
    BY <1>0, <1>4 DEF TurnPosted, Carries
  <2>3. jobs'[j].value = [turn |-> talk.turn, answers |-> talk.answers]
    BY <2>1 DEF Posting
  <2>4. talk'.turn = talk.turn /\ talk'.answers = talk.answers /\ talk'.busy
    BY <1>0, <1>4 DEF TurnPosted, Talks
  <2>5. talk.answers = talk.turn - 1
    BY <1>0, <1>4 DEF TurnPosted, Fits
  <2>6. Fits(talk')
    BY <1>0, <2>4, <2>5 DEF Fits
  <2>. QED
    BY <2>1, <2>2, <2>3, <2>4, <2>5, <2>6 DEF OthersKept, Carries
<1>5. CASE RestartTalk
  <2>1. talk' = NewTalk /\ jobs' = jobs /\ \A k \in Jobs : ~jobs[k].heard
    BY <1>5 DEF RestartTalk, Begun
  <2>2. Fits(talk')
    BY <2>1, TalkBegins DEF Fits
  <2>. QED
    BY <2>1, <2>2
<1>6. CASE PageReloads
  BY <1>0, <1>6 DEF PageReloads
<1>7. ASSUME NEW j \in Jobs, Spawn(j) \/ ScriptWorks(j)
      PROVE  Fits(talk') /\ \A k \in Jobs : jobs'[k].heard => Carries(talk', jobs'[k])
  BY <1>0, <1>7, StagedHeard DEF OthersKept, Carries
<1>. QED
  BY <1>1, <1>2, <1>3, <1>4, <1>5, <1>6, <1>7 DEF StepKinds, Elsewhere

\* What the chain of requests of a card has on disk.
LEMMA CardStep ==
    ASSUME TypesInv, SiteInv, HeardApart, CardInv, StepKinds, site' = site
    PROVE  CardInv'
<1>a. site' = "card" => (form'.saved => form'.busy)
  <2>. SUFFICES ASSUME site = "card"
                PROVE  form'.saved => form'.busy
    OBVIOUS
  <2>0. form \in Forms /\ (form.saved => form.busy)
    BY TypesSplit DEF CardInv
  <2>1. CASE form' = form
    BY <2>0, <2>1
  <2>2. ASSUME NEW j \in Jobs, Returned(j), FormReturned
        PROVE  form'.saved => form'.busy
    BY <2>2 DEF CardInv, Returned, FormReturned
  <2>3. ASSUME NEW j \in Jobs, MetaGoesOn(j)
        PROVE  form'.saved => form'.busy
    BY <2>0, <2>3 DEF MetaGoesOn, Forms
  <2>4. CASE MetaPosted \/ FormPosted
    BY <2>0, <2>4 DEF MetaPosted, FormPosted, Forms
  <2>5. CASE Fill
    BY <2>5 DEF Fill
  <2>6. CASE PageReloads
    BY <2>0, <2>6 DEF PageReloads, Forms
  <2>. QED
    BY <2>1, <2>2, <2>3, <2>4, <2>5, <2>6, StagedHeard DEF StepKinds, Elsewhere, Passive
<1>. SUFFICES ASSUME site = "card", NEW k \in Jobs, jobs'[k].heard
              PROVE  /\ form'.busy /\ ~form'.saved
                     /\ jobs'[k].p.command = "ticket_edit" => Sent(jobs[k])'
  BY <1>a DEF CardInv
<1>0. form \in Forms /\ IsDisk(disk)
  BY TypesSplit
<1>1. ASSUME jobs'[k] = jobs[k], UNCHANGED <<disk, form>>
      PROVE  /\ form'.busy /\ ~form'.saved
             /\ jobs'[k].p.command = "ticket_edit" => Sent(jobs[k])'
  BY <1>1 DEF CardInv, Sent
<1>2. CASE Passive
  BY <1>1, <1>2 DEF Passive, Lessened
<1>3. ASSUME NEW j \in Jobs, Returned(j)
      PROVE  FALSE
  <2>1. k # j /\ jobs[k].heard /\ jobs[j].heard
    BY <1>3 DEF Returned, OthersKept
  <2>. QED
    BY <2>1 DEF HeardApart
<1>4. ASSUME NEW j \in Jobs, MetaGoesOn(j)
      PROVE  /\ form'.busy /\ ~form'.saved
             /\ jobs'[k].p.command = "ticket_edit" => Sent(jobs[k])'
  <2>1. k = j
    <3>1. k # j => jobs[k].heard
      BY <1>4 DEF MetaGoesOn, OthersKept
    <3>. QED
      BY <1>4, <3>1 DEF HeardApart, MetaGoesOn
  <2>2. form.tasks = <<"set-labels">> /\ Tail(form.tasks) = <<>>
           /\ Head(form.tasks) = "set-labels"
    BY <1>0, <1>4, TaskTails DEF MetaGoesOn, Forms
  <2>3. form.busy /\ ~form.saved /\ Sent(jobs[j])
    BY <1>4 DEF CardInv, MetaGoesOn
  <2>4. disk.priority = 1
    BY <1>4, <2>2, <2>3, Sequences1 DEF Sent, MetaGoesOn
  <2>5. form' = [form EXCEPT !.tasks = <<>>]
    BY <1>4, <2>2 DEF MetaGoesOn
  <2>6. form'.busy = form.busy /\ form'.saved = form.saved /\ form'.tasks = <<>>
    BY <1>0, <2>5 DEF Forms
  <2>7. jobs'[j].p.action = "set-labels" /\ jobs'[j].stage = "posted" /\ disk' = disk
    BY <1>4, <2>2 DEF MetaGoesOn, Posting, TicketEdit
  <2>8. Sent(jobs[j])'
    BY <2>4, <2>6, <2>7 DEF Sent
  <2>. QED
    BY <2>1, <2>3, <2>6, <2>8
<1>5. CASE MetaPosted
  <2>0. \A i \in Jobs : ~jobs[i].heard
    BY <1>5 DEF CardInv, MetaPosted
  <2>1. PICK j \in Jobs :
           /\ jobs'[j] = Posting(TicketEdit(Head(Tasks(form))), Nothing, 1)
           /\ OthersKept(j)
    BY <1>5 DEF MetaPosted, Posted
  <2>2. k = j
    BY <2>0, <2>1 DEF OthersKept
  <2>3. jobs'[j].p.action = Head(Tasks(form)) /\ jobs'[j].stage = "posted"
    BY <2>1 DEF Posting, TicketEdit
  <2>4. form' = [form EXCEPT !.tasks = Tail(Tasks(form)), !.busy = TRUE] /\ disk' = disk
    BY <1>5 DEF MetaPosted
  <2>5. /\ form'.tasks = Tail(Tasks(form)) /\ form'.busy /\ form'.saved = form.saved
        /\ form'.priority = form.priority /\ form'.labels = form.labels
    BY <1>0, <2>4 DEF Forms
  <2>6. Sent(jobs[j])'
    <3>1. CASE Head(Tasks(form)) = "set-priority"
                 /\ (form.labels = 1 <=> Tail(Tasks(form)) = <<"set-labels">>)
      BY <2>3, <2>5, <3>1 DEF Sent
    <3>2. CASE Head(Tasks(form)) = "set-labels" /\ form.priority = 0 /\ Tail(Tasks(form)) = <<>>
      BY <2>3, <2>5, <3>2 DEF Sent
    <3>. QED
      BY <1>0, <1>5, <3>1, <3>2, TaskTails DEF MetaPosted
  <2>7. ~form.saved
    BY <1>5 DEF MetaPosted, CardInv
  <2>. QED
    BY <2>2, <2>5, <2>6, <2>7
<1>6. CASE FormPosted
  <2>0. ~form.saved /\ \A i \in Jobs : ~jobs[i].heard
    BY <1>6 DEF CardInv, FormPosted
  <2>1. PICK p : p.command \in {"new_ticket", "ticket_lifecycle"} /\ Posted(p, 1)
    BY <1>6 DEF FormPosted
  <2>2. PICK j \in Jobs : jobs'[j] = Posting(p, Nothing, 1) /\ OthersKept(j)
    BY <2>1 DEF Posted
  <2>3. k = j
    BY <2>0, <2>2 DEF OthersKept
  <2>4. jobs'[k].p.command # "ticket_edit"
    BY <2>1, <2>2, <2>3 DEF Posting
  <2>5. form'.busy /\ form'.saved = form.saved
    BY <1>0, <1>6 DEF FormPosted, Forms
  <2>. QED
    BY <2>0, <2>4, <2>5
<1>7. CASE Fill \/ PageReloads
  BY <1>7 DEF Fill, PageReloads, CardInv
<1>8. ASSUME NEW j \in Jobs, Spawn(j)
      PROVE  /\ form'.busy /\ ~form'.saved
             /\ jobs'[k].p.command = "ticket_edit" => Sent(jobs[k])'
  <2>1. UNCHANGED <<disk, form>>
    BY <1>8 DEF Spawn
  <2>2. CASE k # j
    BY <1>1, <1>8, <2>1, <2>2, SpawnStages
  <2>3. CASE k = j
    <3>1. jobs'[k].p = jobs[k].p /\ jobs[k].heard
             /\ (jobs'[k].stage = "worked" => jobs[k].p.command = "run_loop")
      BY <1>8, <2>3, SpawnStages
    <3>. QED
      BY <2>1, <3>1 DEF CardInv, Sent
  <2>. QED
    BY <2>2, <2>3
<1>9. ASSUME NEW j \in Jobs, ScriptWorks(j)
      PROVE  /\ form'.busy /\ ~form'.saved
             /\ jobs'[k].p.command = "ticket_edit" => Sent(jobs[k])'
  <2>1. form' = form /\ disk' = Effect(jobs[j], disk)
    BY <1>9 DEF ScriptWorks
  <2>2. /\ disk'.priority \in {disk.priority, 1} /\ disk'.labels \in {disk.labels, 1}
        /\ jobs[j].p.command = "ticket_edit" /\ jobs[j].p.action = "set-priority" =>
               disk'.priority = 1
        /\ jobs[j].p.command = "ticket_edit" /\ jobs[j].p.action = "set-labels" =>
               disk'.labels = 1
    BY <1>0, <2>1, EffectOnCard
  <2>3. CASE k # j
    <3>1. jobs'[k] = jobs[k]
      BY <1>9, <2>3, WorkStages
    <3>. QED
      BY <2>1, <2>2, <3>1 DEF CardInv, Sent
  <2>4. CASE k = j
    <3>1. jobs'[k].p = jobs[k].p /\ jobs[k].heard
      BY <1>9, <2>4, WorkStages
    <3>. QED
      BY <2>1, <2>2, <2>4, <3>1 DEF CardInv, Sent
  <2>. QED
    BY <2>3, <2>4
<1>. QED
  BY <1>2, <1>3, <1>4, <1>5, <1>6, <1>7, <1>8, <1>9 DEF StepKinds, Elsewhere

-----------------------------------------------------------------------------
(* The theorems.                                                              *)

LEMMA InitPage ==
    ASSUME PagesInit, Interview_Max \in Nat \ {0}
    PROVE  PageInv
<1>1. TypesInv
  BY InitTypes
<1>2. \A j \in Jobs : ~jobs[j].heard /\ jobs[j].p.command = "idle"
  BY IdleIsJob DEF PagesInit
<1>3. SiteInv /\ HeardApart
  BY <1>2 DEF SiteInv, HeardApart, CardCommands
<1>4. CardInv
  BY <1>2 DEF PagesInit, CardInv
<1>5. TurnInv
  <2>1. talk.turn = 1 /\ talk.answers = 0
    BY DEF PagesInit, NewTalk
  <2>. QED
    BY <1>2, <2>1 DEF TurnInv
<1>. QED
  BY <1>1, <1>3, <1>4, <1>5 DEF PageInv

LEMMA PagesStep ==
    ASSUME PageInv, [PagesNext]_pageVars, Interview_Max \in Nat \ {0}, ~Hasty
    PROVE  PageInv'
<1>1. TypesInv' /\ SiteInv' /\ StepKinds /\ site' = site
  BY EveryStep DEF PageInv
<1>. QED
  BY <1>1, HeardStep, TurnStep, CardStep DEF PageInv

\* A turn of the interview carries the answers of the turns before it and no
\* other, whatever was refused or lost in between, and no more turns are sent than
\* there are (sendTurn and its answer in the interview page), while the interview
\* is not begun again under a turn that is out.
THEOREM TurnCarriesItsAnswersHolds ==
    ASSUME Interview_Max \in Nat \ {0}, ~Hasty
    PROVE  PagesSpec => []TurnCarriesItsAnswers
<1>1. PagesInit => PageInv
  BY InitPage
<1>2. PageInv /\ [PagesNext]_pageVars => PageInv'
  BY PagesStep
<1>3. PageInv => TurnCarriesItsAnswers
  <2>. SUFFICES ASSUME PageInv, NEW j \in Jobs, jobs[j].heard, site = "interview"
                PROVE  /\ jobs[j].value.answers = jobs[j].value.turn - 1
                       /\ jobs[j].value.turn <= Interview_Max
    BY DEF TurnCarriesItsAnswers
  <2>1. /\ talk.turn \in 1..Interview_Max /\ talk.answers = talk.turn - 1
        /\ jobs[j].value = [turn |-> talk.turn, answers |-> talk.answers]
    BY DEF PageInv, TurnInv
  <2>2. jobs[j].value.turn = talk.turn /\ jobs[j].value.answers = talk.answers
    BY <2>1
  <2>. QED
    BY <2>1, <2>2
<1>. QED
  BY <1>1, <1>2, <1>3, PTL DEF PagesSpec

\* What a success of the board's forms rests on: one request at a time, and what
\* the requests before it have written.
SavedInv == TypesInv /\ SiteInv /\ (site = "card" => HeardApart /\ CardInv)

LEMMA SavedStep ==
    ASSUME SavedInv, [PagesNext]_pageVars, Interview_Max \in Nat
    PROVE  SavedInv'
<1>1. TypesInv' /\ SiteInv' /\ StepKinds /\ site' = site
  BY EveryStep DEF SavedInv
<1>2. CASE site = "card"
  <2>1. TurnInv
    BY <1>2 DEF TurnInv
  <2>. QED
    BY <1>1, <1>2, <2>1, HeardStep, CardStep DEF SavedInv
<1>. QED
  BY <1>1, <1>2 DEF SavedInv

EditorTold == \A t \in Editors : ~editor[t].reload /\ editor'[t].reload =>
                 \E j \in Jobs : jobs[j].stage = "worked" /\ jobs[j].tab = t
FormTold == ~form.saved /\ form'.saved =>
               \E j \in Jobs :
                  /\ jobs[j].stage = "worked"
                  /\ jobs[j].p.command = "ticket_edit" =>
                        disk.priority >= form.priority /\ disk.labels >= form.labels

LEMMA EditorIsTold ==
    ASSUME TypesInv, [PagesNext]_pageVars, SiteInv, Interview_Max \in Nat
    PROVE  EditorTold
<1>0. ASSUME editor' = editor
      PROVE  EditorTold
  BY <1>0 DEF EditorTold
<1>1. CASE UNCHANGED pageVars
  BY <1>0, <1>1 DEF pageVars
<1>2. ASSUME NEW t \in Editors,
             \/ Edit(t) \/ Review(t) \/ ClickSave(t) \/ ClickDraft(t)
             \/ ReloadEditor(t) \/ Offline(t) \/ Online(t)
      PROVE  EditorTold
  <2>1. CASE Edit(t) \/ Review(t) \/ Offline(t)
    BY <2>1, EditingEffect DEF EditorTold
  <2>2. CASE ClickSave(t) \/ ClickDraft(t)
    <3>1. PICK button, p, value : Press(t, button, p, value)
      BY <2>2 DEF ClickSave, ClickDraft
    <3>. QED
      BY <3>1, ClickEffect DEF EditorTold
  <2>3. CASE ReloadEditor(t) \/ Online(t)
    <3>1. Load(t)
      BY <2>3 DEF ReloadEditor, Online
    <3>. QED
      BY <3>1, LoadLessens DEF EditorTold
  <2>. QED
    BY <1>2, <2>1, <2>2, <2>3
<1>3. CASE Fill \/ ClickMeta \/ ClickCreate \/ ClickLifecycle \/ ClickRates \/ PageReloads
             \/ ClickButton \/ ClickPreview \/ ClickSwitch \/ SendTurn \/ RestartTalk
  BY <1>0, <1>3 DEF Fill, ClickMeta, ClickCreate, ClickLifecycle, ClickRates, PageReloads,
                    ClickButton, ClickPreview, ClickSwitch, SendTurn, RestartTalk
<1>4. ASSUME NEW j \in Jobs, Spawn(j) \/ ScriptWorks(j) \/ Fails(j) \/ Dropped(j)
      PROVE  EditorTold
  BY <1>0, <1>4 DEF Spawn, ScriptWorks, Fails, Dropped
<1>5. ASSUME NEW j \in Jobs, Answered(j)
      PROVE  EditorTold
  <2>1. CASE SaveAnswered(j) \/ DraftAnswered(j)
    BY <2>1, EditorAnswered DEF EditorTold
  <2>2. CASE \/ MetaAnswered(j) \/ FormAnswered(j) \/ ButtonAnswered(j)
             \/ PreviewAnswered(j) \/ SwitchAnswered(j) \/ TurnAnswered(j)
    BY <1>0, <2>2 DEF MetaAnswered, FormAnswered, ButtonAnswered, PreviewAnswered,
                      SwitchAnswered, TurnAnswered
  <2>. QED
    BY <1>5, <2>1, <2>2 DEF Answered
<1>. QED
  BY <1>1, <1>2, <1>3, <1>4, <1>5 DEF PagesNext

LEMMA FormIsTold ==
    ASSUME SavedInv, [PagesNext]_pageVars, Interview_Max \in Nat
    PROVE  FormTold
<1>. USE DEF SavedInv
<1>0. ASSUME form' = form \/ ~form'.saved \/ form'.saved = form.saved
      PROVE  FormTold
  BY <1>0 DEF FormTold
<1>a. form \in Forms /\ IsDisk(disk)
  BY TypesSplit
<1>1. CASE UNCHANGED pageVars
  BY <1>0, <1>1 DEF pageVars
<1>2. ASSUME NEW t \in Editors,
             \/ Edit(t) \/ Review(t) \/ ClickSave(t) \/ ClickDraft(t)
             \/ ReloadEditor(t) \/ Offline(t) \/ Online(t)
      PROVE  FormTold
  BY <1>0, <1>2 DEF Edit, Review, ClickSave, ClickDraft, Press, ReloadEditor, Online, Load, Offline
<1>3. CASE ClickMeta \/ ClickCreate \/ ClickLifecycle \/ ClickRates \/ ClickButton \/ ClickSwitch
  BY <1>0, <1>a, <1>3 DEF ClickMeta, ClickCreate, ClickLifecycle, ClickRates, ClickButton,
                          ClickSwitch, Forms
<1>4. CASE Fill \/ PageReloads
  BY <1>0, <1>a, <1>4 DEF Fill, PageReloads, Forms
<1>5. CASE ClickPreview \/ SendTurn \/ RestartTalk
  BY <1>0, <1>5 DEF ClickPreview, SendTurn, RestartTalk
<1>6. ASSUME NEW j \in Jobs, Spawn(j) \/ ScriptWorks(j) \/ Fails(j) \/ Dropped(j)
      PROVE  FormTold
  BY <1>0, <1>6 DEF Spawn, ScriptWorks, Fails, Dropped
<1>7. ASSUME NEW j \in Jobs, Answered(j)
      PROVE  FormTold
  <2>1. CASE SaveAnswered(j) \/ DraftAnswered(j) \/ TurnAnswered(j)
    BY <1>0, <2>1 DEF SaveAnswered, DraftAnswered, TurnAnswered
  <2>2. CASE FormAnswered(j) \/ ButtonAnswered(j) \/ SwitchAnswered(j) \/ PreviewAnswered(j)
    BY <2>2, FormAnswers DEF FormTold
  <2>3. CASE MetaAnswered(j)
    <3>. SUFFICES ASSUME ~form.saved, form'.saved
                  PROVE  /\ jobs[j].stage = "worked"
                         /\ disk.priority >= form.priority /\ disk.labels >= form.labels
      BY DEF FormTold
    <3>1. /\ form.tasks = <<>> /\ jobs[j].stage = "worked" /\ jobs[j].heard
          /\ jobs[j].p.command = "ticket_edit"
      BY <2>3, MetaAnswers
    <3>2. site = "card" /\ Sent(jobs[j])
      BY <3>1 DEF SiteInv, CardInv
    <3>3. CASE jobs[j].p.action = "set-priority"
      <4>1. disk.priority = 1 /\ form.labels # 1
        <5>1. <<>> # <<"set-labels">>
          BY Sequences1
        <5>. QED
          BY <3>1, <3>2, <3>3, <5>1 DEF Sent
      <4>2. form.labels = 0
        BY <1>a, <4>1 DEF Forms
      <4>3. form.priority \in {0, 1} /\ disk.labels \in {0, 1}
        BY <1>a DEF Forms, IsDisk
      <4>. QED
        BY <3>1, <4>1, <4>2, <4>3
    <3>4. CASE jobs[j].p.action = "set-labels"
      <4>1. disk.labels = 1 /\ (form.priority = 1 => disk.priority = 1)
        BY <3>1, <3>2, <3>4 DEF Sent
      <4>2. form.priority \in {0, 1} /\ form.labels \in {0, 1} /\ disk.priority \in {0, 1}
        BY <1>a DEF Forms, IsDisk
      <4>. QED
        BY <3>1, <4>1, <4>2
    <3>. QED
      BY <3>2, <3>3, <3>4 DEF Sent
  <2>. QED
    BY <1>7, <2>1, <2>2, <2>3 DEF Answered
<1>. QED
  BY <1>1, <1>2, <1>3, <1>4, <1>5, <1>6, <1>7 DEF PagesNext

\* A page that reports success has its work on disk: an editor by the script of
\* its own request, a card all its changed fields, also when the watchdog ended a
\* script or an earlier answer was lost (handleExec and the pages' scripts).
THEOREM SuccessIsTrueHolds ==
    ASSUME Interview_Max \in Nat \ {0}
    PROVE  PagesSpec => SuccessIsTrue
<1>1. PagesInit => SavedInv
  BY InitPage DEF PageInv, SavedInv
<1>2. SavedInv /\ [PagesNext]_pageVars => SavedInv'
  BY SavedStep
<1>3. SavedInv /\ [PagesNext]_pageVars => EditorTold /\ FormTold
  BY EditorIsTold, FormIsTold DEF SavedInv
<1>. QED
  BY <1>1, <1>2, <1>3, PTL DEF PagesSpec, SuccessIsTrue, EditorTold, FormTold
================================================================================
