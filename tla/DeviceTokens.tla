----------------------------- MODULE DeviceTokens -----------------------------
(***************************************************************************)
(* The token store of Mission Control (token-store.mjs): a directory with  *)
(* one file per pairing token and one per device.  The server and the tool *)
(* pair.sh are two processes that change it without a lock; a device       *)
(* record is changed by claiming its file (a rename only one process can   *)
(* win), applying a mutator to what the claimed file holds, and writing    *)
(* the file back.  A process may be killed between any two of these steps. *)
(*                                                                         *)
(* The token of a device is told by the number of renewals that made it:   *)
(* a record matches token n exactly when it has been renewed n times.      *)
(***************************************************************************)
EXTENDS Naturals, FiniteSets

CONSTANTS Pairings,     \* pairing tokens that may be created
          DeviceCount,  \* bound on the device records that may be created
          MaxDevices,   \* limit on active devices
          MaxRenewals,  \* bound on the renewals of one device
          MaxCrashes    \* bound on killed processes

ASSUME DeviceAssumption ==
  DeviceCount \in Nat /\ MaxDevices \in Nat /\ MaxRenewals \in Nat /\ MaxCrashes \in Nat

VARIABLES pairing,  \* pairing files: "none", "open", "expired" or "used"
          born,     \* device records created so far
          record,   \* device files in place
          claimed,  \* device files held under a claim
          job,      \* what each process does to a device record
          crashes   \* processes killed so far

store == <<pairing, born, record, claimed, job, crashes>>

Devices == 1..DeviceCount
Processes == {"server", "cli"}
Absent == [renewals |-> 0, revoked |-> FALSE, age |-> "none", seen |-> FALSE]
NewRecord == [renewals |-> 0, revoked |-> FALSE, age |-> "long", seen |-> FALSE]
Records == [renewals : 0..MaxRenewals, revoked : BOOLEAN,
            age : {"long", "due", "over"}, seen : BOOLEAN]
NoJob == [verb |-> "none", device |-> 0, renewals |-> 0, claim |-> FALSE]
JobRecords == [verb : {"revoke", "rename", "touch", "renew"}, device : Devices,
         renewals : 0..MaxRenewals, claim : BOOLEAN]

StoreTypeOK ==
  /\ pairing \in [Pairings -> {"none", "open", "expired", "used"}]
  /\ born \in 0..DeviceCount /\ crashes \in 0..MaxCrashes
  /\ record \in [Devices -> Records \cup {Absent}]
  /\ claimed \in [Devices -> Records \cup {Absent}]
  /\ job \in [Processes -> JobRecords \cup {NoJob}]

StoreInit ==
  /\ pairing = [p \in Pairings |-> "none"]
  /\ born = 0 /\ crashes = 0
  /\ record = [d \in Devices |-> Absent] /\ claimed = [d \in Devices |-> Absent]
  /\ job = [p \in Processes |-> NoJob]

Free(p) == job[p] = NoJob
InPlace(d) == record[d] # Absent
Active(r) == r # Absent /\ ~r.revoked /\ r.age # "over"
ActiveDevices == {d \in Devices : Active(record[d])}
Matches(d, n) == InPlace(d) /\ record[d].renewals = n
Valid(d, n) == Matches(d, n) /\ Active(record[d])

-----------------------------------------------------------------------------
(* Pairing: a one-use token, exchanged for a device record.                  *)

CreatePairingToken(p) ==
  /\ pairing[p] = "none"
  /\ pairing' = [pairing EXCEPT ![p] = "open"]
  /\ UNCHANGED <<born, record, claimed, job, crashes>>

PairingExpires(p) ==
  /\ pairing[p] = "open"
  /\ pairing' = [pairing EXCEPT ![p] = "expired"]
  /\ UNCHANGED <<born, record, claimed, job, crashes>>
SlotFree == Cardinality(ActiveDevices) < MaxDevices

\* The server counts, claims the pairing file and writes the device record
\* without giving way to another handler.
ReserveSlotAndExchange(p) ==
  /\ Free("server") /\ SlotFree
  /\ pairing[p] = "open" /\ born < DeviceCount
  /\ pairing' = [pairing EXCEPT ![p] = "used"]
  /\ born' = born + 1
  /\ record' = [record EXCEPT ![born + 1] = NewRecord]
  /\ UNCHANGED <<claimed, job, crashes>>

\* Killed between the claim of the pairing file and the device record.
ExchangeCut(p) ==
  /\ Free("server") /\ SlotFree /\ pairing[p] = "open" /\ crashes < MaxCrashes
  /\ pairing' = [pairing EXCEPT ![p] = "used"]
  /\ crashes' = crashes + 1
  /\ UNCHANGED <<born, record, claimed, job>>

-----------------------------------------------------------------------------
(* Mutations of a device record: claim, mutate, write back.                  *)

Work(verb, d, n, claim) == [verb |-> verb, device |-> d, renewals |-> n, claim |-> claim]

\* Renewal and last-seen first find the record, and decide by what they read.
Find(verb, d, n) ==
  /\ Free("server") /\ Matches(d, n) /\ ~record[d].revoked
  /\ \/ verb = "renew" /\ record[d].age = "due" /\ n < MaxRenewals
     \/ verb = "touch" /\ ~record[d].seen
  /\ job' = [job EXCEPT !["server"] = Work(verb, d, n, FALSE)]
  /\ UNCHANGED <<pairing, born, record, claimed, crashes>>

TakeFile(d) ==
  /\ claimed' = [claimed EXCEPT ![d] = record[d]]
  /\ record' = [record EXCEPT ![d] = Absent]

Claim(p) ==
  /\ ~Free(p) /\ ~job[p].claim /\ InPlace(job[p].device)
  /\ TakeFile(job[p].device)
  /\ job' = [job EXCEPT ![p].claim = TRUE]
  /\ UNCHANGED <<pairing, born, crashes>>

ClaimLost(p) ==
  /\ ~Free(p) /\ ~job[p].claim /\ ~InPlace(job[p].device)
  /\ job' = [job EXCEPT ![p] = NoJob]
  /\ UNCHANGED <<pairing, born, record, claimed, crashes>>

\* Revoking and renaming name the device and read nothing before the claim.
Manage(p, verb, d) ==
  /\ Free(p) /\ InPlace(d)
  /\ TakeFile(d)
  /\ job' = [job EXCEPT ![p] = Work(verb, d, 0, TRUE)]
  /\ UNCHANGED <<pairing, born, crashes>>

\* What the mutator makes of the claimed record; Absent: it declines.
MutatedBlindly(j, cur) ==
  CASE j.verb = "revoke" -> [cur EXCEPT !.revoked = TRUE]
    [] j.verb = "rename" -> cur
    [] j.verb = "touch"  -> [cur EXCEPT !.seen = TRUE]
    [] j.verb = "renew"  -> [NewRecord EXCEPT !.renewals = j.renewals + 1, !.seen = cur.seen]

Mutated(j, cur) ==
  CASE j.verb = "revoke" -> [cur EXCEPT !.revoked = TRUE]
    [] j.verb = "rename" -> cur
    [] j.verb = "touch"  -> IF cur.renewals = j.renewals THEN [cur EXCEPT !.seen = TRUE] ELSE Absent
    [] j.verb = "renew"  -> IF cur.renewals = j.renewals /\ ~cur.revoked
                            THEN [cur EXCEPT !.renewals = j.renewals + 1, !.age = "long"]
                            ELSE Absent

\* What is in place afterwards: the new record, or the claimed file renamed back.
Restored(p) ==
  LET old == claimed[job[p].device]  new == Mutated(job[p], old)
  IN  IF new = Absent THEN old ELSE new

WriteBack(p) ==
  /\ ~Free(p) /\ job[p].claim
  /\ record' = [record EXCEPT ![job[p].device] = Restored(p)]
  /\ claimed' = [claimed EXCEPT ![job[p].device] = Absent]
  /\ job' = [job EXCEPT ![p] = NoJob]
  /\ UNCHANGED <<pairing, born, crashes>>

\* Nothing reads a claimed file again once its process is gone.
Crash(p) ==
  /\ ~Free(p) /\ crashes < MaxCrashes
  /\ claimed' = IF job[p].claim THEN [claimed EXCEPT ![job[p].device] = Absent] ELSE claimed
  /\ job' = [job EXCEPT ![p] = NoJob]
  /\ crashes' = crashes + 1
  /\ UNCHANGED <<pairing, born, record>>

-----------------------------------------------------------------------------
(* Time: a record comes within a week of its expiry, then expires; an hour   *)
(* after it was last seen the next request touches it again.                 *)

Older(age) == IF age = "long" THEN "due" ELSE "over"

Ages(d) ==
  /\ InPlace(d) /\ record[d].age # "over"
  /\ record' = [record EXCEPT ![d].age = Older(@)]
  /\ UNCHANGED <<pairing, born, claimed, job, crashes>>

HourPasses(d) ==
  /\ record[d].seen
  /\ record' = [record EXCEPT ![d].seen = FALSE]
  /\ UNCHANGED <<pairing, born, claimed, job, crashes>>

-----------------------------------------------------------------------------
PairingStep(p) ==
  CreatePairingToken(p) \/ PairingExpires(p) \/ ReserveSlotAndExchange(p) \/ ExchangeCut(p)
ProcessStep(p) == Claim(p) \/ ClaimLost(p) \/ WriteBack(p) \/ Crash(p)
DeviceStep(d) ==
  \/ \E verb \in {"renew", "touch"}, n \in 0..MaxRenewals : Find(verb, d, n)
  \/ \E p \in Processes, verb \in {"revoke", "rename"} : Manage(p, verb, d)
  \/ Ages(d) \/ HourPasses(d)

StoreNext ==
  \/ \E p \in Pairings : PairingStep(p)
  \/ \E p \in Processes : ProcessStep(p)
  \/ \E d \in Devices : DeviceStep(d)

StoreSpec == StoreInit /\ [][StoreNext]_store

-----------------------------------------------------------------------------
(* Properties.                                                               *)

\* The record of a device wherever its file is now.
Copy(d) == IF InPlace(d) THEN record[d] ELSE claimed[d]

\* A claim is held by the one process that won it, and a file is never both in
\* place and claimed (the unique names of renameSync in mutateDeviceRecord).
OneHolder ==
  /\ \A d \in Devices : claimed[d] # Absent =>
       /\ ~InPlace(d)
       /\ \E p \in Processes : ~Free(p) /\ job[p].claim /\ job[p].device = d
  /\ \A p \in Processes : ~Free(p) /\ job[p].claim => claimed[job[p].device] # Absent
  /\ job["server"].claim /\ job["cli"].claim => job["server"].device # job["cli"].device

\* A revoked device is never valid again: no renewal or last-seen update that
\* read the record before the revocation may bring it back (the promise of the
\* comment on mutateDeviceRecord).
RevokedStaysRevoked ==
  [][\A d \in Devices : Copy(d).revoked => ~Active(Copy(d)')]_store

\* A device record disappears only with a process killed while it held the
\* claim, one record for each such crash.
LossNeedsCrash ==
  Cardinality({d \in 1..born : Copy(d) = Absent}) <= crashes

\* Whoever meets whom at a record, it has at most one holder and comes back from
\* every change, also from one that is declined because of what another made of
\* the record since it was read (token-store.mjs:178-200).
RecordsAreKept == StoreTypeOK /\ OneHolder /\ LossNeedsCrash
=============================================================================
