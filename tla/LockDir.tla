------------------------------- MODULE LockDir -------------------------------
(* The directory that IS a lock in ralph/scripts/lib/write_lock.sh.          *)
(*                                                                           *)
(* A lock is taken by renaming a directory that already holds a `pid` and a  *)
(* `token` file onto the canonical path, and given up by removing the two    *)
(* files and then the directory.  Two directories are used that way: the     *)
(* write lock (files pid, token) and the meta-lock that serializes           *)
(* reclaimers (files pid.<mid>, token.<mid>).  This module holds what the    *)
(* file system promises about them; WriteLock.tla says who does what.        *)
(*                                                                           *)
(* A file is identified by the process that created it: inode identity (-ef) *)
(* and the incarnation-unique names pid.<mid>/token.<mid> both reduce to     *)
(* "whose file is it", because a writer script is one process that owns each *)
(* lock at most once at a time.                                              *)
CONSTANTS Proc,   \* the writer processes, one per script invocation (a pid)
          None    \* no file of that name

ASSUME NoneAssumption == None \notin Proc

Owner == Proc \cup {None}

\* nested: the acq.<pid> directories a losing mv left INSIDE the lock.
Dir == [there : BOOLEAN, pid : Owner, token : Owner, nested : SUBSET Proc]

Gone == [there |-> FALSE, pid |-> None, token |-> None, nested |-> {}]

\* The directory as it arrives by rename: both files already in it.
Filled(p) == [there |-> TRUE, pid |-> p, token |-> p, nested |-> {}]

Empty(d) == d.there /\ d.pid = None /\ d.token = None /\ d.nested = {}

TokenOnly(d) == d.there /\ d.pid = None /\ d.token # None /\ d.nested = {}

\* rename(2) of a directory onto d succeeds on nothing and on an empty
\* directory, and fails with ENOTEMPTY otherwise.
Replaceable(d) == ~d.there \/ Empty(d)

\* Mutant: rm -rf in place of rmdir.
RmdirForced(d) == Gone

\* rmdir(2): an empty directory goes, anything else stays.
Rmdir(d) == IF Empty(d) THEN Gone ELSE d

WithoutToken(d) == [d EXCEPT !.token = None]
WithoutPid(d)   == [d EXCEPT !.pid = None]
WithNest(d, p)    == [d EXCEPT !.nested = @ \cup {p}]
WithoutNest(d, p) == [d EXCEPT !.nested = @ \ {p}]
WithoutNests(d)   == [d EXCEPT !.nested = {}]
=============================================================================
