---- MODULE TaskIndex ----
(***************************************************************************)
(* The lease on one row of the task index (task_index.py): workers         *)
(* acquire, renew and release it, each in one SQL statement; whoever saves *)
(* the task's record upserts the row, lease included, and a rebuild of the *)
(* index replaces every row.                                               *)
(*                                                                         *)
(* Abstracted: the other columns; time is counted in ticks.                *)
(***************************************************************************)
EXTENDS Naturals

CONSTANTS
  Workers,    \* those who ask for leases; a task's own process is another owner
  Process,    \* the owner an upsert names: the process of the task
  Ttl,        \* ttl_sec
  MaxTime,    \* bound of the model: ticks
  MaxUpserts  \* bound of the model: upserts

ASSUME LeaseAssumption ==
  /\ Process \notin Workers /\ "nobody" \notin Workers \union {Process}
  /\ Ttl \in Nat \ {0} /\ MaxTime \in Nat /\ MaxUpserts \in Nat

VARIABLES
  lease,      \* lease_owner and lease_expires_at of the row
  now,        \* time.time()
  told,       \* per worker: until when it was told that the lease is its own, 0 if not
  era,        \* history: how often an upsert has written the row
  granted     \* history, per worker: the era in which it was told so

leaseVars == <<lease, now, told, era, granted>>

Free == [owner |-> "nobody", until |-> 0]

LeaseInit ==
  /\ lease \in {Free, [owner |-> Process, until |-> Ttl]}
  /\ now = 0
  /\ told = [w \in Workers |-> 0]
  /\ era = 0 /\ granted = [w \in Workers |-> 0]

----
Tick ==
  /\ now < MaxTime
  /\ now' = now + 1
  /\ UNCHANGED <<lease, told, era, granted>>

Tell(w, until) ==
  /\ told' = [told EXCEPT ![w] = until]
  /\ granted' = [granted EXCEPT ![w] = era]

AvailableEarly(w) == lease.owner \in {"nobody", w} \/ lease.until <= now + 1   \* mutant
Available(w) == lease.owner \in {"nobody", w} \/ lease.until <= now

\* acquire_lease
Acquire(w) ==
  /\ IF Available(w)
     THEN /\ lease' = [owner |-> w, until |-> now + Ttl]
          /\ Tell(w, now + Ttl)
     ELSE /\ UNCHANGED lease /\ Tell(w, 0)
  /\ UNCHANGED <<now, era>>

\* renew_lease: an expired lease that nobody took is renewed, too.
Renew(w) ==
  /\ IF lease.owner = w
     THEN /\ lease' = [lease EXCEPT !.until = now + Ttl]
          /\ Tell(w, now + Ttl)
     ELSE /\ UNCHANGED lease /\ Tell(w, 0)
  /\ UNCHANGED <<now, era>>

\* release_lease
Release(w) ==
  /\ lease' = IF lease.owner = w THEN Free ELSE lease
  /\ Tell(w, 0)
  /\ UNCHANGED <<now, era>>

\* _record_values: an active task with a process gets that process's lease.
LeaseOf(active) == IF active THEN [owner |-> Process, until |-> now + Ttl] ELSE Free

\* upsert and replace_all write the lease whoever holds it.
Upsert ==
  /\ era < MaxUpserts
  /\ \E active \in BOOLEAN : lease' = LeaseOf(active)
  /\ era' = era + 1
  /\ UNCHANGED <<now, told, granted>>

LeaseNext ==
  \/ Tick \/ Upsert
  \/ \E w \in Workers : Acquire(w) \/ Renew(w) \/ Release(w)

LeaseSpec == LeaseInit /\ [][LeaseNext]_leaseVars

----
(***************************************************************************)
(* Properties                                                              *)
(***************************************************************************)
\* Every variable has its type; nobody was told of a lease longer than the ttl.
LeaseTypeOK ==
  /\ lease \in [owner : Workers \union {Process, "nobody"}, until : 0 .. MaxTime + Ttl]
  /\ now \in 0 .. MaxTime
  /\ told \in [Workers -> 0 .. now + Ttl]
  /\ era \in 0 .. MaxUpserts /\ granted \in [Workers -> 0 .. era]

Holds(w) == told[w] > now /\ granted[w] = era

\* Whatever the order of requests and the passing of time, no two workers hold an
\* unexpired lease that no upsert has overwritten, and the row names the holder.
OneHolder ==
  \A w \in Workers : Holds(w) => lease = [owner |-> w, until |-> told[w]]
====
