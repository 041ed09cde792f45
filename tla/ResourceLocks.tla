----------------------------- MODULE ResourceLocks -----------------------------
(***************************************************************************)
(* The readers-writer locks of app/parallel_executor/resource_lock.py      *)
(* (class _ResourceRWLock), one per resource key, as the table that        *)
(* ResourceLockManager keeps in _locks.  Each operator is what one         *)
(* critical section of a lock's condition variable does; the threads that  *)
(* perform them are those of the module that extends this one.             *)
(*                                                                         *)
(* A lock is created free when its key is first used, so a table that has  *)
(* all keys from the start behaves the same.                               *)
(***************************************************************************)
EXTENDS Naturals, SequencesExt, FiniteSets

CONSTANTS
    Keys,       \* the resource keys, ordered like the hashes they stand for
    Users,      \* the threads that acquire locks
    NoUser      \* the value None of _writer

ASSUME LocksAssumption == Keys \subseteq Nat /\ NoUser \notin Users

VARIABLES
    writer,     \* _writer of each lock
    readers,    \* _readers of each lock
    tracked     \* _reader_threads of each lock: its keys in insertion order, a key
                \* again for each further share

lockVars == <<writer, readers, tracked>>

Modes == {"READ", "WRITE"}

Declarations == [key : Keys, mode : Modes]

\* The order of the keys; a READ and a WRITE of one key in a fixed order.
Precedes(d, e) ==
    \/ d.key < e.key
    \/ d.key = e.key /\ d.mode = "READ" /\ e.mode = "WRITE"

\* sorted_decls
Sorted(D) ==
    CHOOSE s \in [1 .. Cardinality(D) -> D] :
        \A i, j \in DOMAIN s : i < j => Precedes(s[i], s[j])

InitLocks ==
    /\ writer = [k \in Keys |-> NoUser]
    /\ readers = [k \in Keys |-> 0]
    /\ tracked = [k \in Keys |-> <<>>]

\* The loop conditions of acquire_read and acquire_write are false.
\* Faulty variant: a writer waits for writers only.
AvailableToWriter(d) == writer[d.key] = NoUser

Available(d) ==
    /\ writer[d.key] = NoUser
    /\ d.mode = "WRITE" => readers[d.key] = 0

\* The rest of acquire_read and acquire_write, once the wait is over.
Grant(u, d) ==
    /\ Available(d)
    /\ \/ /\ d.mode = "READ"
          /\ readers' = [readers EXCEPT ![d.key] = @ + 1]
          /\ tracked' = [tracked EXCEPT ![d.key] = Append(@, u)]
          /\ UNCHANGED writer
       \/ /\ d.mode = "WRITE"
          /\ writer' = [writer EXCEPT ![d.key] = u]
          /\ UNCHANGED <<readers, tracked>>

\* One reader less: one share of `who` less in _reader_threads, if it has one
\* there; while it has more it keeps its place.
DropReader(k, who) ==
    /\ readers' = [readers EXCEPT ![k] = @ - 1]
    /\ \/ \E i \in 1 .. Len(tracked[k]) :
             /\ tracked[k][i] = who
             /\ \A j \in i + 1 .. Len(tracked[k]) : tracked[k][j] # who
             /\ tracked' = [tracked EXCEPT ![k] = RemoveAt(@, i)]
       \/ ~Contains(tracked[k], who) /\ UNCHANGED tracked
    /\ UNCHANGED writer

\* release_read and release_write as _release_all calls them: the
\* RuntimeError of a lock that is not held, or held by another, is swallowed.
\* A READ lock does not know its holders: any reader's share will do.
Release(u, d) ==
    \/ d.mode = "READ" /\ readers[d.key] > 0 /\ DropReader(d.key, u)
    \/ d.mode = "READ" /\ readers[d.key] = 0 /\ UNCHANGED lockVars
    \/ /\ d.mode = "WRITE"
       /\ writer[d.key] = u
       /\ writer' = [writer EXCEPT ![d.key] = NoUser]
       /\ UNCHANGED <<readers, tracked>>
    \/ d.mode = "WRITE" /\ writer[d.key] # u /\ UNCHANGED lockVars

\* One declaration of force_release_resources: whoever writes, or the oldest
\* tracked reader, loses the lock.
ForceRelease(d) ==
    \/ d.mode = "WRITE" /\ writer' = [writer EXCEPT ![d.key] = NoUser]
                        /\ UNCHANGED <<readers, tracked>>
    \/ /\ d.mode = "READ"
       /\ readers[d.key] > 0
       /\ tracked[d.key] # <<>>
       /\ DropReader(d.key, Head(tracked[d.key]))
    \/ /\ d.mode = "READ"
       /\ readers[d.key] = 0 \/ tracked[d.key] = <<>>
       /\ UNCHANGED lockVars

LocksTypeOK ==
    /\ writer \in [Keys -> Users \union {NoUser}]
    /\ readers \in [Keys -> Nat]
    /\ tracked \in [Keys -> Seq(Users)]

(***************************************************************************)
(* The invariant the class documents: a lock with a writer has no reader.  *)
(* It has to survive releases by threads that do not hold the lock and the *)
(* forced releases of the timeout path, in any order.                      *)
(***************************************************************************)
WriterExcludesReaders ==
    \A k \in Keys : writer[k] # NoUser => readers[k] = 0
=============================================================================
