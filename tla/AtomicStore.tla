---------------------------- MODULE AtomicStore ----------------------------
(***************************************************************************)
(* What the store promises its callers: it is a set of entries, and each   *)
(* call of ensure_entry, save_relocated_entry or remove_entry takes effect *)
(* at one instant between its start and its return.  StoreLock implements  *)
(* this with directories, lock files and temporary directories.            *)
(***************************************************************************)
CONSTANTS Callers, Entries, Idle

VARIABLES
    held,    \* the entries the store has
    call,    \* what each caller is waiting for: [op, key, done], or Idle
    answer   \* how a caller's last call ended

storeVars == <<held, call, answer>>

Answers == {"none", "have", "gone", "failed"}

Calls == [op : {"ensure", "save", "raw", "remove", "sweep"}, key : Entries,
          done : BOOLEAN]

StoreInit ==
    /\ held = {}
    /\ call = [c \in Callers |-> Idle]
    /\ answer = [c \in Callers |-> "none"]

Invoke(c) ==
    /\ call[c] = Idle
    /\ \E op \in {"ensure", "save", "raw", "remove", "sweep"}, k \in Entries :
          call' = [call EXCEPT ![c] = [op |-> op, key |-> k, done |-> FALSE]]
    /\ answer' = [answer EXCEPT ![c] = "none"]
    /\ UNCHANGED held

Return(c, a) ==
    /\ call' = [call EXCEPT ![c] = Idle]
    /\ answer' = [answer EXCEPT ![c] = a]

\* The entry is there when the call returns, put there by this call or before.
Have(c) ==
    /\ call[c] # Idle
    /\ call[c].op \in {"ensure", "save", "raw"}
    /\ held' = held \cup {call[c].key}
    /\ Return(c, "have")

\* The entry is gone at one instant of the call ...
Take(c) ==
    /\ call[c] # Idle
    /\ call[c].op = "remove"
    /\ ~call[c].done
    /\ held' = held \ {call[c].key}
    /\ call' = [call EXCEPT ![c].done = TRUE]
    /\ UNCHANGED answer

\* ... which returns later; others may have put it back by then.
Gone(c) ==
    /\ call[c] # Idle
    /\ call[c].done
    /\ UNCHANGED held
    /\ Return(c, "gone")

Absent(c) ==
    /\ call[c] # Idle
    /\ call[c].op = "remove"
    /\ call[c].key \notin held
    /\ UNCHANGED held
    /\ Return(c, "gone")

\* The removal of a temporary directory touches no entry.
Swept(c) ==
    /\ call[c] # Idle
    /\ call[c].op = "sweep"
    /\ UNCHANGED held
    /\ Return(c, "gone")

\* A call that fails, or dies, changes nothing.
Fail(c) ==
    /\ call[c] # Idle
    /\ UNCHANGED held
    /\ Return(c, "failed")

StoreNext ==
    \E c \in Callers : Invoke(c) \/ Have(c) \/ Take(c) \/ Gone(c) \/ Absent(c)
                       \/ Swept(c) \/ Fail(c)

StoreSpec == StoreInit /\ [][StoreNext]_storeVars
=============================================================================
