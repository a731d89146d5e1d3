---------------------------- MODULE LoginLockout ----------------------------
(***************************************************************************)
(* The login form's defence against guessing: failures are counted per     *)
(* name as it was typed, in memory, and the name is locked for a while.  A *)
(* login asks whether the name is locked, looks its account up whatever    *)
(* the case of its letters, compares the password and then records the     *)
(* outcome, each under the lock of the counters but not together.          *)
(*                                                                         *)
(* Definitions whose name says what they leave out are mutations of the    *)
(* definition that follows them; the model does not use them.              *)
(***************************************************************************)
EXTENDS Naturals, FiniteSets

CONSTANTS
    Req,          \* login requests under way at once
    Account,      \* accounts, each as the set of the names that find it (EqualFold)
    MaxFailures,  \* maxLoginFailuresBeforeLockout
    LockTime,     \* loginLockoutDuration, in ticks
    MaxTime       \* bound: ticks

\* The names, as typed but for the blanks around them.
Spelling == UNION Account

VARIABLES
    now,      \* the time
    attempts, \* attempts[u] of name u: [failures, until]; until = 0 is not locked
    op,       \* op[r]: what request r is doing
    wrong     \* wrong[u]: wrong passwords compared since the name was last forgiven
              \* (history variable)

vars == <<now, attempts, op, wrong>>

NoAttempts == [failures |-> 0, until |-> 0]

Idle == [at |-> "idle"]

At(r, step) == op[r].at = step

Goes(r, o) == op' = [op EXCEPT ![r] = o]

----------------------------------------------------------------------------
(* The counters *)

\* loginLockedOut: a lockout that is over is forgotten with its failures.
Expired(u) == attempts[u].until # 0 /\ now > attempts[u].until

LockedOut(u) == attempts[u].until # 0 /\ ~Expired(u)

FailureFromZero(a) == [failures |-> a.failures + 1,
                       until |-> IF a.failures + 1 > MaxFailures THEN now + LockTime ELSE a.until]

\* recordLoginFailure
Failure(a) == [failures |-> a.failures + 1,
               until |-> IF a.failures + 1 >= MaxFailures THEN now + LockTime ELSE a.until]

\* The count goes on, but what it decides does not change beyond this.
Capped(a) == [a EXCEPT !.failures = IF @ > MaxFailures THEN MaxFailures ELSE @]

----------------------------------------------------------------------------
(* A login *)

\* The form is sent: refused while the name is locked.
Submit(r, u) ==
    /\ At(r, "idle")
    /\ ~LockedOut(u)
    /\ IF Expired(u)
       THEN attempts' = [attempts EXCEPT ![u] = NoAttempts] /\ wrong' = [wrong EXCEPT ![u] = 0]
       ELSE UNCHANGED <<attempts, wrong>>
    /\ Goes(r, [at |-> "compare", name |-> u])
    /\ UNCHANGED now

\* The account cannot be looked up or, the first time the old password is right, created.
LookupFails(r) ==
    /\ At(r, "compare")
    /\ Goes(r, Idle)
    /\ UNCHANGED <<now, attempts, wrong>>

\* The comparison, which takes its time: a wrong password, or a name that does not
\* exist or is disabled, is a failure.
Compare(r, right) ==
    /\ At(r, "compare")
    /\ wrong' = IF right THEN wrong ELSE [wrong EXCEPT ![op[r].name] = @ + 1]
    /\ Goes(r, [op[r] EXCEPT !.at = IF right THEN "clear" ELSE "record"])
    /\ UNCHANGED <<now, attempts>>

Record(r) ==
    /\ At(r, "record")
    /\ attempts' = [attempts EXCEPT ![op[r].name] = Capped(Failure(@))]
    /\ Goes(r, Idle)
    /\ UNCHANGED <<now, wrong>>

\* clearLoginFailures after the right password.
Clear(r) ==
    /\ At(r, "clear")
    /\ attempts' = [attempts EXCEPT ![op[r].name] = NoAttempts]
    /\ wrong' = [wrong EXCEPT ![op[r].name] = 0]
    /\ Goes(r, Idle)
    /\ UNCHANGED now

Tick ==
    /\ now < MaxTime /\ now' = now + 1
    /\ UNCHANGED <<attempts, op, wrong>>

Init ==
    /\ now = 1
    /\ attempts = [u \in Spelling |-> NoAttempts]
    /\ op = [r \in Req |-> Idle]
    /\ wrong = [u \in Spelling |-> 0]

Next ==
    \/ \E r \in Req :
        \/ \E u \in Spelling : Submit(r, u)
        \/ \E right \in BOOLEAN : Compare(r, right)
        \/ LookupFails(r) \/ Record(r) \/ Clear(r)
    \/ Tick

Spec == Init /\ [][Next]_vars

----------------------------------------------------------------------------
(* What makes it correct *)

\* Guesses that run in parallel pass the gate before any is counted, but only so many:
\* between two forgivings a name, as it is typed, stands fewer wrong guesses than
\* maxLoginFailures and the requests that run at once (recordLoginFailure).
GuessesBounded == \A u \in Spelling : wrong[u] < MaxFailures + Cardinality(Req)

\* The wrong guesses at an account.
GuessesAt(account) == UNION {{u} \X (1..wrong[u]) : u \in account}

\* The same of an account: "unlimited parallel guessing against one known account ...
\* which per-username lockout already stops" (admin_auth.go 519).
AccountGuessesBounded ==
    \A account \in Account : Cardinality(GuessesAt(account)) < MaxFailures + Cardinality(Req)
=============================================================================
