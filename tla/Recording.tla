----------------------------- MODULE Recording -----------------------------
(***************************************************************************)
(* A process that records into a profile: record_write of                  *)
(* capture/engine.py up to the end of ledger.append, with the generator of *)
(* ids and the detectors it calls on the way.  Both are the process's own  *)
(* and start over with the next one; the ledger stays, and other processes *)
(* record into it too, in any namespace.  A call is one step: the process  *)
(* has a single thread of calls (its sqlite connection allows no other),   *)
(* what dies with it in the middle of a call is only its own memory, and   *)
(* the detectors read nothing of the ledger.  ledger.append raises when    *)
(* another process holds the file (module Ledger); the detectors have run  *)
(* by then.  A content refused for its size is refused before any of this. *)
(*                                                                         *)
(* The clock is the machine's: it advances and is set back at any time.    *)
(***************************************************************************)
EXTENDS Profile, RecordIds, Detectors

CONSTANTS
    Namespace,
    MaxAttempts,   \* bound: writes attempted by one process
    MaxRows,       \* bound: writes in the ledger
    MaxClock       \* bound: the clock

ASSUME BoundAssumption == MaxAttempts \in Nat /\ MaxRows \in Nat /\ MaxClock \in Nat

VARIABLES
    clock,
    ledger,      \* the writes in the ledger, oldest first: whose, and of what
    generator,   \* uuid7's last id
    window,      \* WriteRateDetector._history
    trusted,     \* DriftDetector._trusted
    findings,    \* MemoryBlackbox.findings: detector, and which attempt
    attempts,    \* history: the writes this process attempted, each with its
                 \* place in the ledger, or 0 if append raised
    steady       \* history: the clock was not set back since it started

processVars == <<generator, window, trusted, findings, attempts, steady>>
vars == <<profileVars, clock, ledger, processVars>>

Row == [src : Source, text : Text]

Finding == {"write_rate", "drift"} \X (1..MaxAttempts)

NewWindow == [k \in Namespace \X Source |-> <<>>]

NewTrusted == [n \in Namespace |-> <<>>]

Init ==
    /\ ProfileInit
    /\ clock = 0 /\ ledger = <<>>
    /\ generator = NewGenerator
    /\ window = NewWindow /\ trusted = NewTrusted /\ findings = {}
    /\ attempts = <<>> /\ steady = TRUE

TypeOK ==
    /\ ProfileTypeOK
    /\ clock \in 0..MaxClock
    /\ ledger \in Seq(Row)
    /\ generator \in Generator
    /\ window \in [Namespace \X Source -> Seq(0..MaxClock)]
    /\ trusted \in [Namespace -> Seq(Nat \X Nat)]
    /\ findings \subseteq Finding /\ \A f \in findings : f[2] <= Len(attempts)
    /\ attempts \in Seq([ns : Namespace, src : Source, text : Text,
                        now : 0..MaxClock, row : Nat])
    /\ \A i \in 1..Len(attempts) : attempts[i].row <= Len(ledger)
    /\ (attempts # <<>> => engine # Absent)
    /\ steady \in BOOLEAN

ProfileStep ==
    /\ InitGenerates \/ InitCreates \/ InitWrites \/ InitStops \/ Open
    /\ UNCHANGED <<clock, ledger, processVars>>

\* The engine's process ends, and its generator and detectors with it.
Stop ==
    /\ engine # Absent
    /\ engine' = Absent
    /\ generator' = NewGenerator
    /\ window' = NewWindow /\ trusted' = NewTrusted /\ findings' = {}
    /\ attempts' = <<>> /\ steady' = TRUE
    /\ UNCHANGED <<keyFile, initPc, initKey, signers, clock, ledger>>

Tick ==
    /\ clock < MaxClock
    /\ clock' = clock + 1
    /\ UNCHANGED <<profileVars, ledger, processVars>>

SetBack ==
    /\ clock' \in 0..(clock - 1)
    /\ steady' = (engine = Absent)
    /\ UNCHANGED <<profileVars, ledger, generator, window, trusted, findings, attempts>>

\* Another process of the profile records a write, in whatever namespace.
OthersAppend ==
    /\ keyFile # Absent /\ Loads(keyFile)
    /\ Len(ledger) < MaxRows
    /\ \E row \in Row : ledger' = Append(ledger, row)
    /\ signers' = signers \cup {keyFile}
    /\ UNCHANGED <<keyFile, initPc, initKey, engine, clock, processVars>>

\* The findings of one inspection.
Inspect(ns, src, v, n) ==
    {f \in Finding :
        /\ f[2] = n
        /\ \/ f[1] = "write_rate" /\ IsBurst(Slide(window[<<ns, src>>], clock))
           \/ f[1] = "drift" /\ FlagsDrift(trusted[ns], src, v)}

\* record_write: the record's id, the detectors, then ledger.append.
RecordWrite(ns, src, text, appended) ==
    /\ engine # Absent
    /\ Len(attempts) < MaxAttempts
    /\ generator' \in uuid7(generator, clock)
    /\ appended => Len(ledger) < MaxRows
    /\ ledger' = IF appended THEN Append(ledger, [src |-> src, text |-> text]) ELSE ledger
    /\ attempts' = Append(attempts, [ns |-> ns, src |-> src, text |-> text, now |-> clock,
                                     row |-> IF appended THEN Len(ledger) + 1 ELSE 0])
    /\ window' = [window EXCEPT ![<<ns, src>>] = Slide(@, clock)]
    /\ trusted' = [trusted EXCEPT ![ns] = Remember(@, src, Embed[text])]
    /\ findings' = findings \cup Inspect(ns, src, Embed[text], Len(attempts) + 1)
    /\ signers' = IF appended THEN signers \cup {engine} ELSE signers
    /\ UNCHANGED <<keyFile, initPc, initKey, engine, clock, steady>>

Next ==
    \/ ProfileStep \/ Stop \/ Tick \/ SetBack \/ OthersAppend
    \/ \E ns \in Namespace, src \in Source, text \in Text, appended \in BOOLEAN :
          RecordWrite(ns, src, text, appended)

Spec == Init /\ [][Next]_vars

-----------------------------------------------------------------------------
\* Ids sort in the order one process minted them, whatever the clock does and
\* when the random field overflows.
IdsIncrease ==
    [][Len(attempts') > Len(attempts) => compose(generator') > compose(generator)]_vars

\* While the clock has not been set back, a write is flagged exactly when its
\* source made more than MaxWrites attempts in its namespace in the window that
\* ends with it.
BurstsAreFlagged ==
    steady => \A i \in 1..Len(attempts) :
        <<"write_rate", i>> \in findings
            <=> Cardinality({j \in 1..i : /\ attempts[j].ns = attempts[i].ns
                                          /\ attempts[j].src = attempts[i].src
                                          /\ attempts[i].now - attempts[j].now
                                                <= WindowSeconds}) > MaxWrites

\* What the detector compared attempt i with: the places of the trusted writes
\* on its topic that this process attempted before it in its namespace.
Remembered(i) ==
    {attempts[j].row : j \in {k \in 1..i : /\ attempts[k].ns = attempts[i].ns
                                           /\ attempts[k].src \in TrustedSource
                                           /\ SameTopic(Embed[attempts[k].text],
                                                        Embed[attempts[i].text])}}

\* What the query compares it with: those of the whole ledger up to its row.
Recorded(i) ==
    {k \in 1..attempts[i].row : /\ ledger[k].src \in TrustedSource
                                /\ SameTopic(Embed[ledger[k].text],
                                             Embed[attempts[i].text])}

\* The detector and the query over the whole ledger, asked about a write's own
\* content when it is the newest row, disagree about that write only if what they
\* compare it with differs: a trusted write on its topic whose append raised, or
\* one in the ledger that is not of this process, namespace and run.
DriftDiffersByMemory ==
    \A i \in 1..Len(attempts) :
        attempts[i].row # 0 /\ Remembered(i) = Recorded(i) =>
            (<<"drift", i>> \in findings
                <=> attempts[i].row \in drift(SubSeq(ledger, 1, attempts[i].row),
                                              attempts[i].text))
=============================================================================
