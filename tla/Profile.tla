------------------------------ MODULE Profile ------------------------------
(***************************************************************************)
(* The profile directory (cli.py init and _open, crypto/keys.py): a key    *)
(* file beside the ledger.  init may stop between any two of its calls and *)
(* be run again; one init runs at a time.  Of the ledger only the keys its *)
(* rows are signed with are kept; that its schema is created by whoever    *)
(* opens it first is module Ledger's.                                      *)
(***************************************************************************)
EXTENDS FiniteSets

CONSTANTS
    Key,      \* the signing keys that may be generated
    Absent,   \* no such file, no key in hand
    Empty     \* the key file between os.open and os.write

ASSUME KeyAssumption == Absent \notin Key /\ Empty \notin Key /\ Absent # Empty

VARIABLES
    keyFile,          \* what key_path holds
    initPc, initKey,  \* the init command: its next call, its fresh key
    engine,           \* the key an open engine signs with
    signers           \* the keys the rows of the ledger are signed with

profileVars == <<keyFile, initPc, initKey, engine, signers>>

ProfileTypeOK ==
    /\ keyFile \in Key \cup {Absent, Empty}
    /\ initPc \in {"idle", "create", "write"}
    /\ initKey \in Key \cup {Absent} /\ (initKey = Absent <=> initPc = "idle")
    /\ engine \in Key \cup {Absent}
    /\ signers \subseteq Key

ProfileInit ==
    /\ keyFile = Absent /\ initPc = "idle" /\ initKey = Absent
    /\ engine = Absent /\ signers = {}

\* keys.generate: a key nobody had before.
Generated == Key \ (signers \cup {keyFile})

\* Mutant: init does not look whether the profile is there.
InitChecksNothing ==
    /\ initPc = "idle"
    /\ \E k \in Generated : initKey' = k
    /\ initPc' = "create"
    /\ UNCHANGED <<keyFile, engine, signers>>

\* init: "already initialized" when the key file exists, else a fresh key.
InitGenerates ==
    /\ initPc = "idle"
    /\ keyFile = Absent
    /\ \E k \in Generated : initKey' = k
    /\ initPc' = "create"
    /\ UNCHANGED <<keyFile, engine, signers>>

\* keys.save: os.open with O_CREAT | O_TRUNC.
InitCreates ==
    /\ initPc = "create"
    /\ keyFile' = Empty
    /\ initPc' = "write"
    /\ UNCHANGED <<initKey, engine, signers>>

\* keys.save: os.write, in one piece, and the mode of the file; the ledger's
\* schema follows.
InitWrites ==
    /\ initPc = "write"
    /\ keyFile' = initKey
    /\ initPc' = "idle" /\ initKey' = Absent
    /\ UNCHANGED <<engine, signers>>

InitStops ==
    /\ initPc # "idle"
    /\ initPc' = "idle" /\ initKey' = Absent
    /\ UNCHANGED <<keyFile, engine, signers>>

\* keys.load raises on a key file that is not complete.
Loads(k) == k \in Key

\* _open: exits without a key file.
Open ==
    /\ engine = Absent
    /\ keyFile # Absent /\ Loads(keyFile)
    /\ engine' = keyFile
    /\ UNCHANGED <<keyFile, initPc, initKey, signers>>

\* One signing key for the whole ledger, the one every command loads: no order
\* of init, its crashes and its reruns leaves rows that verify no longer checks.
KeySignsLedger == signers # {} => signers = {keyFile}
=============================================================================
