------------------------------ MODULE ApiKeys -------------------------------
(***************************************************************************)
(* APIKeyManager (internal/auth/keys.go): the key clients must present, as *)
(* the running gateway knows it and as the settings table keeps it, over   *)
(* rotations by several administrators, failing writes, crashes and        *)
(* restarts.  A key stands for its digest.                                 *)
(***************************************************************************)
EXTENDS Integers

CONSTANTS Admins,   \* concurrent rotations from the panel
          Main,     \* the start-up of the process
          MaxKey    \* bound: keys generated

ASSUME ApiKeysAssumption == Main \notin Admins /\ MaxKey \in Nat \ {0}

Callers == Admins \cup {Main}

NoKey == 0
EnvKey == -1   \* the API_KEY of the environment
GeneratedKeys == 1..MaxKey

VARIABLES setting,     \* settings: api_key_hash and api_key_hint
          memory,      \* the manager's hash and hint
          external,    \* the manager's external
          phase,       \* of the process
          pc,          \* where each rotation stands
          plain,       \* the key it generated
          minted,      \* keys generated so far
          shown,       \* history: keys somebody was given
          replaced,    \* history: keys another key has taken over from
          alone,       \* history: no other rotation wrote since this one began to
          overlapped,  \* history: two rotations have written at the same time
          cut          \* history: a rotation that wrote has not shown its key

vars == <<setting, memory, external, phase, pc, plain, minted, shown, replaced, alone,
          overlapped, cut>>

Key(k) == [hash |-> k, hint |-> k]

Init ==
    /\ setting = Key(NoKey)
    /\ memory = Key(NoKey)
    /\ external = FALSE
    /\ phase = "down"
    /\ pc = [c \in Callers |-> "idle"]
    /\ plain = [c \in Callers |-> NoKey]
    /\ minted = 0
    /\ shown = {} /\ replaced = {}
    /\ alone = [c \in Callers |-> FALSE]
    /\ overlapped = FALSE /\ cut = FALSE

Goto(c, label) == pc' = [pc EXCEPT ![c] = label]

\* randomToken.
Generate(c) ==
    /\ minted < MaxKey
    /\ minted' = minted + 1
    /\ plain' = [plain EXCEPT ![c] = minted + 1]
    /\ Goto(c, "hash")

\* A slip: the key of the environment is stored too.
StartExternalStores ==
    /\ phase = "down"
    /\ phase' = "booting"
    /\ external' = TRUE
    /\ memory' = Key(EnvKey)
    /\ setting' = Key(EnvKey)
    /\ UNCHANGED <<pc, plain, minted, shown, replaced, alone, overlapped, cut>>

\* NewAPIKeyManager, given an API_KEY ...
StartExternal ==
    /\ phase = "down"
    /\ phase' = "booting"
    /\ external' = TRUE
    /\ memory' = Key(EnvKey)
    /\ UNCHANGED <<setting, pc, plain, minted, shown, replaced, alone, overlapped, cut>>

\* ... or finding a key in the database ...
StartStored ==
    /\ phase = "down" /\ setting.hash # NoKey
    /\ phase' = "booting"
    /\ memory' = setting
    /\ UNCHANGED <<setting, external, pc, plain, minted, shown, replaced, alone, overlapped, cut>>

\* ... or none: the first key is generated.
StartFresh ==
    /\ phase = "down" /\ setting.hash = NoKey
    /\ phase' = "booting"
    /\ Generate(Main)
    /\ UNCHANGED <<setting, memory, external, shown, replaced, alone, overlapped, cut>>

\* A slip: the generated key is not logged.
NothingGivenAtStart == {}

GivenAtStart == IF pc[Main] = "return" THEN {plain[Main]} ELSE {}

\* The rest of serve(): the generated key is logged, the server listens.
Listen ==
    /\ phase = "booting" /\ pc[Main] \in {"idle", "return"}
    /\ phase' = "up"
    /\ shown' = shown \cup GivenAtStart
    /\ Goto(Main, "idle")
    /\ plain' = [plain EXCEPT ![Main] = NoKey]
    /\ UNCHANGED <<setting, memory, external, minted, replaced, alone, overlapped, cut>>

\* Rotate.
BeginRotate(c) ==
    /\ phase = "up" /\ ~ external /\ pc[c] = "idle"
    /\ Generate(c)
    /\ UNCHANGED <<setting, memory, external, phase, shown, replaced, alone, overlapped, cut>>

Writing(c) == pc[c] \in {"hint", "publish"}

\* A slip: INSERT without ON CONFLICT DO UPDATE.
InsertSetting(column, k) ==
    setting' = [setting EXCEPT ![column] = IF @ = NoKey THEN k ELSE @]

SetSetting(column, k) == setting' = [setting EXCEPT ![column] = k]

\* rotate stores the hash ...
WriteHash(c) ==
    /\ pc[c] = "hash"
    /\ SetSetting("hash", plain[c])
    /\ Goto(c, "hint")
    /\ alone' = [d \in Callers |-> d = c /\ ~ \E e \in Callers : Writing(e)]
    /\ overlapped' = (overlapped \/ \E d \in Callers : Writing(d))
    /\ UNCHANGED <<memory, external, phase, plain, minted, shown, replaced, cut>>

\* A slip: the hint of the running key is stored again.
HintOfRunning(c) == memory.hint

HintOf(c) == plain[c]

\* ... then the hint.
WriteHint(c) ==
    /\ pc[c] = "hint"
    /\ SetSetting("hint", HintOf(c))
    /\ Goto(c, "publish")
    /\ UNCHANGED <<memory, external, phase, plain, minted, shown, replaced, alone, overlapped, cut>>

\* ... and, under the lock, hands both to Authenticate and State.
Publish(c) ==
    /\ pc[c] = "publish"
    /\ memory' = Key(plain[c])
    /\ replaced' = replaced \cup ({memory.hash} \ {NoKey})
    /\ Goto(c, "return")
    /\ UNCHANGED <<setting, external, phase, plain, minted, shown, alone, overlapped, cut>>

\* The answer reaches the administrator ...
Return(c) ==
    /\ c # Main /\ pc[c] = "return"
    /\ shown' = shown \cup {plain[c]}
    /\ Goto(c, "idle")
    /\ plain' = [plain EXCEPT ![c] = NoKey]
    /\ UNCHANGED <<setting, memory, external, phase, minted, replaced, alone, overlapped, cut>>

\* ... or is lost, or a write has failed.
GiveUp(c) ==
    /\ c # Main /\ pc[c] \in {"hash", "hint", "return"}
    /\ cut' = (cut \/ pc[c] # "hash")
    /\ Goto(c, "idle")
    /\ plain' = [plain EXCEPT ![c] = NoKey]
    /\ UNCHANGED <<setting, memory, external, phase, minted, shown, replaced, alone, overlapped>>

\* The process ends: a start-up that failed, a crash, a shutdown.
Stop ==
    /\ phase # "down"
    /\ phase' = "down"
    /\ memory' = Key(NoKey)
    /\ external' = FALSE
    /\ cut' = (cut \/ \E c \in Callers : Writing(c) \/ pc[c] = "return")
    /\ pc' = [c \in Callers |-> "idle"]
    /\ plain' = [c \in Callers |-> NoKey]
    /\ alone' = [c \in Callers |-> FALSE]
    /\ UNCHANGED <<setting, minted, shown, replaced, overlapped>>

Next ==
    \/ StartExternal \/ StartStored \/ StartFresh \/ Listen \/ Stop
    \/ \E c \in Admins : BeginRotate(c)
    \/ \E c \in Callers :
          WriteHash(c) \/ WriteHint(c) \/ Publish(c) \/ Return(c) \/ GiveUp(c)

Spec == Init /\ [][Next]_vars

-----------------------------------------------------------------------------
(* Properties *)

TypeOK ==
    /\ setting \in [hash : GeneratedKeys \cup {NoKey}, hint : GeneratedKeys \cup {NoKey}]
    /\ memory \in [hash : GeneratedKeys \cup {NoKey, EnvKey},
                   hint : GeneratedKeys \cup {NoKey, EnvKey}]
    /\ external \in BOOLEAN
    /\ phase \in {"down", "booting", "up"}
    /\ pc \in [Callers -> {"idle", "hash", "hint", "publish", "return"}]
    /\ plain \in [Callers -> GeneratedKeys \cup {NoKey}]
    /\ minted \in 0..MaxKey
    /\ shown \subseteq GeneratedKeys
    /\ replaced \subseteq GeneratedKeys
    /\ alone \in [Callers -> BOOLEAN]
    /\ overlapped \in BOOLEAN /\ cut \in BOOLEAN

\* A rotation that no other crossed leaves in the database what the gateway
\* now accepts and shows, so that a restart keeps it (keys.go:101).
LoneRotationIsKept ==
    [][\A c \in Callers : Publish(c) /\ alone[c] => setting' = memory']_vars

\* Over restarts and failures, a key another one has replaced is not accepted
\* again, unless two rotations wrote at the same time (keys.go:101, 107).
ReplacedKeyStaysDead ==
    phase # "down" /\ ~ external /\ ~ overlapped => memory.hash \notin replaced

\* The running gateway accepts a key somebody was given, or is about to be,
\* unless a rotation was cut short after it had written (keys.go:101).
AcceptedKeyIsKnown ==
    phase = "up" /\ ~ external /\ ~ cut =>
        memory.hash \in shown \cup {plain[c] : c \in {d \in Callers : pc[d] = "return"}}
=============================================================================
