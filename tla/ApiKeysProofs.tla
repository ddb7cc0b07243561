--------------------------- MODULE ApiKeysProofs ----------------------------
(***************************************************************************)
(* For any number of administrators and keys: a rotation no other crossed  *)
(* survives a restart, a replaced key stays dead, and the gateway accepts  *)
(* only a key somebody was given.                                          *)
(***************************************************************************)
EXTENDS ApiKeys, TLAPS

\* A key is on its way to the tables and has not been accepted yet.
Unpublished(c) == pc[c] \in {"hash", "hint", "publish"}

\* Who may be at work in which phase of the process.
PhaseInv ==
    /\ phase = "down" => /\ memory = Key(NoKey) /\ ~ external
                         /\ \A c \in Callers : pc[c] = "idle"
    /\ phase = "booting" => \A c \in Admins : pc[c] = "idle"
    /\ phase = "booting" /\ ~ external /\ pc[Main] \in {"idle", "return"} => memory.hash # NoKey
    /\ phase = "up" => pc[Main] = "idle"
    /\ phase = "up" /\ ~ external => memory.hash # NoKey
    /\ external => \A c \in Callers : pc[c] = "idle"
    /\ memory.hash = EnvKey => external
    /\ \A c \in Callers : pc[c] # "idle" => plain[c] # NoKey

\* A key that was generated last is unlike every key in use.
FreshInv ==
    /\ setting.hash <= minted /\ memory.hash <= minted
    /\ \A k \in replaced : k <= minted
    /\ \A c \in Callers : plain[c] <= minted
    /\ \A c \in Callers : Unpublished(c) => plain[c] # memory.hash /\ plain[c] \notin replaced
    /\ \A c, d \in Callers : c # d /\ pc[c] # "idle" /\ pc[d] # "idle" => plain[c] # plain[d]

\* What a rotation on its own has stored stays stored.
LoneInv ==
    \A c \in Callers : alone[c] /\ Writing(c) =>
        /\ setting.hash = plain[c]
        /\ pc[c] = "publish" => setting.hint = plain[c]
        /\ \A d \in Callers : Writing(d) => d = c

\* Without overlapping rotations a replaced key is nowhere.
DeadInv ==
    ~ overlapped =>
        /\ setting.hash \notin replaced
        /\ ~ external => memory.hash \notin replaced
        /\ \A c \in Callers : Writing(c) =>
              /\ setting.hash = plain[c]
              /\ \A d \in Callers : Writing(d) => d = c

\* Without a rotation cut short, a stored key is known or about to be.
KnownInv ==
    ~ cut =>
        /\ \/ setting.hash = NoKey \/ setting.hash \in shown
           \/ \E c \in Callers : pc[c] \in {"hint", "publish", "return"} /\ plain[c] = setting.hash
        /\ \/ external \/ memory.hash = NoKey \/ memory.hash \in shown
           \/ \E c \in Callers : pc[c] = "return" /\ plain[c] = memory.hash

IInv == TypeOK /\ PhaseInv /\ FreshInv /\ LoneInv /\ DeadInv /\ KnownInv

Keys == GeneratedKeys \cup {NoKey}

LEMMA KeyNumbers ==
    /\ NoKey \notin GeneratedKeys /\ EnvKey \notin GeneratedKeys /\ EnvKey # NoKey
    /\ Keys \subseteq Int /\ EnvKey \in Int /\ GeneratedKeys \subseteq Int
    /\ MaxKey \in Nat /\ Main \in Callers /\ Admins \subseteq Callers /\ Main \notin Admins
BY ApiKeysAssumption DEF Keys, GeneratedKeys, NoKey, EnvKey, Callers

\* The row a statement of SetSetting leaves, and the one it does not name.
LEMMA SettingHash ==
    ASSUME TypeOK, NEW k \in Keys, SetSetting("hash", k)
    PROVE  setting' = [hash |-> k, hint |-> setting.hint] /\ setting'.hash = k
           /\ setting'.hint = setting.hint
BY DEF TypeOK, SetSetting, Keys

LEMMA SettingHint ==
    ASSUME TypeOK, NEW k \in Keys, SetSetting("hint", k)
    PROVE  setting' = [hash |-> setting.hash, hint |-> k] /\ setting'.hash = setting.hash
           /\ setting'.hint = k
BY DEF TypeOK, SetSetting, Keys

LEMMA InitInv == Init => IInv
<1> SUFFICES ASSUME Init PROVE IInv
  OBVIOUS
<1>1. TypeOK
  <2>1. Key(NoKey) \in [hash : Keys, hint : Keys]
    BY DEF Key, Keys
  <2>2. minted \in 0..MaxKey
    BY KeyNumbers DEF Init
  <2> QED
    BY <2>1, <2>2 DEF Init, TypeOK, Keys, Key
<1>2. PhaseInv /\ FreshInv /\ LoneInv
  BY KeyNumbers DEF Init, PhaseInv, FreshInv, LoneInv, Key, Unpublished, Writing, NoKey, EnvKey
<1>3. DeadInv /\ KnownInv
  BY DEF Init, DeadInv, KnownInv, Key, Writing
<1> QED
  BY <1>1, <1>2, <1>3 DEF IInv

\* Every step keeps the types.
LEMMA TypeStep == IInv /\ [Next]_vars => TypeOK'
<1> SUFFICES ASSUME IInv, [Next]_vars PROVE TypeOK'
  OBVIOUS
<1> USE KeyNumbers DEF IInv, TypeOK, Key, Keys
<1>1. CASE StartExternal
  BY <1>1 DEF StartExternal
<1>2. CASE StartStored
  BY <1>2 DEF StartStored
<1>3. CASE StartFresh
  BY <1>3 DEF StartFresh, Generate, Goto, GeneratedKeys
<1>4. CASE Listen
  BY <1>4, ZenonT(30) DEF Listen, Goto, GivenAtStart, PhaseInv
<1>5. CASE Stop
  BY <1>5 DEF Stop
<1>6. ASSUME NEW c \in Admins, BeginRotate(c) PROVE TypeOK'
  BY <1>6 DEF BeginRotate, Generate, Goto, GeneratedKeys
<1>7. ASSUME NEW c \in Callers, WriteHash(c) PROVE TypeOK'
  BY <1>7, SettingHash DEF WriteHash, Goto, Writing
<1>8. ASSUME NEW c \in Callers, WriteHint(c) PROVE TypeOK'
  BY <1>8, SettingHint DEF WriteHint, Goto, HintOf
<1>9. ASSUME NEW c \in Callers, Publish(c) PROVE TypeOK'
  BY <1>9 DEF Publish, Goto, PhaseInv
<1>10. ASSUME NEW c \in Callers, Return(c) PROVE TypeOK'
  BY <1>10, ZenonT(30) DEF Return, Goto, PhaseInv
<1>11. ASSUME NEW c \in Callers, GiveUp(c) PROVE TypeOK'
  BY <1>11 DEF GiveUp, Goto
<1>12. CASE UNCHANGED vars
  BY <1>12 DEF vars
<1> QED
  BY <1>1, <1>2, <1>3, <1>4, <1>5, <1>6, <1>7, <1>8, <1>9, <1>10, <1>11, <1>12 DEF Next

\* The phase of the process and who is at work stay in step.
LEMMA PhaseStep == IInv /\ [Next]_vars => PhaseInv'
<1> SUFFICES ASSUME IInv, [Next]_vars PROVE PhaseInv'
  OBVIOUS
<1> USE KeyNumbers DEF IInv, TypeOK, Keys, PhaseInv, Key
<1>1. CASE StartExternal
  BY <1>1 DEF StartExternal, Callers, NoKey, EnvKey
<1>2. CASE StartStored
  BY <1>2 DEF StartStored, NoKey, EnvKey
<1>3. CASE StartFresh
  BY <1>3 DEF StartFresh, Generate, Goto, Callers, GeneratedKeys, NoKey, EnvKey
<1>4. CASE Listen
  BY <1>4 DEF Listen, Goto, GivenAtStart, Callers, NoKey, EnvKey
<1>5. CASE Stop
  BY <1>5 DEF Stop, NoKey, EnvKey
<1>6. ASSUME NEW c \in Admins, BeginRotate(c) PROVE PhaseInv'
  BY <1>6 DEF BeginRotate, Generate, Goto, GeneratedKeys, NoKey
<1>7. ASSUME NEW c \in Callers, WriteHash(c) PROVE PhaseInv'
  BY <1>7, SettingHash DEF WriteHash, Goto, Writing
<1>8. ASSUME NEW c \in Callers, WriteHint(c) PROVE PhaseInv'
  BY <1>8, SettingHint DEF WriteHint, Goto, HintOf, Writing
<1>9. ASSUME NEW c \in Callers, Publish(c) PROVE PhaseInv'
  BY <1>9 DEF Publish, Goto, NoKey, EnvKey
<1>10. ASSUME NEW c \in Callers, Return(c) PROVE PhaseInv'
  BY <1>10 DEF Return, Goto, NoKey
<1>11. ASSUME NEW c \in Callers, GiveUp(c) PROVE PhaseInv'
  BY <1>11 DEF GiveUp, Goto, NoKey
<1>12. CASE UNCHANGED vars
  BY <1>12 DEF vars
<1> QED
  BY <1>1, <1>2, <1>3, <1>4, <1>5, <1>6, <1>7, <1>8, <1>9, <1>10, <1>11, <1>12 DEF Next

\* A key not accepted yet stays unlike the keys in use.
LEMMA FreshStep == IInv /\ [Next]_vars => FreshInv'
<1> SUFFICES ASSUME IInv, [Next]_vars PROVE FreshInv'
  OBVIOUS
<1> USE KeyNumbers DEF IInv, TypeOK, Keys, FreshInv, Unpublished, Key
<1>1. CASE StartExternal
  BY <1>1 DEF StartExternal, PhaseInv, Callers, NoKey, EnvKey
<1>2. CASE StartStored
  BY <1>2 DEF StartStored, PhaseInv, NoKey, EnvKey
<1>3. CASE StartFresh
  BY <1>3 DEF StartFresh, Generate, Goto, PhaseInv, Callers, GeneratedKeys, NoKey, EnvKey
<1>4. CASE Listen
  BY <1>4 DEF Listen, Goto, GivenAtStart, PhaseInv, Callers, NoKey, EnvKey
<1>5. CASE Stop
  BY <1>5 DEF Stop, NoKey, EnvKey
<1>6. ASSUME NEW c \in Admins, BeginRotate(c) PROVE FreshInv'
  BY <1>6 DEF BeginRotate, Generate, Goto, PhaseInv, GeneratedKeys, NoKey
<1>7. ASSUME NEW c \in Callers, WriteHash(c) PROVE FreshInv'
  BY <1>7, SettingHash DEF WriteHash, Goto, PhaseInv, Writing
<1>8. ASSUME NEW c \in Callers, WriteHint(c) PROVE FreshInv'
  BY <1>8, SettingHint DEF WriteHint, Goto, HintOf, PhaseInv, Writing
<1>9. ASSUME NEW c \in Callers, Publish(c) PROVE FreshInv'
  BY <1>9 DEF Publish, Goto, PhaseInv, NoKey, EnvKey
<1>10. ASSUME NEW c \in Callers, Return(c) PROVE FreshInv'
  BY <1>10 DEF Return, Goto, PhaseInv, NoKey
<1>11. ASSUME NEW c \in Callers, GiveUp(c) PROVE FreshInv'
  BY <1>11 DEF GiveUp, Goto, PhaseInv, NoKey
<1>12. CASE UNCHANGED vars
  BY <1>12 DEF vars
<1> QED
  BY <1>1, <1>2, <1>3, <1>4, <1>5, <1>6, <1>7, <1>8, <1>9, <1>10, <1>11, <1>12 DEF Next

\* A rotation on its own keeps what it stored.
LEMMA LoneStep == IInv /\ [Next]_vars => LoneInv'
<1> SUFFICES ASSUME IInv, [Next]_vars PROVE LoneInv'
  OBVIOUS
<1> USE KeyNumbers DEF IInv, TypeOK, Keys, LoneInv, Writing, Key
<1>1. CASE StartExternal
  BY <1>1 DEF StartExternal, PhaseInv, Callers, NoKey, EnvKey
<1>2. CASE StartStored
  BY <1>2 DEF StartStored, PhaseInv, NoKey, EnvKey
<1>3. CASE StartFresh
  BY <1>3 DEF StartFresh, Generate, Goto, PhaseInv, Callers, GeneratedKeys, NoKey, EnvKey
<1>4. CASE Listen
  BY <1>4 DEF Listen, Goto, GivenAtStart, PhaseInv, Callers, NoKey, EnvKey
<1>5. CASE Stop
  BY <1>5 DEF Stop, NoKey, EnvKey
<1>6. ASSUME NEW c \in Admins, BeginRotate(c) PROVE LoneInv'
  BY <1>6 DEF BeginRotate, Generate, Goto, PhaseInv, GeneratedKeys, NoKey
<1>7. ASSUME NEW c \in Callers, WriteHash(c) PROVE LoneInv'
  BY <1>7, SettingHash DEF WriteHash, Goto, PhaseInv, Writing
<1>8. ASSUME NEW c \in Callers, WriteHint(c) PROVE LoneInv'
  BY <1>8, SettingHint DEF WriteHint, Goto, HintOf, PhaseInv, Writing
<1>9. ASSUME NEW c \in Callers, Publish(c) PROVE LoneInv'
  BY <1>9 DEF Publish, Goto, PhaseInv, NoKey, EnvKey
<1>10. ASSUME NEW c \in Callers, Return(c) PROVE LoneInv'
  BY <1>10 DEF Return, Goto, PhaseInv, NoKey
<1>11. ASSUME NEW c \in Callers, GiveUp(c) PROVE LoneInv'
  BY <1>11 DEF GiveUp, Goto, PhaseInv, NoKey
<1>12. CASE UNCHANGED vars
  BY <1>12 DEF vars, Writing
<1> QED
  BY <1>1, <1>2, <1>3, <1>4, <1>5, <1>6, <1>7, <1>8, <1>9, <1>10, <1>11, <1>12 DEF Next

\* No step brings a replaced key back, as long as no two rotations overlap.
LEMMA DeadStep == IInv /\ [Next]_vars => DeadInv'
<1> SUFFICES ASSUME IInv, [Next]_vars PROVE DeadInv'
  OBVIOUS
<1> USE KeyNumbers DEF IInv, TypeOK, Keys, DeadInv, Writing, Key
<1>1. CASE StartExternal
  BY <1>1 DEF StartExternal, PhaseInv, Callers, NoKey, EnvKey
<1>2. CASE StartStored
  BY <1>2 DEF StartStored, PhaseInv, NoKey, EnvKey
<1>3. CASE StartFresh
  BY <1>3 DEF StartFresh, Generate, Goto, PhaseInv, Callers, GeneratedKeys, NoKey, EnvKey
<1>4. CASE Listen
  BY <1>4 DEF Listen, Goto, GivenAtStart, PhaseInv, Callers, NoKey, EnvKey
<1>5. CASE Stop
  BY <1>5 DEF Stop, NoKey, EnvKey
<1>6. ASSUME NEW c \in Admins, BeginRotate(c) PROVE DeadInv'
  BY <1>6 DEF BeginRotate, Generate, Goto, PhaseInv, GeneratedKeys, NoKey
<1>7. ASSUME NEW c \in Callers, WriteHash(c) PROVE DeadInv'
  <2> SUFFICES ASSUME ~ overlapped' PROVE DeadInv'
    BY DEF DeadInv
  <2>1. \A d \in Callers : ~ Writing(d)
    BY <1>7 DEF WriteHash
  <2>2. \A d \in Callers : Writing(d)' => d = c
    BY <1>7, <2>1 DEF WriteHash, Goto, Writing
  <2>3. setting'.hash = plain[c] /\ plain[c] \notin replaced
    BY <1>7, SettingHash DEF WriteHash, FreshInv, Unpublished
  <2>4. ~ overlapped
    BY <1>7 DEF WriteHash
  <2> QED
    BY <1>7, <2>2, <2>3, <2>4 DEF WriteHash
<1>8. ASSUME NEW c \in Callers, WriteHint(c) PROVE DeadInv'
  BY <1>8, SettingHint DEF WriteHint, Goto, HintOf, PhaseInv, Writing
<1>9. ASSUME NEW c \in Callers, Publish(c) PROVE DeadInv'
  BY <1>9 DEF Publish, Goto, PhaseInv, FreshInv, Unpublished, NoKey, EnvKey
<1>10. ASSUME NEW c \in Callers, Return(c) PROVE DeadInv'
  BY <1>10 DEF Return, Goto, PhaseInv, NoKey
<1>11. ASSUME NEW c \in Callers, GiveUp(c) PROVE DeadInv'
  BY <1>11 DEF GiveUp, Goto, PhaseInv, NoKey
<1>12. CASE UNCHANGED vars
  BY <1>12 DEF vars, Writing
<1> QED
  BY <1>1, <1>2, <1>3, <1>4, <1>5, <1>6, <1>7, <1>8, <1>9, <1>10, <1>11, <1>12 DEF Next

\* No step stores or accepts a key nobody is given.
LEMMA KnownStep == IInv /\ [Next]_vars => KnownInv'
<1> SUFFICES ASSUME IInv, [Next]_vars PROVE KnownInv'
  OBVIOUS
<1> USE KeyNumbers DEF IInv, TypeOK, Keys, KnownInv, Key
<1>1. CASE StartExternal
  BY <1>1 DEF StartExternal, PhaseInv, Callers, NoKey, EnvKey
<1>2. CASE StartStored
  BY <1>2 DEF StartStored, PhaseInv, NoKey, EnvKey
<1>3. CASE StartFresh
  BY <1>3 DEF StartFresh, Generate, Goto, PhaseInv, Callers, GeneratedKeys, NoKey, EnvKey
<1>4. CASE Listen
  BY <1>4 DEF Listen, Goto, GivenAtStart, PhaseInv, Callers, NoKey, EnvKey
<1>5. CASE Stop
  BY <1>5 DEF Stop, Writing, NoKey, EnvKey
<1>6. ASSUME NEW c \in Admins, BeginRotate(c) PROVE KnownInv'
  BY <1>6 DEF BeginRotate, Generate, Goto, PhaseInv, GeneratedKeys, NoKey
<1>7. ASSUME NEW c \in Callers, WriteHash(c) PROVE KnownInv'
  BY <1>7, SettingHash DEF WriteHash, Goto, PhaseInv, Writing
<1>8. ASSUME NEW c \in Callers, WriteHint(c) PROVE KnownInv'
  BY <1>8, SettingHint DEF WriteHint, Goto, HintOf, PhaseInv, Writing
<1>9. ASSUME NEW c \in Callers, Publish(c) PROVE KnownInv'
  BY <1>9 DEF Publish, Goto, PhaseInv, NoKey, EnvKey
<1>10. ASSUME NEW c \in Callers, Return(c) PROVE KnownInv'
  BY <1>10 DEF Return, Goto, PhaseInv, NoKey
<1>11. ASSUME NEW c \in Callers, GiveUp(c) PROVE KnownInv'
  BY <1>11 DEF GiveUp, Goto, PhaseInv, NoKey
<1>12. CASE UNCHANGED vars
  BY <1>12 DEF vars
<1> QED
  BY <1>1, <1>2, <1>3, <1>4, <1>5, <1>6, <1>7, <1>8, <1>9, <1>10, <1>11, <1>12 DEF Next

LEMMA Induction == Spec => []IInv
<1>1. IInv /\ [Next]_vars => IInv'
  BY TypeStep, PhaseStep, FreshStep, LoneStep, DeadStep, KnownStep DEF IInv
<1> QED
  BY InitInv, <1>1, PTL DEF Spec

\* The stored and running keys, the rotations and the histories keep their
\* types: an environment key in particular never reaches the table.
THEOREM TypeCorrect == Spec => []TypeOK
<1>1. IInv => TypeOK
  BY DEF IInv
<1> QED
  BY Induction, <1>1, PTL

\* A rotation no other crossed leaves in the settings table what the gateway
\* accepts and shows.
THEOREM LoneRotationSurvives == Spec => LoneRotationIsKept
<1>1. IInv /\ [Next]_vars => [\A c \in Callers : Publish(c) /\ alone[c] => setting' = memory']_vars
  <2> SUFFICES ASSUME IInv, NEW c \in Callers, Publish(c), alone[c]
               PROVE  setting' = memory'
    OBVIOUS
  <2>1. setting = [hash |-> plain[c], hint |-> plain[c]]
    BY DEF IInv, TypeOK, LoneInv, Publish, Writing
  <2> QED
    BY <2>1 DEF Publish, Key
<1> QED
  BY Induction, <1>1, PTL DEF Spec, LoneRotationIsKept

\* Over restarts, crashes and failing writes, a replaced key is not accepted
\* again unless two rotations wrote at the same time.
THEOREM NoKeyComesBack == Spec => []ReplacedKeyStaysDead
<1>1. IInv => ReplacedKeyStaysDead
  BY DEF IInv, DeadInv, ReplacedKeyStaysDead
<1> QED
  BY Induction, <1>1, PTL

\* Unless a rotation was cut short after it wrote, the gateway accepts a key
\* somebody was given or is being given.
THEOREM SomebodyHoldsTheKey == Spec => []AcceptedKeyIsKnown
<1>1. IInv => AcceptedKeyIsKnown
  BY DEF IInv, PhaseInv, KnownInv, AcceptedKeyIsKnown
<1> QED
  BY Induction, <1>1, PTL
=============================================================================
