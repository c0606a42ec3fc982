-------------------------- MODULE TmuxSessionsProofs --------------------------
(* Safety of TmuxSessions, for any invocations, directories, slugs, agents  *)
(* and prefixes among slugs.                                                *)
EXTENDS TmuxSessions, FiniteSetTheorems, TLAPS

(* A run that is about to use its target has one of a kind that its command *)
(* makes.                                                                  *)
Aims(r) ==
  /\ at[r] \in {"ensure", "check", "create"} => target[r] \in [agent : Agents, slug : Slugs]
  /\ at[r] = "resolve" => slug[r] \in Slugs
  /\ at[r] = "act" => target[r].slug \in Slugs

AimOK == \A r \in Runs : Aims(r)

(* Until two launches race, a run that is about to make a window is the    *)
(* only one to make it, and there is none of that name.                    *)
AloneOK == ~raced =>
  \A r \in Runs : at[r] = "create" =>
    /\ Named(target[r]) = {}
    /\ \A q \in Runs : at[q] = "create" /\ target[q] = target[r] => q = r

IInv == TypeOK /\ AimOK /\ AloneOK /\ NeverTwice

-----------------------------------------------------------------------------
(* The names of agents' windows, and that no one of them is the shell's. *)
LEMMA AgentNames ==
  ASSUME NEW a \in Agents \union {None}, NEW s \in Slugs
  PROVE  /\ Name(a, s) \in Names
         /\ a \in Agents => Name(a, s) \in [agent : Agents, slug : Slugs]
         /\ Name(a, s).agent = a /\ Name(a, s).slug = s
BY DEF Name, Names

LEMMA NoShell ==
  ASSUME NEW n \in Names, n.slug \in Slugs
  PROVE  n # NoName
<1>1. NoName.slug = Shell /\ Shell \notin Slugs
  BY TmuxAssumption DEF NoName
<1> QED
  BY <1>1

(* tmux takes a name for windows there are. *)
LEMMA TargetOpen ==
  ASSUME NEW n \in Names
  PROVE  Target(n) \subseteq windows
BY DEF Target, Unique, Named, Longer

(* Without a race, tmux finds a window by its name. *)
LEMMA FindsByName ==
  ASSUME TypeOK, NeverTwice, ~raced, NEW n \in Names, n # NoName, Named(n) # {}
  PROVE  Target(n) = Named(n)
<1>1. PICK w : Named(n) = {w}
  BY DEF NeverTwice, Named
<1>2. Cardinality(Named(n)) = 1
  BY <1>1, FS_Singleton
<1> QED
  BY <1>2 DEF Target, Unique

(* Initially no run has aimed at anything. *)
LEMMA InitInv == Init => IInv
<1> SUFFICES ASSUME Init PROVE IInv
  OBVIOUS
<1> DEFINE WindowsOK ==
      /\ windows \subseteq Windows /\ IsFiniteSet(windows) /\ count \in Nat
      /\ \A w \in windows : w.id <= count
<1>1. WindowsOK
  <2>1. CASE windows = {} /\ count = 0
    BY <2>1, FS_EmptySet
  <2>2. ASSUME NEW d \in Dirs, count = 1,
               windows = {[id |-> 1, name |-> Name(None, SlugOf[d]), dir |-> d]}
        PROVE  WindowsOK
    <3>1. SlugOf[d] \in Slugs
      BY TmuxAssumption
    <3>2. [id |-> 1, name |-> Name(None, SlugOf[d]), dir |-> d] \in Windows
      BY <3>1 DEF Windows, Names, Name
    <3>3. IsFiniteSet(windows)
      BY <2>2, FS_Singleton
    <3> QED
      BY <2>2, <3>2, <3>3
  <2> QED
    BY <2>1, <2>2 DEF Init
<1>2. TypeOK
  BY <1>1, TmuxAssumption
     DEF Init, TypeOK, Places, Names, Windows, NoName, NoWindow
<1>3. AimOK /\ AloneOK
  BY DEF Init, AimOK, Aims, AloneOK
<1>4. NeverTwice
  BY DEF Init, NeverTwice
<1> QED
  BY <1>2, <1>3, <1>4 DEF IInv

(* A window that is opened is a window, and its number is new. *)
LEMMA OpensType ==
  ASSUME TypeOK, NEW n \in Names, NEW d \in Dirs \union {None}, Opens(n, d)
  PROVE  /\ windows' \subseteq Windows /\ IsFiniteSet(windows')
         /\ count' \in Nat /\ \A w \in windows' : w.id <= count'
<1>1. IsFiniteSet(windows')
  BY FS_AddElement DEF Opens, TypeOK
<1>2. \A w \in windows : w.id \in Nat
  BY DEF TypeOK, Windows
<1> QED
  BY <1>1, <1>2 DEF Opens, TypeOK, Windows

(* Every step keeps the types. *)
LEMMA NextType == TypeOK /\ AimOK /\ [Next]_vars => TypeOK'
<1> SUFFICES ASSUME TypeOK, AimOK, [Next]_vars PROVE TypeOK'
  OBVIOUS
<1> USE TmuxAssumption DEF TypeOK, Goes, Places, args
<1>1. ASSUME NEW r \in Runs, NEW d \in Dirs, NEW a \in Agents \union {Unknown},
             Launch(r, d, a)
      PROVE  TypeOK'
  <2>1. SlugOf[d] \in Slugs
    BY TmuxAssumption
  <2>2. CASE a \in Agents
    BY <1>1, <2>1, <2>2, AgentNames DEF Launch
  <2>3. CASE a \notin Agents
    BY <1>1, <2>1, <2>3 DEF Launch
  <2> QED
    BY <2>2, <2>3
<1>2. ASSUME NEW r \in Runs, Ensure(r) PROVE TypeOK'
  <2>1. CASE windows = {}
    <3>1. Opens(NoName, None) /\ NoName \in Names
      BY <1>2, <2>1 DEF Ensure, NoName, Names
    <3> QED
      BY <1>2, <3>1, OpensType DEF Ensure
  <2>2. CASE windows # {}
    BY <1>2, <2>2 DEF Ensure
  <2> QED
    BY <2>1, <2>2
<1>3. ASSUME NEW r \in Runs, Check(r) PROVE TypeOK'
  <2>1. Target(target[r]) \subseteq Windows
    BY TargetOpen
  <2>2. raced' \in BOOLEAN
    BY <1>3 DEF Check
  <2> QED
    BY <1>3, <2>1, <2>2 DEF Check
<1>4. ASSUME NEW r \in Runs, Create(r) PROVE TypeOK'
  <2>1. CASE windows = {}
    BY <1>4, <2>1 DEF Create
  <2>2. CASE windows # {}
    <3>1. Opens(target[r], dir[r])
      BY <1>4, <2>2 DEF Create
    <3> QED
      BY <1>4, <3>1, OpensType DEF Create
  <2> QED
    BY <2>1, <2>2
<1>5. ASSUME NEW r \in Runs, NEW c \in {"kill", "attach"}, NEW s \in Slugs,
             NEW a \in Agents \union {Unknown, None}, Aim(r, c, s, a)
      PROVE  TypeOK'
  <2>1. CASE a \in Agents
    BY <1>5, <2>1, AgentNames DEF Aim
  <2>2. CASE a \notin Agents
    BY <1>5, <2>2 DEF Aim
  <2> QED
    BY <2>1, <2>2
<1>6. ASSUME NEW r \in Runs, Resolve(r) PROVE TypeOK'
  <2>1. Name(None, slug[r]) \in Names /\ Name(Default, slug[r]) \in Names
    BY <1>6, AgentNames DEF Resolve, AimOK, Aims
  <2> QED
    BY <1>6, <2>1 DEF Resolve
<1>7. ASSUME NEW r \in Runs, Kill(r) PROVE TypeOK'
  <2>1. IsFiniteSet(windows')
    BY <1>7, FS_Subset DEF Kill
  <2> QED
    BY <1>7, <2>1 DEF Kill
<1>8. ASSUME NEW r \in Runs, Attach(r) PROVE TypeOK'
  <2>1. Target(target[r]) \subseteq Windows
    BY TargetOpen
  <2> QED
    BY <1>8, <2>1 DEF Attach
<1>9. ASSUME NEW r \in Runs, Menu(r) PROVE TypeOK'
  BY <1>9 DEF Menu
<1>10. ASSUME NEW r \in Runs, PickRow(r) PROVE TypeOK'
  <2>1. \A w \in rows[r] : w.name.slug \in Slugs \union {Shell}
    BY DEF Windows, Names
  <2> QED
    BY <1>10, <2>1 DEF PickRow
<1>11. CASE Exits
  <2>1. IsFiniteSet(windows')
    BY <1>11, FS_Subset DEF Exits
  <2> QED
    BY <1>11, <2>1 DEF Exits
<1>12. CASE UNCHANGED vars
  BY <1>12 DEF vars
<1> QED
  BY <1>1, <1>2, <1>3, <1>4, <1>5, <1>6, <1>7, <1>8, <1>9, <1>10, <1>11, <1>12 DEF Next

(* Every step leaves a run with a target of its command's kind. *)
LEMMA NextAim == TypeOK /\ AimOK /\ [Next]_vars => AimOK'
<1> SUFFICES ASSUME TypeOK, AimOK, [Next]_vars, NEW q \in Runs PROVE Aims(q)'
  BY DEF AimOK
<1>q. Aims(q)
  BY DEF AimOK
<1> DEFINE Keeps == UNCHANGED <<at[q], agent[q], slug[q], target[q]>>
           Off == at'[q] \notin {"ensure", "check", "create", "resolve", "act"}
<1>k. Keeps => Aims(q)'
  BY <1>q DEF Aims
<1>o. Off => Aims(q)'
  BY DEF Aims
<1> USE DEF TypeOK, Goes, args
<1>1. ASSUME NEW r \in Runs, NEW d \in Dirs, NEW a \in Agents \union {Unknown},
             Launch(r, d, a)
      PROVE  Aims(q)'
  <2>1. SlugOf[d] \in Slugs
    BY TmuxAssumption
  <2>2. CASE r = q /\ a \in Agents
    <3>1. at'[q] = "ensure" /\ target'[q] = Name(a, SlugOf[d])
      BY <1>1, <2>2 DEF Launch
    <3> QED
      BY <2>1, <2>2, <3>1, AgentNames DEF Aims
  <2>3. CASE r = q /\ a \notin Agents
    BY <1>1, <1>o, <2>3 DEF Launch
  <2>4. CASE r # q
    BY <1>1, <1>k, <2>4 DEF Launch
  <2> QED
    BY <2>2, <2>3, <2>4
<1>2. ASSUME NEW r \in Runs, Ensure(r) PROVE Aims(q)'
  BY <1>2, <1>q DEF Ensure, Aims
<1>3. ASSUME NEW r \in Runs, Check(r) PROVE Aims(q)'
  BY <1>3, <1>q DEF Check, Aims
<1>4. ASSUME NEW r \in Runs, Create(r) PROVE Aims(q)'
  BY <1>4, <1>k, <1>o DEF Create
<1>5. ASSUME NEW r \in Runs, NEW c \in {"kill", "attach"}, NEW s \in Slugs,
             NEW a \in Agents \union {Unknown, None}, Aim(r, c, s, a)
      PROVE  Aims(q)'
  <2>1. CASE r = q /\ a \in Agents
    <3>1. at'[q] = "act" /\ target'[q] = Name(a, s)
      BY <1>5, <2>1 DEF Aim
    <3> QED
      BY <2>1, <3>1, AgentNames DEF Aims
  <2>2. CASE r = q /\ a \notin Agents
    <3>1. slug'[q] = s
      BY <1>5, <2>2 DEF Aim
    <3>2. at'[q] = IF a = None THEN "resolve" ELSE "failed"
      BY <1>5, <2>2 DEF Aim
    <3> QED
      BY <3>1, <3>2 DEF Aims
  <2>3. CASE r # q
    BY <1>5, <1>k, <2>3 DEF Aim
  <2> QED
    BY <2>1, <2>2, <2>3
<1>6. ASSUME NEW r \in Runs, Resolve(r) PROVE Aims(q)'
  <2>1. CASE r = q
    <3>1. at'[q] = "act" /\ slug[q] \in Slugs
      BY <1>6, <1>q, <2>1 DEF Resolve, Aims
    <3>2. target'[q] \in {Name(None, slug[q]), Name(Default, slug[q])}
      BY <1>6, <2>1 DEF Resolve
    <3>3. target'[q].slug = slug[q]
      BY <3>1, <3>2, AgentNames, TmuxAssumption
    <3> QED
      BY <3>1, <3>3 DEF Aims
  <2>2. CASE r # q
    BY <1>6, <1>k, <2>2 DEF Resolve
  <2> QED
    BY <2>1, <2>2
<1>7. ASSUME NEW r \in Runs, Kill(r) PROVE Aims(q)'
  BY <1>7, <1>k, <1>o DEF Kill
<1>8. ASSUME NEW r \in Runs, Attach(r) PROVE Aims(q)'
  BY <1>8, <1>k, <1>o DEF Attach
<1>9. ASSUME NEW r \in Runs, Menu(r) PROVE Aims(q)'
  BY <1>9, <1>k, <1>o DEF Menu
<1>10. ASSUME NEW r \in Runs, PickRow(r) PROVE Aims(q)'
  BY <1>10, <1>k, <1>o DEF PickRow
<1>11. CASE Exits
  BY <1>11, <1>k DEF Exits
<1>12. CASE UNCHANGED vars
  BY <1>12, <1>k DEF vars
<1> QED
  BY <1>1, <1>2, <1>3, <1>4, <1>5, <1>6, <1>7, <1>8, <1>9, <1>10, <1>11, <1>12 DEF Next

(* A step after which there are no new windows, and no run is newly about  *)
(* to make one, keeps names unique.                                        *)
LEMMA NothingNew ==
  ASSUME TypeOK, AloneOK, NeverTwice, windows' \subseteq windows, raced' = raced,
         \A r \in Runs : at'[r] = "create" => at[r] = "create" /\ target'[r] = target[r]
  PROVE  AloneOK' /\ NeverTwice'
BY DEF AloneOK, NeverTwice, Named

(* Every step keeps names unique until a race. *)
LEMMA NextAlone == IInv /\ [Next]_vars => AloneOK' /\ NeverTwice'
<1> SUFFICES ASSUME IInv, [Next]_vars PROVE AloneOK' /\ NeverTwice'
  OBVIOUS
<1>t. TypeOK /\ AimOK /\ AloneOK /\ NeverTwice
  BY DEF IInv
<1> DEFINE NoNews ==
      /\ windows' \subseteq windows /\ raced' = raced
      /\ \A r \in Runs : at'[r] = "create" => at[r] = "create" /\ target'[r] = target[r]
<1> USE DEF Goes, args
<1>1. ASSUME NEW r \in Runs, NEW d \in Dirs, NEW a \in Agents \union {Unknown},
             Launch(r, d, a)
      PROVE  NoNews
  BY <1>1, <1>t DEF Launch, TypeOK
<1>2. ASSUME NEW r \in Runs, Ensure(r) PROVE AloneOK' /\ NeverTwice'
  <2>1. CASE windows = {}
    <3>1. \A w \in windows' : w.name = NoName
      BY <1>2, <2>1 DEF Ensure, Opens
    <3>2. \A q \in Runs : at'[q] = "create" => at[q] = "create" /\ target[q].slug # Shell
      BY <1>2, <1>t, TmuxAssumption DEF Ensure, TypeOK, AimOK, Aims
    <3>3. NeverTwice'
      BY <3>1 DEF NeverTwice
    <3>4. AloneOK'
      BY <1>2, <1>t, <3>1, <3>2 DEF AloneOK, Named, Ensure, NoName
    <3> QED
      BY <3>3, <3>4
  <2>2. CASE windows # {}
    <3>1. NoNews
      BY <1>2, <1>t, <2>2 DEF Ensure, TypeOK
    <3> QED
      BY <3>1, <1>t, NothingNew
  <2> QED
    BY <2>1, <2>2
<1>3. ASSUME NEW r \in Runs, Check(r) PROVE AloneOK' /\ NeverTwice'
  <2>1. CASE Target(target[r]) # {}
    <3>1. NoNews
      BY <1>3, <1>t, <2>1 DEF Check, TypeOK
    <3> QED
      BY <3>1, <1>t, NothingNew
  <2>2. CASE Target(target[r]) = {}
    <3> SUFFICES ASSUME ~raced' PROVE AloneOK' /\ NeverTwice'
      BY DEF AloneOK, NeverTwice
    <3>1. ~raced /\ \A q \in Runs : at[q] = "create" => target[q] # target[r]
      BY <1>3, <2>2 DEF Check
    <3>2. target[r] \in Names /\ target[r] # NoName
      BY <1>3, <1>t, NoShell DEF Check, TypeOK, AimOK, Aims
    <3>3. Named(target[r]) = {}
      BY <1>t, <2>2, <3>1, <3>2, FindsByName
    <3>4. UNCHANGED <<windows, target>>
      BY <1>3 DEF Check
    <3>5. \A q \in Runs : at'[q] = "create" => at[q] = "create" \/ q = r
      BY <1>3, <1>t, <2>2 DEF Check, TypeOK
    <3>6. AloneOK'
      BY <1>t, <3>1, <3>3, <3>4, <3>5 DEF AloneOK, Named
    <3>7. NeverTwice'
      BY <1>t, <3>1, <3>4 DEF NeverTwice
    <3> QED
      BY <3>6, <3>7
  <2> QED
    BY <2>1, <2>2
<1>4. ASSUME NEW r \in Runs, Create(r) PROVE AloneOK' /\ NeverTwice'
  <2>1. CASE windows = {}
    <3>1. NoNews
      BY <1>4, <1>t, <2>1 DEF Create, TypeOK
    <3> QED
      BY <3>1, <1>t, NothingNew
  <2>2. CASE windows # {}
    <3> SUFFICES ASSUME ~raced' PROVE AloneOK' /\ NeverTwice'
      BY DEF AloneOK, NeverTwice
    <3>1. ~raced /\ target' = target
      BY <1>4 DEF Create
    <3>2. PICK new : new.name = target[r] /\ windows' = windows \union {new}
      BY <1>4, <2>2 DEF Create, Opens
    <3>3. Named(target[r]) = {}
          /\ \A q \in Runs : at[q] = "create" /\ target[q] = target[r] => q = r
      BY <1>4, <1>t, <3>1 DEF Create, AloneOK
    <3>4. \A q \in Runs : at'[q] = "create" => at[q] = "create" /\ q # r
      BY <1>4, <1>t DEF Create, TypeOK
    <3>5. AloneOK'
      BY <1>t, <3>1, <3>2, <3>3, <3>4 DEF AloneOK, Named
    <3>6. NeverTwice'
      BY <1>t, <3>1, <3>2, <3>3 DEF NeverTwice, Named
    <3> QED
      BY <3>5, <3>6
  <2> QED
    BY <2>1, <2>2
<1>5. ASSUME NEW r \in Runs, NEW c \in {"kill", "attach"}, NEW s \in Slugs,
             NEW a \in Agents \union {Unknown, None}, Aim(r, c, s, a)
      PROVE  NoNews
  BY <1>5, <1>t DEF Aim, TypeOK
<1>6. ASSUME NEW r \in Runs, Resolve(r) PROVE NoNews
  BY <1>6, <1>t DEF Resolve, TypeOK
<1>7. ASSUME NEW r \in Runs, Kill(r) PROVE NoNews
  BY <1>7, <1>t DEF Kill, TypeOK
<1>8. ASSUME NEW r \in Runs, Attach(r) PROVE NoNews
  BY <1>8, <1>t DEF Attach, TypeOK
<1>9. ASSUME NEW r \in Runs, Menu(r) PROVE NoNews
  BY <1>9, <1>t DEF Menu, TypeOK
<1>10. ASSUME NEW r \in Runs, PickRow(r) PROVE NoNews
  BY <1>10, <1>t DEF PickRow, TypeOK
<1>11. ASSUME Exits PROVE NoNews
  BY <1>11 DEF Exits
<1>12. ASSUME UNCHANGED vars PROVE NoNews
  BY <1>12 DEF vars
<1>13. NoNews => AloneOK' /\ NeverTwice'
  BY <1>t, NothingNew
<1> HIDE DEF NoNews
<1> QED
  BY <1>1, <1>2, <1>3, <1>4, <1>5, <1>6, <1>7, <1>8, <1>9, <1>10, <1>11, <1>12, <1>13
     DEF Next

(* Every reachable state satisfies the invariant. *)
LEMMA Invariance == Spec => []IInv
<1>1. IInv /\ [Next]_vars => IInv'
  BY NextType, NextAim, NextAlone DEF IInv
<1> QED
  BY <1>1, InitInv, PTL DEF Spec

-----------------------------------------------------------------------------
(* Type correctness of the windows and the invocations. *)
THEOREM SessionsTypeOK == Spec => []TypeOK
<1>1. IInv => TypeOK
  BY DEF IInv
<1> QED
  BY <1>1, Invariance, PTL

(* launch gives a project one window per agent unless two of them race. *)
THEOREM SessionsNeverTwice == Spec => []NeverTwice
<1>1. IInv => NeverTwice
  BY DEF IInv
<1> QED
  BY <1>1, Invariance, PTL

(* A step that ends a kill is the kill of that run. *)
LEMMA KillKills ==
  ASSUME TypeOK, [Next]_vars, NEW r \in Runs, at[r] = "act", at'[r] = "killed"
  PROVE  Kill(r)
<1> USE DEF TypeOK, Goes
<1>1. vars' # vars
  BY DEF vars
<1>2. ASSUME NEW q \in Runs, NEW d \in Dirs, NEW a \in Agents \union {Unknown},
             Launch(q, d, a)
      PROVE  FALSE
  BY <1>2 DEF Launch
<1>3. ASSUME NEW q \in Runs, Ensure(q) \/ Check(q) \/ Create(q) PROVE FALSE
  BY <1>3 DEF Ensure, Check, Create
<1>4. ASSUME NEW q \in Runs, NEW c \in {"kill", "attach"}, NEW s \in Slugs,
             NEW a \in Agents \union {Unknown, None}, Aim(q, c, s, a)
      PROVE  FALSE
  BY <1>4 DEF Aim
<1>5. ASSUME NEW q \in Runs, Resolve(q) \/ Attach(q) \/ Menu(q) \/ PickRow(q)
      PROVE  FALSE
  BY <1>5 DEF Resolve, Attach, Menu, PickRow
<1>6. ASSUME NEW q \in Runs, Kill(q) PROVE q = r
  BY <1>6 DEF Kill
<1>7. ~Exits
  BY DEF Exits
<1> QED
  BY <1>1, <1>2, <1>3, <1>4, <1>5, <1>6, <1>7 DEF Next

(* After a kill no window has the name it was for, unless launches raced. *)
THEOREM SessionsKilledIsGone == Spec => KilledIsGone
<1> DEFINE Gone(r) == at[r] = "act" /\ at'[r] = "killed" /\ ~raced
      => \A w \in windows' : w.name # target[r]
<1>1. ASSUME IInv, [Next]_vars, NEW r \in Runs PROVE Gone(r)
  <2> SUFFICES ASSUME at[r] = "act", at'[r] = "killed", ~raced PROVE Gone(r)
    OBVIOUS
  <2>1. Kill(r)
    BY <1>1, KillKills DEF IInv
  <2>2. target[r] \in Names /\ target[r] # NoName
    BY <1>1, <2>1, NoShell DEF IInv, TypeOK, AimOK, Aims, Kill
  <2>3. Named(target[r]) # {} => Target(target[r]) = Named(target[r])
    BY <1>1, <2>2, FindsByName DEF IInv
  <2> QED
    BY <2>1, <2>3 DEF Kill, Named
<1>2. IInv /\ [Next]_vars => \A r \in Runs : Gone(r)
  BY <1>1
<1> QED
  BY <1>2, Invariance, PTL DEF Spec, KilledIsGone

=============================================================================
