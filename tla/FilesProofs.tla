----------------------------- MODULE FilesProofs -----------------------------
(* Safety of the two parts that write what outlives them: Settings, for any *)
(* number of invocations and of edits and any events, keys and hooks, and   *)
(* SqliteStore, for any sessions and any number of writes and faults.       *)
EXTENDS Settings, SqliteStore, SequenceTheorems, TLAPS

Editing == {"bedrock", "subscription", "install", "uninstall"}
Owned == [keys : SUBSET Keys, hooks : SUBSET (Events \X OwnHooks)]

(* The properties of the file as properties of any settings s: the user's   *)
(* o is there, the last command c of a pair has what it was for, and no     *)
(* half is there without the other.                                         *)
KeptIn(s, o) ==
  /\ \A k \in o.keys \ BedrockKeys : s.env[k] = "own"
  /\ \A pair \in o.hooks : \E m \in s.hooks[pair[1]] : pair[2] \in m.hooks

OursIn(s, e) == {m \in s.hooks[e] : Emitter \in m.hooks}

ProviderAs(s, c) ==
  /\ c = "bedrock" => s.model = "opus" /\ \A k \in BedrockKeys : s.env[k] = "bedrock"
  /\ c = "subscription" => s.model = "sub" /\ \A k \in BedrockKeys : s.env[k] = "unset"

HooksAs(s, c) ==
  /\ c = "install" => \A e \in HookEvents : OursIn(s, e) # {}
  /\ c = "uninstall" => \A e \in Events : OursIn(s, e) = {}

KeysWhole(s) ==
  (\E k \in BedrockKeys : s.env[k] = "bedrock") => \A k \in BedrockKeys : s.env[k] # "unset"

HooksWhole(s) ==
  /\ (\E e \in HookEvents : OursIn(s, e) # {}) => \A e \in HookEvents : OursIn(s, e) # {}
  /\ \A e \in Events : \A m, n \in OursIn(s, e) : m = n

-----------------------------------------------------------------------------
(* The commands and the edits as functions of settings. *)

LEMMA ContentsRead == \A s \in Contents : s \notin Unreadable
BY DEF Contents, Unreadable, Absent, Empty, Garbled

LEMMA Fields ==
  ASSUME NEW s \in Contents
  PROVE  /\ s.env \in [Keys -> {"unset", "bedrock", "own"}]
         /\ s.model \in {"unset", "opus", "sub", "own"}
         /\ s.hooks \in [Events -> SUBSET Matchers]
BY DEF Contents

LEMMA FreshWhole ==
  /\ Fresh \in Contents
  /\ KeptIn(Fresh, [keys |-> {}, hooks |-> {}]) /\ KeysWhole(Fresh) /\ HooksWhole(Fresh)
  /\ ProviderAs(Fresh, "none") /\ HooksAs(Fresh, "none")
<1>1. Fresh \in Contents
  BY DEF Fresh, Contents
<1>2. /\ \A k \in Keys : Fresh.env[k] = "unset"
      /\ \A e \in Events : Fresh.hooks[e] = {}
  BY DEF Fresh
<1>3. \A e \in Events : OursIn(Fresh, e) = {}
  BY <1>2 DEF OursIn
<1>4. KeysWhole(Fresh) /\ HooksWhole(Fresh)
  BY <1>2, <1>3 DEF KeysWhole, HooksWhole, Keys, Events
<1> QED
  BY <1>1, <1>4 DEF KeptIn, ProviderAs, HooksAs

LEMMA BedrockDoes ==
  ASSUME NEW s \in Contents
  PROVE  /\ Bedrock(s) \in Contents /\ Bedrock(s).hooks = s.hooks
         /\ KeysWhole(Bedrock(s)) /\ ProviderAs(Bedrock(s), "bedrock")
         /\ \A k \in Keys \ BedrockKeys : Bedrock(s).env[k] = s.env[k]
BY DEF Bedrock, Contents, KeysWhole, ProviderAs, Keys

LEMMA SubscriptionDoes ==
  ASSUME NEW s \in Contents
  PROVE  /\ Subscription(s) \in Contents /\ Subscription(s).hooks = s.hooks
         /\ KeysWhole(Subscription(s)) /\ ProviderAs(Subscription(s), "subscription")
         /\ \A k \in Keys \ BedrockKeys : Subscription(s).env[k] = s.env[k]
BY DEF Subscription, Contents, KeysWhole, ProviderAs, Keys

(* Cleaning takes our hook out of every matcher, and nobody else's.         *)
LEMMA CleanedDoes ==
  ASSUME NEW ms \in SUBSET Matchers
  PROVE  /\ Cleaned(ms) \in SUBSET Matchers
         /\ \A m \in Cleaned(ms) : Emitter \notin m.hooks
         /\ \A m \in ms, h \in OwnHooks : h \in m.hooks => \E n \in Cleaned(ms) : h \in n.hooks
<1> DEFINE Without(m) == [m EXCEPT !.hooks = @ \ {Emitter}]
<1>1. \A m \in Matchers : Without(m) \in Matchers /\ Without(m).hooks = m.hooks \ {Emitter}
  BY DEF Matchers
<1>2. Cleaned(ms) = {m \in {Without(n) : n \in ms} : m.hooks # {}}
  BY DEF Cleaned
<1> HIDE DEF Without
<1>3. ASSUME NEW m \in ms, NEW h \in OwnHooks, h \in m.hooks
      PROVE  \E n \in Cleaned(ms) : h \in n.hooks
  <2>1. h \in Without(m).hooks
    BY <1>1, <1>3, SettingsAssumption
  <2>2. Without(m) \in Cleaned(ms)
    BY <1>2, <2>1
  <2> QED
    BY <2>1, <2>2
<1>4. Cleaned(ms) \in SUBSET Matchers /\ \A m \in Cleaned(ms) : Emitter \notin m.hooks
  BY <1>1, <1>2
<1> QED
  BY <1>3, <1>4

LEMMA InstallDoes ==
  ASSUME NEW s \in Contents, NEW r \in Runs
  PROVE  /\ Install(s, r) \in Contents
         /\ Install(s, r).env = s.env /\ Install(s, r).model = s.model
         /\ \A e \in HookEvents : OursIn(Install(s, r), e) = {Entry(r)}
         /\ \A e \in Events \ HookEvents : Install(s, r).hooks[e] = s.hooks[e]
         /\ \A e \in Events, h \in OwnHooks : \A m \in s.hooks[e] :
              h \in m.hooks => \E n \in Install(s, r).hooks[e] : h \in n.hooks
<1> DEFINE t == Install(s, r)
<1>1. /\ Entry(r) \in Matchers /\ Emitter \in Entry(r).hooks
  BY DEF Entry, Matchers
<1>2. \A e \in Events : s.hooks[e] \in SUBSET Matchers
  BY Fields
<1>3. t.hooks = [e \in Events |->
        IF e \in HookEvents THEN Cleaned(s.hooks[e]) \union {Entry(r)} ELSE s.hooks[e]]
  BY DEF Install, Contents
<1>4. t.env = s.env /\ t.model = s.model
  BY DEF Install, Contents
<1>5. \A e \in Events : t.hooks[e] \in SUBSET Matchers
  BY <1>1, <1>2, <1>3, CleanedDoes
<1>6. t \in Contents
  BY <1>3, <1>5 DEF Install, Contents
<1>7. \A e \in HookEvents : OursIn(t, e) = {Entry(r)}
  BY <1>1, <1>2, <1>3, CleanedDoes DEF OursIn, Events
<1>8. ASSUME NEW e \in Events, NEW h \in OwnHooks, NEW m \in s.hooks[e], h \in m.hooks
      PROVE  \E n \in t.hooks[e] : h \in n.hooks
  <2>1. CASE e \in HookEvents
    <3>1. PICK n \in Cleaned(s.hooks[e]) : h \in n.hooks
      BY <1>2, <1>8, CleanedDoes
    <3> QED
      BY <1>3, <2>1, <3>1
  <2>2. CASE e \notin HookEvents
    BY <1>3, <1>8, <2>2
  <2> QED
    BY <2>1, <2>2
<1> QED
  BY <1>3, <1>4, <1>6, <1>7, <1>8

LEMMA UninstallDoes ==
  ASSUME NEW s \in Contents
  PROVE  /\ Uninstall(s) \in Contents
         /\ Uninstall(s).env = s.env /\ Uninstall(s).model = s.model
         /\ \A e \in Events : OursIn(Uninstall(s), e) = {}
         /\ \A e \in Events, h \in OwnHooks : \A m \in s.hooks[e] :
              h \in m.hooks => \E n \in Uninstall(s).hooks[e] : h \in n.hooks
<1> DEFINE t == Uninstall(s)
<1>1. \A e \in Events : s.hooks[e] \in SUBSET Matchers
  BY Fields
<1>2. t.hooks = [e \in Events |-> Cleaned(s.hooks[e])]
  BY DEF Uninstall, Contents
<1>3. t.env = s.env /\ t.model = s.model
  BY DEF Uninstall, Contents
<1>4. \A e \in Events : t.hooks[e] \in SUBSET Matchers
  BY <1>1, <1>2, CleanedDoes
<1>5. t \in Contents
  BY <1>2, <1>4 DEF Uninstall, Contents
<1>6. \A e \in Events : OursIn(t, e) = {}
  BY <1>1, <1>2, CleanedDoes DEF OursIn
<1>7. ASSUME NEW e \in Events, NEW h \in OwnHooks, NEW m \in s.hooks[e], h \in m.hooks
      PROVE  \E n \in t.hooks[e] : h \in n.hooks
  BY <1>1, <1>2, <1>7, CleanedDoes
<1> QED
  BY <1>3, <1>5, <1>6, <1>7

(* What a command makes of settings: what is the user's stays, so does what *)
(* the other pair's last command was for, and its own purpose is there.     *)
LEMMA EditedDoes ==
  ASSUME NEW s \in Contents, NEW r \in Runs, cmd[r] \in Editing,
         KeysWhole(s), HooksWhole(s)
  PROVE  /\ Edited(s, r) \in Contents
         /\ KeysWhole(Edited(s, r)) /\ HooksWhole(Edited(s, r))
         /\ \A o \in Owned : KeptIn(s, o) => KeptIn(Edited(s, r), o)
         /\ \A c : Pair(cmd[r]) = "hooks" /\ ProviderAs(s, c) => ProviderAs(Edited(s, r), c)
         /\ \A c : Pair(cmd[r]) = "provider" /\ HooksAs(s, c) => HooksAs(Edited(s, r), c)
         /\ Pair(cmd[r]) = "provider" => ProviderAs(Edited(s, r), cmd[r])
         /\ Pair(cmd[r]) = "hooks" => HooksAs(Edited(s, r), cmd[r])
<1> DEFINE t == Edited(s, r)
<1>1. ASSUME NEW u \in Contents, u.hooks = s.hooks, KeysWhole(u), ProviderAs(u, cmd[r]),
             \A k \in Keys \ BedrockKeys : u.env[k] = s.env[k]
      PROVE  /\ HooksWhole(u) /\ \A o \in Owned : KeptIn(s, o) => KeptIn(u, o)
             /\ \A c : HooksAs(s, c) => HooksAs(u, c)
  <2>1. \A e : OursIn(u, e) = OursIn(s, e)
    BY <1>1 DEF OursIn
  <2>2. \A o \in Owned : KeptIn(s, o) => KeptIn(u, o)
    BY <1>1 DEF Owned, KeptIn
  <2> QED
    BY <2>1, <2>2 DEF HooksWhole, HooksAs
<1>2. ASSUME NEW u \in Contents, u.env = s.env, u.model = s.model,
             \A e \in Events, h \in OwnHooks : \A m \in s.hooks[e] :
               h \in m.hooks => \E n \in u.hooks[e] : h \in n.hooks
      PROVE  /\ KeysWhole(u) /\ \A o \in Owned : KeptIn(s, o) => KeptIn(u, o)
             /\ \A c : ProviderAs(s, c) => ProviderAs(u, c)
  <2>1. ASSUME NEW o \in Owned, KeptIn(s, o), NEW pair \in o.hooks
        PROVE  \E m \in u.hooks[pair[1]] : pair[2] \in m.hooks
    <3>1. pair[1] \in Events /\ pair[2] \in OwnHooks
      BY DEF Owned
    <3>2. PICK m \in s.hooks[pair[1]] : pair[2] \in m.hooks
      BY <2>1 DEF KeptIn
    <3> QED
      BY <1>2, <3>1, <3>2
  <2>2. ASSUME NEW o \in Owned, KeptIn(s, o) PROVE KeptIn(u, o)
    BY <1>2, <2>1, <2>2 DEF KeptIn
  <2> QED
    BY <1>2, <2>2 DEF KeysWhole, ProviderAs
<1>3. CASE cmd[r] = "bedrock"
  <2>1. t = Bedrock(s) /\ Pair(cmd[r]) = "provider"
    BY <1>3 DEF Edited, Pair
  <2> QED
    BY <1>1, <1>3, <2>1, BedrockDoes
<1>4. CASE cmd[r] = "subscription"
  <2>1. t = Subscription(s) /\ Pair(cmd[r]) = "provider"
    BY <1>4 DEF Edited, Pair
  <2> QED
    BY <1>1, <1>4, <2>1, SubscriptionDoes
<1>5. CASE cmd[r] = "install"
  <2>1. t = Install(s, r) /\ Pair(cmd[r]) = "hooks"
    BY <1>5 DEF Edited, Pair
  <2>2. \A e \in Events \ HookEvents : OursIn(t, e) = OursIn(s, e)
    BY <2>1, InstallDoes DEF OursIn
  <2>3. \A e \in HookEvents : OursIn(t, e) = {Entry(r)}
    BY <2>1, InstallDoes
  <2>4. HooksWhole(t) /\ HooksAs(t, "install")
    BY <2>2, <2>3 DEF HooksWhole, HooksAs
  <2> QED
    BY <1>2, <1>5, <2>1, <2>4, InstallDoes
<1>6. CASE cmd[r] = "uninstall"
  <2>1. t = Uninstall(s) /\ Pair(cmd[r]) = "hooks"
    BY <1>6 DEF Edited, Pair
  <2>2. \A e \in Events : OursIn(t, e) = {}
    BY <2>1, UninstallDoes
  <2>3. HooksWhole(t) /\ HooksAs(t, "uninstall")
    BY <2>2 DEF HooksWhole, HooksAs, Events
  <2> QED
    BY <1>2, <1>6, <2>1, <2>3, UninstallDoes
<1> QED
  BY <1>3, <1>4, <1>5, <1>6 DEF Editing
-----------------------------------------------------------------------------
(* What the user's edits make of settings, in the same terms. *)

LEMMA KeyEdit ==
  ASSUME NEW s \in Contents, NEW k \in Keys, KeysWhole(s), HooksWhole(s)
  PROVE  LET t == [s EXCEPT !.env[k] = "own"] IN
         /\ t \in Contents /\ KeysWhole(t) /\ HooksWhole(t)
         /\ \A o \in Owned : KeptIn(s, o) => KeptIn(t, [o EXCEPT !.keys = @ \union {k}])
         /\ \A c : k \notin BedrockKeys /\ ProviderAs(s, c) => ProviderAs(t, c)
         /\ \A c : HooksAs(s, c) => HooksAs(t, c)
<1> DEFINE t == [s EXCEPT !.env[k] = "own"]
<1>1. /\ t \in Contents /\ t.model = s.model /\ t.hooks = s.hooks
      /\ t.env = [s.env EXCEPT ![k] = "own"]
  BY DEF Contents
<1>2. s.env \in [Keys -> {"unset", "bedrock", "own"}]
  BY Fields
<1> HIDE DEF t
<1>3. KeysWhole(t) /\ \A c : k \notin BedrockKeys /\ ProviderAs(s, c) => ProviderAs(t, c)
  BY <1>1, <1>2 DEF KeysWhole, ProviderAs, Keys
<1>4. HooksWhole(t) /\ \A c : HooksAs(s, c) => HooksAs(t, c)
  BY <1>1 DEF HooksWhole, HooksAs, OursIn
<1>5. ASSUME NEW o \in Owned, KeptIn(s, o)
      PROVE  KeptIn(t, [o EXCEPT !.keys = @ \union {k}])
  <2>1. /\ [o EXCEPT !.keys = @ \union {k}].keys = o.keys \union {k}
        /\ [o EXCEPT !.keys = @ \union {k}].hooks = o.hooks
        /\ o.keys \subseteq Keys
    BY DEF Owned
  <2> QED
    BY <1>1, <1>2, <1>5, <2>1 DEF KeptIn
<1> QED
  BY <1>1, <1>3, <1>4, <1>5 DEF t

LEMMA ModelEdit ==
  ASSUME NEW s \in Contents, KeysWhole(s), HooksWhole(s)
  PROVE  LET t == [s EXCEPT !.model = "own"] IN
         /\ t \in Contents /\ KeysWhole(t) /\ HooksWhole(t)
         /\ \A o \in Owned : KeptIn(s, o) => KeptIn(t, o)
         /\ \A c : HooksAs(s, c) => HooksAs(t, c)
<1> DEFINE t == [s EXCEPT !.model = "own"]
<1>1. t \in Contents /\ t.env = s.env /\ t.hooks = s.hooks
  BY DEF Contents
<1> HIDE DEF t
<1>2. KeysWhole(t) /\ HooksWhole(t) /\ \A c : HooksAs(s, c) => HooksAs(t, c)
  BY <1>1 DEF KeysWhole, HooksWhole, HooksAs, OursIn
<1>3. \A o \in Owned : KeptIn(s, o) => KeptIn(t, o)
  BY <1>1 DEF KeptIn
<1> QED
  BY <1>1, <1>2, <1>3 DEF t

(* A hook of the user's, in a matcher of its own or in one that is there:   *)
(* no hook goes, and ours are where they were.                              *)
LEMMA HookEdit ==
  ASSUME NEW s \in Contents, NEW e \in Events, NEW h \in OwnHooks, NEW ms \in SUBSET Matchers,
         KeysWhole(s), HooksWhole(s),
         \/ ms = s.hooks[e] \union {[by |-> User, hooks |-> {h}]}
         \/ \E m \in s.hooks[e] : ms = (s.hooks[e] \ {m}) \union {[m EXCEPT !.hooks = @ \union {h}]}
  PROVE  LET t == [s EXCEPT !.hooks[e] = ms] IN
         /\ t \in Contents /\ KeysWhole(t) /\ HooksWhole(t)
         /\ \A o \in Owned : KeptIn(s, o) => KeptIn(t, [o EXCEPT !.hooks = @ \union {<<e, h>>}])
         /\ \A c : ProviderAs(s, c) => ProviderAs(t, c)
         /\ \A c : HooksAs(s, c) => HooksAs(t, c)
<1> DEFINE t == [s EXCEPT !.hooks[e] = ms]
<1>1. /\ t \in Contents /\ t.env = s.env /\ t.model = s.model
      /\ t.hooks = [s.hooks EXCEPT ![e] = ms]
  BY DEF Contents
<1>2. s.hooks \in [Events -> SUBSET Matchers]
  BY Fields
<1> HIDE DEF t
<1> DEFINE ours == {m \in ms : Emitter \in m.hooks}
<1> DEFINE Fits ==
      /\ \E m \in ms : h \in m.hooks
      /\ \A m \in s.hooks[e], g \in OwnHooks : g \in m.hooks => \E n \in ms : g \in n.hooks
      /\ ours = {} <=> OursIn(s, e) = {}
      /\ (\A m, n \in OursIn(s, e) : m = n) => \A m, n \in ours : m = n
<1>3. Fits
  <2>1. CASE ms = s.hooks[e] \union {[by |-> User, hooks |-> {h}]}
    <3> DEFINE entry == [by |-> User, hooks |-> {h}]
    <3>1. entry.hooks = {h} /\ Emitter \notin entry.hooks
      BY SettingsAssumption
    <3>2. ms = s.hooks[e] \union {entry}
      BY <2>1
    <3> HIDE DEF entry
    <3> QED
      BY <3>1, <3>2 DEF OursIn
  <2>2. ASSUME NEW m \in s.hooks[e],
               ms = (s.hooks[e] \ {m}) \union {[m EXCEPT !.hooks = @ \union {h}]}
        PROVE  Fits
    <3> DEFINE entry == [m EXCEPT !.hooks = @ \union {h}]
    <3>1. m \in Matchers
      BY <1>2
    <3>2. entry.hooks = m.hooks \union {h}
      BY <3>1 DEF Matchers
    <3>3. ms = (s.hooks[e] \ {m}) \union {entry}
      BY <2>2
    <3> HIDE DEF entry
    <3>4. Emitter \in entry.hooks <=> Emitter \in m.hooks
      BY <3>2, SettingsAssumption
    <3> QED
      BY <3>2, <3>3, <3>4 DEF OursIn
  <2> QED
    BY <2>1, <2>2
<1>4. OursIn(t, e) = ours /\ \A f \in Events \ {e} : OursIn(t, f) = OursIn(s, f)
  BY <1>1, <1>2 DEF OursIn
<1> HIDE DEF ours
<1>5. HooksWhole(t) /\ \A c : HooksAs(s, c) => HooksAs(t, c)
  <2>1. \A f \in Events : OursIn(t, f) = {} <=> OursIn(s, f) = {}
    BY <1>3, <1>4
  <2>2. \A f \in Events : \A m, n \in OursIn(t, f) : m = n
    BY <1>3, <1>4 DEF HooksWhole
  <2> QED
    BY <2>1, <2>2 DEF HooksWhole, HooksAs, Events
<1>6. KeysWhole(t) /\ \A c : ProviderAs(s, c) => ProviderAs(t, c)
  BY <1>1 DEF KeysWhole, ProviderAs
<1>7. ASSUME NEW o \in Owned, KeptIn(s, o)
      PROVE  KeptIn(t, [o EXCEPT !.hooks = @ \union {<<e, h>>}])
  <2> DEFINE q == [o EXCEPT !.hooks = @ \union {<<e, h>>}]
  <2>1. q.keys = o.keys /\ q.hooks = o.hooks \union {<<e, h>>}
    BY DEF Owned
  <2>2. \A pair \in o.hooks : pair[1] \in Events /\ pair[2] \in OwnHooks
    BY DEF Owned
  <2> HIDE DEF q
  <2>3. ASSUME NEW pair \in q.hooks PROVE \E m \in t.hooks[pair[1]] : pair[2] \in m.hooks
    <3>1. CASE pair = <<e, h>>
      BY <1>1, <1>2, <1>3, <3>1
    <3>2. CASE pair \in o.hooks
      <4>1. PICK m \in s.hooks[pair[1]] : pair[2] \in m.hooks
        BY <1>7, <3>2 DEF KeptIn
      <4> QED
        BY <1>1, <1>2, <1>3, <2>2, <3>2, <4>1
    <3> QED
      BY <2>1, <2>3, <3>1, <3>2
  <2>4. \A k \in q.keys \ BedrockKeys : t.env[k] = "own"
    BY <1>1, <1>7, <2>1 DEF KeptIn
  <2>5. KeptIn(t, q)
    BY <2>3, <2>4 DEF KeptIn
  <2> QED
    BY <2>5 DEF q
<1> QED
  BY <1>1, <1>5, <1>6, <1>7 DEF t
-----------------------------------------------------------------------------
(* The invariant. *)

Loaded(r) == at[r] \in {"open", "write"}

(* What a run has when it is past its reading. *)
RunOK ==
  /\ \A r \in Runs : at[r] = "load" => cmd[r] \in Commands
  /\ \A r \in Runs : Loaded(r) =>
       cmd[r] \in Editing /\ buf[r] \in Contents /\ KeysWhole(buf[r]) /\ HooksWhole(buf[r])

FileWhole == Readable => KeysWhole(file) /\ HooksWhole(file)

(* Nothing is remembered about a file that is not there yet. *)
NothingYet ==
  file = Absent => /\ own = [keys |-> {}, hooks |-> {}]
                   /\ latest = [provider |-> "none", hooks |-> "none"]

FileGood == Readable /\ ~raced =>
  KeptIn(file, own) /\ ProviderAs(file, latest.provider) /\ HooksAs(file, latest.hooks)

(* What a run is about to write is as good as what it will replace, with    *)
(* its own command done, unless the file has changed under it.              *)
BufGood == ~raced => \A r \in Runs : Loaded(r) /\ ~stale[r] =>
  /\ KeptIn(buf[r], own)
  /\ ProviderAs(buf[r], IF Pair(cmd[r]) = "provider" THEN cmd[r] ELSE latest.provider)
  /\ HooksAs(buf[r], IF Pair(cmd[r]) = "hooks" THEN cmd[r] ELSE latest.hooks)

(* Who finds other than an empty file between the halves of its write has   *)
(* been overtaken.                                                          *)
EmptiedOK == \A r \in Runs : at[r] = "write" => stale[r] \/ file = Empty

IInv == /\ TypeOK /\ RunOK /\ FileWhole /\ NothingYet /\ FileGood /\ BufGood
        /\ EmptiedOK /\ BrokenOnlyByWriters

UserStep ==
  (\E k \in Keys : SetsKey(k)) \/ SetsModel \/ (\E e \in Events, h \in OwnHooks : AddsHook(e, h))

Invokes(r) == \E c \in Commands, inSession, force \in BOOLEAN : Invoke(r, c, inSession, force)

LEMMA NextIs ==
  [Next]_vars => \/ \E r \in Runs : Invokes(r) \/ Load(r) \/ Open(r) \/ Write(r) \/ Kill(r)
                 \/ UserStep \/ UNCHANGED vars
BY DEF Next, UserStep, Invokes

(* What the user edits is whole, and good if the file was.                  *)
LEMMA BeforeOK ==
  ASSUME IInv, MayEdit
  PROVE  /\ Before \in Contents /\ KeysWhole(Before) /\ HooksWhole(Before)
         /\ ~raced => /\ KeptIn(Before, own) /\ ProviderAs(Before, latest.provider)
                      /\ HooksAs(Before, latest.hooks)
<1> USE DEF IInv
<1>1. CASE file = Absent
  BY <1>1, FreshWhole DEF Before, NothingYet
<1>2. CASE file # Absent
  <2>1. Readable /\ Before = file
    BY <1>2 DEF MayEdit, Readable, Unreadable, Before
  <2> QED
    BY <2>1 DEF TypeOK, Readable, FileWhole, FileGood
<1> QED
  BY <1>1, <1>2

LEMMA UserDoes ==
  ASSUME IInv, UserStep
  PROVE  /\ UNCHANGED <<at, cmd, buf, raced>> /\ stale' = [r \in Runs |-> TRUE]
         /\ edits' \in 0..MaxEdits /\ \A r \in Runs : at[r] # "write"
         /\ own' \in Owned
         /\ latest' \in [provider : {"none", "bedrock", "subscription"},
                         hooks : {"none", "install", "uninstall"}]
         /\ file' \in Contents /\ KeysWhole(file') /\ HooksWhole(file')
         /\ ~raced => /\ KeptIn(file', own') /\ ProviderAs(file', latest'.provider)
                      /\ HooksAs(file', latest'.hooks)
<1>1. TypeOK /\ own \in Owned
  BY DEF IInv, TypeOK, Owned
<1>2. MayEdit
  BY DEF UserStep, SetsKey, SetsModel, AddsHook
<1>3. ASSUME NEW s, Edits(s)
      PROVE  /\ UNCHANGED <<at, cmd, buf, raced>> /\ stale' = [r \in Runs |-> TRUE] /\ file' = s
             /\ edits' \in 0..MaxEdits /\ \A r \in Runs : at[r] # "write"
  BY <1>1, <1>2, <1>3, SettingsAssumption DEF Edits, MayEdit, TypeOK
<1>4. CASE \E k \in Keys : SetsKey(k)
  <2>1. PICK k \in Keys : SetsKey(k)
    BY <1>4
  <2>2. Edits([Before EXCEPT !.env[k] = "own"])
    BY <2>1 DEF SetsKey
  <2>3. own' = [own EXCEPT !.keys = @ \union {k}] /\ own' \in Owned
    BY <1>1, <2>1 DEF SetsKey, Owned
  <2>4. /\ latest' \in [provider : {"none", "bedrock", "subscription"},
                        hooks : {"none", "install", "uninstall"}]
        /\ latest'.hooks = latest.hooks
        /\ latest'.provider = IF k \in BedrockKeys THEN "none" ELSE latest.provider
    BY <1>1, <2>1 DEF SetsKey, TypeOK
  <2>5. \A u : ProviderAs(u, "none")
    BY DEF ProviderAs
  <2> QED
    BY <1>1, <1>2, <1>3, <2>2, <2>3, <2>4, <2>5, BeforeOK, KeyEdit
<1>5. CASE SetsModel
  <2>1. Edits([Before EXCEPT !.model = "own"]) /\ own' = own
    BY <1>5 DEF SetsModel
  <2>2. /\ latest' \in [provider : {"none", "bedrock", "subscription"},
                        hooks : {"none", "install", "uninstall"}]
        /\ latest'.hooks = latest.hooks /\ latest'.provider = "none"
    BY <1>1, <1>5 DEF SetsModel, TypeOK
  <2>3. \A u : ProviderAs(u, "none")
    BY DEF ProviderAs
  <2> QED
    BY <1>1, <1>2, <1>3, <2>1, <2>2, <2>3, BeforeOK, ModelEdit
<1>6. CASE \E e \in Events, h \in OwnHooks : AddsHook(e, h)
  <2>1. PICK e \in Events, h \in OwnHooks : AddsHook(e, h)
    BY <1>6
  <2> DEFINE old == Before.hooks[e]
             single == old \union {[by |-> User, hooks |-> {h}]}
             joined(m) == (old \ {m}) \union {[m EXCEPT !.hooks = @ \union {h}]}
  <2>2. old \in SUBSET Matchers
    BY <1>2, BeforeOK, Fields
  <2>3. PICK ms \in SUBSET Matchers :
          /\ Edits([Before EXCEPT !.hooks[e] = ms])
          /\ ms = single \/ \E m \in old : ms = joined(m)
    <3>1. single \in SUBSET Matchers
      BY <2>2 DEF Matchers
    <3>2. \A m \in old : joined(m) \in SUBSET Matchers
      BY <2>2 DEF Matchers
    <3>3. \/ Edits([Before EXCEPT !.hooks[e] = single])
          \/ \E m \in old : Edits([Before EXCEPT !.hooks[e] = joined(m)])
      <4>1. [Before EXCEPT !.hooks[e] = @ \union {[by |-> User, hooks |-> {h}]}]
              = [Before EXCEPT !.hooks[e] = single]
        BY <1>2, BeforeOK, Fields
      <4>2. \A m \in old :
              [Before EXCEPT !.hooks[e] = (@ \ {m}) \union {[m EXCEPT !.hooks = @ \union {h}]}]
                = [Before EXCEPT !.hooks[e] = joined(m)]
        BY <1>2, BeforeOK, Fields
      <4> QED
        BY <2>1, <4>1, <4>2 DEF AddsHook
    <3> QED
      BY <3>1, <3>2, <3>3
  <2>4. own' = [own EXCEPT !.hooks = @ \union {<<e, h>>}] /\ own' \in Owned /\ latest' = latest
    BY <1>1, <2>1 DEF AddsHook, Owned
  <2>5. LET t == [Before EXCEPT !.hooks[e] = ms] IN
        /\ t \in Contents /\ KeysWhole(t) /\ HooksWhole(t)
        /\ \A o \in Owned : KeptIn(Before, o) => KeptIn(t, [o EXCEPT !.hooks = @ \union {<<e, h>>}])
        /\ \A c : ProviderAs(Before, c) => ProviderAs(t, c)
        /\ \A c : HooksAs(Before, c) => HooksAs(t, c)
    BY <1>2, <2>3, BeforeOK, HookEdit
  <2> DEFINE t == [Before EXCEPT !.hooks[e] = ms]
             put == [own EXCEPT !.hooks = @ \union {<<e, h>>}]
  <2>6. t \in Contents /\ KeysWhole(t) /\ HooksWhole(t)
    BY <2>5
  <2>7. ~raced => KeptIn(t, put) /\ ProviderAs(t, latest.provider) /\ HooksAs(t, latest.hooks)
    BY <1>1, <1>2, <2>5, BeforeOK
  <2> HIDE DEF t
  <2>8. Edits(t)
    BY <2>3 DEF t
  <2> HIDE DEF put
  <2>9. own' = put
    BY <2>4 DEF put
  <2> QED
    BY <1>1, <1>3, <2>4, <2>6, <2>7, <2>8, <2>9 DEF TypeOK
<1> QED
  BY <1>4, <1>5, <1>6 DEF UserStep

-----------------------------------------------------------------------------
LEMMA InitInv == Init => IInv
<1> SUFFICES ASSUME Init PROVE IInv
  OBVIOUS
<1> USE SettingsAssumption DEF Init
<1>1. TypeOK
  <2>1. file \in Contents \union Unreadable
    BY FreshWhole DEF Unreadable
  <2>2. at \in [Runs -> Places] /\ cmd \in [Runs -> Commands \union {"none"}]
    BY DEF Places
  <2>3. own \in [keys : SUBSET Keys, hooks : SUBSET (Events \X OwnHooks)]
    OBVIOUS
  <2>4. buf \in [Runs -> Contents \union {Absent}] /\ stale \in [Runs -> BOOLEAN]
    OBVIOUS
  <2>5. raced \in BOOLEAN
    OBVIOUS
  <2>7. edits \in 0..MaxEdits
    OBVIOUS
  <2>6. latest \in [provider : {"none", "bedrock", "subscription"},
                    hooks : {"none", "install", "uninstall"}]
    OBVIOUS
  <2> QED
    BY <2>1, <2>2, <2>3, <2>4, <2>5, <2>6, <2>7 DEF TypeOK
<1>2. RunOK /\ NothingYet /\ BufGood /\ EmptiedOK
  BY DEF RunOK, NothingYet, BufGood, EmptiedOK, Loaded
<1>3. FileWhole /\ FileGood
  BY FreshWhole DEF FileWhole, FileGood, Readable, Unreadable
<1>4. BrokenOnlyByWriters
  BY FreshWhole, ContentsRead DEF BrokenOnlyByWriters, Absent, Empty, Garbled, Unreadable
<1> QED
  BY <1>1, <1>2, <1>3, <1>4 DEF IInv

(* What a run has read and changed: whole, and good if the file was.        *)
LEMMA LoadDoes ==
  ASSUME IInv, NEW r \in Runs, at[r] = "load", Readable, cmd[r] # "provider"
  PROVE  /\ cmd[r] \in Editing /\ Edited(file, r) \in Contents
         /\ KeysWhole(Edited(file, r)) /\ HooksWhole(Edited(file, r))
         /\ ~raced =>
              /\ KeptIn(Edited(file, r), own)
              /\ ProviderAs(Edited(file, r),
                            IF Pair(cmd[r]) = "provider" THEN cmd[r] ELSE latest.provider)
              /\ HooksAs(Edited(file, r),
                         IF Pair(cmd[r]) = "hooks" THEN cmd[r] ELSE latest.hooks)
<1>1. file \in Contents /\ own \in Owned
  BY DEF IInv, TypeOK, Readable, Owned
<1>2. cmd[r] \in Editing
  BY DEF IInv, RunOK, Commands, Editing
<1>3. KeysWhole(file) /\ HooksWhole(file)
  BY DEF IInv, FileWhole
<1>4. ~raced => /\ KeptIn(file, own) /\ ProviderAs(file, latest.provider)
                /\ HooksAs(file, latest.hooks)
  BY DEF IInv, FileGood
<1>5. Pair(cmd[r]) \in {"provider", "hooks"}
  BY DEF Pair
<1> QED
  BY <1>1, <1>2, <1>3, <1>4, <1>5, EditedDoes

(* After the last half of a write there is one text or a broken one, and    *)
(* that only if the file was not empty any more.                            *)
LEMMA WriteDoes ==
  ASSUME IInv, NEW r \in Runs, Write(r)
  PROVE  /\ file' \in {buf[r], Garbled} /\ buf[r] \in Contents
         /\ file' = Garbled => stale[r]
         /\ cmd[r] \in Editing
<1>1. buf[r] \in Contents /\ cmd[r] \in Editing
  BY DEF IInv, Write, RunOK, Loaded
<1>2. stale[r] \/ file = Empty
  BY DEF IInv, Write, EmptiedOK
<1>3. buf[r] # Garbled
  BY <1>1, ContentsRead DEF Unreadable
<1> QED
  BY <1>1, <1>2, <1>3 DEF Write, Overlaid

LEMMA StepTypeOK == IInv /\ [Next]_vars => TypeOK'
<1> SUFFICES ASSUME IInv, [Next]_vars PROVE TypeOK'
  OBVIOUS
<1> USE DEF TypeOK
<1>1. TypeOK
  BY DEF IInv
<1>2. ASSUME NEW r \in Runs, Invokes(r) PROVE TypeOK'
  BY <1>1, <1>2 DEF Invokes, Invoke, Goes, Places
<1>3. ASSUME NEW r \in Runs, Load(r) PROVE TypeOK'
  <2>1. at' \in [Runs -> Places] /\ UNCHANGED <<file, cmd, raced, latest, own, edits>>
    BY <1>1, <1>3 DEF Load, Goes, Places
  <2>2. buf' \in [Runs -> Contents \union {Absent}] /\ stale' \in [Runs -> BOOLEAN]
    <3>1. CASE UNCHANGED <<buf, stale>>
      BY <1>1, <3>1
    <3>2. CASE /\ Readable /\ cmd[r] # "provider"
               /\ buf' = [buf EXCEPT ![r] = Edited(file, r)]
               /\ stale' = [stale EXCEPT ![r] = FALSE]
      <4>1. Edited(file, r) \in Contents
        BY <1>3, <3>2, LoadDoes DEF Load
      <4> QED
        BY <1>1, <3>2, <4>1
    <3> QED
      BY <1>3, <3>1, <3>2 DEF Load
  <2> QED
    BY <1>1, <2>1, <2>2
<1>4. ASSUME NEW r \in Runs, Open(r) PROVE TypeOK'
  BY <1>1, <1>4 DEF Open, Goes, Places, Unreadable
<1>5. ASSUME NEW r \in Runs, Write(r) PROVE TypeOK'
  <2>1. file' \in Contents \union Unreadable
    BY <1>5, WriteDoes DEF Unreadable
  <2>2. at' \in [Runs -> Places] /\ UNCHANGED <<cmd, buf, own, edits>>
    BY <1>1, <1>5 DEF Write, Goes, Places
  <2>3. stale' \in [Runs -> BOOLEAN] /\ raced' \in BOOLEAN
    BY <1>1, <1>5 DEF Write, Touched
  <2>4. latest' \in [provider : {"none", "bedrock", "subscription"},
                     hooks : {"none", "install", "uninstall"}]
    BY <1>1, <1>5, WriteDoes DEF Write, Editing, Pair
  <2> QED
    BY <1>1, <2>1, <2>2, <2>3, <2>4
<1>6. ASSUME NEW r \in Runs, Kill(r) PROVE TypeOK'
  BY <1>1, <1>6 DEF Kill, Goes, Places
<1>7. CASE UserStep
  BY <1>1, <1>7, UserDoes DEF Owned
<1>8. CASE UNCHANGED vars
  BY <1>1, <1>8 DEF vars
<1> QED
  BY <1>2, <1>3, <1>4, <1>5, <1>6, <1>7, <1>8, NextIs

LEMMA StepRunOK == IInv /\ [Next]_vars => RunOK'
<1> SUFFICES ASSUME IInv, [Next]_vars PROVE RunOK'
  OBVIOUS
<1> USE DEF RunOK, Loaded
<1>1. TypeOK /\ RunOK
  BY DEF IInv
<1>2. ASSUME NEW r \in Runs, Invokes(r) PROVE RunOK'
  BY <1>1, <1>2 DEF Invokes, Invoke, Goes, TypeOK
<1>3. ASSUME NEW r \in Runs, Load(r) PROVE RunOK'
  <2>1. CASE UNCHANGED <<buf, stale>> /\ at'[r] \in {"failed", "shown"}
    BY <1>1, <1>3, <2>1 DEF Load, Goes, TypeOK
  <2>2. CASE /\ Readable /\ cmd[r] # "provider" /\ Goes(r, "open")
             /\ buf' = [buf EXCEPT ![r] = Edited(file, r)]
    BY <1>1, <1>3, <2>2, LoadDoes DEF Load, Goes, TypeOK
  <2> QED
    BY <1>1, <1>3, <2>1, <2>2 DEF Load, Goes, TypeOK
<1>4. ASSUME NEW r \in Runs, Open(r) \/ Write(r) \/ Kill(r) PROVE RunOK'
  BY <1>1, <1>4 DEF Open, Write, Kill, Goes, TypeOK
<1>5. CASE UserStep
  BY <1>1, <1>5, UserDoes
<1>6. CASE UNCHANGED vars
  BY <1>1, <1>6 DEF vars
<1> QED
  BY <1>2, <1>3, <1>4, <1>5, <1>6, NextIs

LEMMA StepFileWhole == IInv /\ [Next]_vars => FileWhole' /\ NothingYet'
<1> SUFFICES ASSUME IInv, [Next]_vars PROVE FileWhole' /\ NothingYet'
  OBVIOUS
<1> USE DEF FileWhole, NothingYet, Readable
<1>1. TypeOK /\ RunOK /\ FileWhole /\ NothingYet
  BY DEF IInv
<1>2. ASSUME NEW r \in Runs, Invokes(r) \/ Load(r) \/ Kill(r) PROVE FileWhole' /\ NothingYet'
  BY <1>1, <1>2 DEF Invokes, Invoke, Load, Kill
<1>3. ASSUME NEW r \in Runs, Open(r) PROVE FileWhole' /\ NothingYet'
  BY <1>3 DEF Open, Unreadable, Absent, Empty
<1>4. ASSUME NEW r \in Runs, Write(r) PROVE FileWhole' /\ NothingYet'
  <2>1. KeysWhole(buf[r]) /\ HooksWhole(buf[r])
    BY <1>1, <1>4 DEF Write, RunOK, Loaded
  <2>2. file' # Absent
    BY <1>4, WriteDoes, ContentsRead DEF Unreadable, Absent, Garbled
  <2> QED
    BY <1>4, <2>1, <2>2, WriteDoes DEF Unreadable
<1>5. CASE UserStep
  BY <1>5, UserDoes, ContentsRead DEF Unreadable
<1>6. CASE UNCHANGED vars
  BY <1>1, <1>6 DEF vars
<1> QED
  BY <1>2, <1>3, <1>4, <1>5, <1>6, NextIs

LEMMA StepFileGood == IInv /\ [Next]_vars => FileGood'
<1> SUFFICES ASSUME IInv, [Next]_vars PROVE FileGood'
  OBVIOUS
<1> USE DEF FileGood, Readable
<1>1. TypeOK /\ FileGood /\ BufGood
  BY DEF IInv
<1>2. ASSUME NEW r \in Runs, Invokes(r) \/ Load(r) \/ Kill(r) PROVE FileGood'
  BY <1>1, <1>2 DEF Invokes, Invoke, Load, Kill
<1>3. ASSUME NEW r \in Runs, Open(r) PROVE FileGood'
  BY <1>3 DEF Open, Unreadable
<1>4. ASSUME NEW r \in Runs, Write(r) PROVE FileGood'
  <2> SUFFICES ASSUME ~raced, ~stale[r], file' = buf[r] PROVE FileGood'
    BY <1>1, <1>4, WriteDoes DEF Write, Unreadable, TypeOK
  <2>1. /\ KeptIn(buf[r], own)
        /\ ProviderAs(buf[r], IF Pair(cmd[r]) = "provider" THEN cmd[r] ELSE latest.provider)
        /\ HooksAs(buf[r], IF Pair(cmd[r]) = "hooks" THEN cmd[r] ELSE latest.hooks)
    BY <1>1, <1>4 DEF BufGood, Write, Loaded
  <2>2. /\ own' = own
        /\ latest'.provider = IF Pair(cmd[r]) = "provider" THEN cmd[r] ELSE latest.provider
        /\ latest'.hooks = IF Pair(cmd[r]) = "hooks" THEN cmd[r] ELSE latest.hooks
    BY <1>1, <1>4 DEF Write, TypeOK, Pair
  <2> QED
    BY <2>1, <2>2
<1>5. CASE UserStep
  BY <1>5, UserDoes
<1>6. CASE UNCHANGED vars
  BY <1>1, <1>6 DEF vars
<1> QED
  BY <1>2, <1>3, <1>4, <1>5, <1>6, NextIs

LEMMA StepBufGood == IInv /\ [Next]_vars => BufGood'
<1> SUFFICES ASSUME IInv, [Next]_vars PROVE BufGood'
  OBVIOUS
<1> USE DEF BufGood, Loaded
<1>1. TypeOK /\ BufGood
  BY DEF IInv
<1>2. ASSUME NEW r \in Runs, Invokes(r) PROVE BufGood'
  BY <1>1, <1>2 DEF Invokes, Invoke, Goes, TypeOK
<1>3. ASSUME NEW r \in Runs, Load(r) PROVE BufGood'
  <2>1. CASE UNCHANGED <<buf, stale>> /\ at'[r] \in {"failed", "shown"}
    BY <1>1, <1>3, <2>1 DEF Load, Goes, TypeOK
  <2>2. CASE /\ Readable /\ cmd[r] # "provider" /\ Goes(r, "open")
             /\ buf' = [buf EXCEPT ![r] = Edited(file, r)]
             /\ stale' = [stale EXCEPT ![r] = FALSE]
    <3>1. buf'[r] = Edited(file, r) /\ \A q \in Runs \ {r} : /\ buf'[q] = buf[q] /\ at'[q] = at[q]
                                                             /\ stale'[q] = stale[q]
      BY <1>1, <2>2 DEF Goes, TypeOK
    <3>2. UNCHANGED <<cmd, raced, latest, own>> /\ at[r] = "load"
      BY <1>3 DEF Load
    <3> QED
      BY <1>1, <2>2, <3>1, <3>2, LoadDoes
  <2> QED
    BY <1>1, <1>3, <2>1, <2>2 DEF Load, Goes, TypeOK
<1>4. ASSUME NEW r \in Runs, Open(r) \/ Kill(r) PROVE BufGood'
  BY <1>1, <1>4 DEF Open, Kill, Goes, TypeOK
<1>5. ASSUME NEW r \in Runs, Write(r) PROVE BufGood'
  <2>1. \A q \in Runs : ~Loaded(q)' \/ stale'[q]
    BY <1>1, <1>5 DEF Write, Goes, Touched, TypeOK
  <2> QED
    BY <2>1
<1>6. CASE UserStep
  BY <1>6, UserDoes
<1>7. CASE UNCHANGED vars
  BY <1>1, <1>7 DEF vars
<1> QED
  BY <1>2, <1>3, <1>4, <1>5, <1>6, <1>7, NextIs

LEMMA StepBroken == IInv /\ [Next]_vars => EmptiedOK' /\ BrokenOnlyByWriters'
<1> SUFFICES ASSUME IInv, [Next]_vars PROVE EmptiedOK' /\ BrokenOnlyByWriters'
  OBVIOUS
<1> USE DEF EmptiedOK, BrokenOnlyByWriters
<1>1. TypeOK /\ EmptiedOK /\ BrokenOnlyByWriters
  BY DEF IInv
<1>2. ASSUME NEW r \in Runs, Invokes(r) PROVE EmptiedOK' /\ BrokenOnlyByWriters'
  BY <1>1, <1>2 DEF Invokes, Invoke, Goes, TypeOK
<1>3. ASSUME NEW r \in Runs, Load(r) PROVE EmptiedOK' /\ BrokenOnlyByWriters'
  BY <1>1, <1>3 DEF Load, Goes, TypeOK
<1>4. ASSUME NEW r \in Runs, Open(r) PROVE EmptiedOK' /\ BrokenOnlyByWriters'
  BY <1>1, <1>4 DEF Open, Goes, TypeOK, Empty, Garbled
<1>5. ASSUME NEW r \in Runs, Write(r) PROVE EmptiedOK' /\ BrokenOnlyByWriters'
  <2>1. file' # Empty
    <3>1. Garbled # Empty
      BY DEF Garbled, Empty
    <3> QED
      BY <1>5, <3>1, WriteDoes, ContentsRead DEF Unreadable
  <2>2. file' = Garbled => raced'
    BY <1>1, <1>5, WriteDoes DEF Write, TypeOK
  <2>3. \A q \in Runs : at'[q] = "write" => stale'[q]
    BY <1>1, <1>5 DEF Write, Goes, Touched, TypeOK
  <2> QED
    BY <2>1, <2>2, <2>3
<1>6. ASSUME NEW r \in Runs, Kill(r) PROVE EmptiedOK' /\ BrokenOnlyByWriters'
  BY <1>1, <1>6 DEF Kill, Goes, TypeOK
<1>7. CASE UserStep
  BY <1>7, UserDoes, ContentsRead DEF Unreadable
<1>8. CASE UNCHANGED vars
  BY <1>1, <1>8 DEF vars
<1> QED
  BY <1>2, <1>3, <1>4, <1>5, <1>6, <1>7, <1>8, NextIs

-----------------------------------------------------------------------------
LEMMA NextInv == IInv /\ [Next]_vars => IInv'
BY StepTypeOK, StepRunOK, StepFileWhole, StepFileGood, StepBufGood, StepBroken DEF IInv

LEMMA Inductive == Spec => []IInv
BY InitInv, NextInv, PTL DEF Spec

(* The file and what every run holds of it keep their types.                *)
THEOREM SettingsTypeOK == Spec => []TypeOK
<1>1. IInv => TypeOK
  BY DEF IInv
<1> QED
  BY <1>1, Inductive, PTL

(* What the user has put in stays through any series of commands, unless a  *)
(* run wrote over a change it had not read.                                 *)
THEOREM SettingsOwnKept == Spec => []OwnKept
<1>1. IInv => OwnKept
  BY DEF IInv, FileGood, OwnKept, KeptIn
<1> QED
  BY <1>1, Inductive, PTL

(* What the last command of each pair was for is there, with the same       *)
(* exception.                                                               *)
THEOREM SettingsLastWins == Spec => []LastWins
<1>1. IInv => LastWins
  BY DEF IInv, FileGood, LastWins, ProviderAs, HooksAs, OursIn, Ours
<1> QED
  BY <1>1, Inductive, PTL

(* Races or not, the keys of BEDROCK_ENV are there together or not at all,  *)
(* and so are our hooks, none of them twice.                                *)
THEOREM SettingsNeverHalf == Spec => []NeverHalf
<1>1. IInv => NeverHalf
  BY DEF IInv, FileWhole, NeverHalf, KeysWhole, HooksWhole, OursIn, Ours
<1> QED
  BY <1>1, Inductive, PTL

(* Only a run that is writing, or was killed doing so, leaves the file      *)
(* empty, and only two that write at once leave it garbled.                 *)
THEOREM SettingsBroken == Spec => []BrokenOnlyByWriters
<1>1. IInv => BrokenOnlyByWriters
  BY DEF IInv
<1> QED
  BY <1>1, Inductive, PTL

-----------------------------------------------------------------------------
(* The store. *)

(* What is known of the call in progress, and that revisions only grow.    *)
(* The safety properties are not inductive without it: a row that is about *)
(* to be written must be newer than everything there is, a removal must    *)
(* have emptied the cache first, and a daemon that is down has no call.    *)
OpOK ==
  /\ ~up => Idle
  /\ new <= rev
  /\ \A s \in Sessions : rows[s] <= rev /\ acked[s] <= rev /\ removed[s] <= rev
  /\ next = "row" =>
       \A s \in Sessions :
            rows[s] < new /\ acked[s] < new /\ removed[s] < new
  /\ next = "cache" => rows[who] = new
  /\ next \in {"history", "delete"} => cache[who] = Missing

StoreInv == StoreTypeOK /\ OpOK /\ CacheBacked /\ NothingLost /\ StaysRemoved

-----------------------------------------------------------------------------

(* The store starts with its type right. *)
LEMMA InitType == StoreInit => StoreTypeOK
BY StoreAssumption DEF StoreAssumption, StoreInit, StoreTypeOK, Idle, Missing, Revs, Record

(* Every statement, crash and restart keeps the store's variables in type. *)
LEMMA NextType == StoreTypeOK /\ [StoreNext]_storeVars => StoreTypeOK'
<1> SUFFICES ASSUME StoreTypeOK, [StoreNext]_storeVars PROVE StoreTypeOK'
  OBVIOUS
<1> USE StoreAssumption DEF StoreAssumption, StoreTypeOK, Revs, Missing
<1>1. ASSUME NEW s \in Sessions, Upsert(s) PROVE StoreTypeOK'
  BY <1>1 DEF Upsert, Start, Idle
<1>2. ASSUME NEW s \in Sessions, Remove(s) PROVE StoreTypeOK'
  BY <1>2 DEF Remove, Start, Idle
<1>3. CASE UpsertRow
  BY <1>3 DEF UpsertRow, Goto, Idle
<1>4. CASE UpsertCache
  BY <1>4 DEF UpsertCache, Return, Idle
<1>5. CASE RemoveHistory
  <2>1. [session |-> who, rev |-> new] \in Record
    BY <1>5 DEF RemoveHistory, Idle, Record
  <2>2. history \in Seq(Record)
    OBVIOUS
  <2>3. history' \in Seq(Record)
    BY <1>5, <2>1, <2>2, AppendProperties DEF RemoveHistory
  <2> QED
    BY <1>5, <2>3 DEF RemoveHistory, Goto, Idle
<1>6. CASE RemoveRow
  BY <1>6 DEF RemoveRow, Idle, Return
<1>7. CASE StatementFails
  BY <1>7 DEF StatementFails, Return, Idle
<1>8. CASE Crash
  <2>1. cache' \in [Sessions -> Revs] /\ faults' \in 0 .. MaxFaults
    BY <1>8 DEF Crash
  <2>2. up' \in BOOLEAN
    BY <1>8 DEF Crash
  <2>3. next' = "none" /\ new' = 0 /\ UNCHANGED <<rows, history, rev, acked, removed>>
    BY <1>8 DEF Crash, Return
  <2> QED
    BY <2>1, <2>2, <2>3 DEF Idle
<1>9. CASE Restart
  BY <1>9 DEF Restart, Idle
<1>10. CASE UNCHANGED storeVars
  BY <1>10 DEF storeVars, Idle
<1> QED
  BY <1>1, <1>2, <1>3, <1>4, <1>5, <1>6, <1>7, <1>8, <1>9, <1>10 DEF StoreNext

(* Type correctness: the store's variables keep their types. *)
THEOREM StoreTyped == StoreSpec => []StoreTypeOK
<1>1. StoreInit => StoreTypeOK
  BY InitType
<1>2. StoreTypeOK /\ [StoreNext]_storeVars => StoreTypeOK'
  BY NextType
<1> QED
  BY <1>1, <1>2, PTL DEF StoreSpec

(* The history only grows: what is in it stays in it. *)
LEMMA HistoryGrows ==
  ASSUME StoreTypeOK, [StoreNext]_storeVars, NEW s \in Sessions, NEW r \in Revs, InHistory(s, r)
  PROVE  InHistory(s, r)'
<1>1. CASE UNCHANGED history
  BY <1>1 DEF InHistory
<1>2. CASE RemoveHistory
  <2>1. PICK i \in 1 .. Len(history) : history[i] = [session |-> s, rev |-> r]
    BY DEF InHistory
  <2>2. history' = Append(history, [session |-> who, rev |-> new])
    BY <1>2 DEF RemoveHistory
  <2>3. i \in 1 .. Len(history') /\ history'[i] = history[i]
    BY <2>1, <2>2 DEF StoreTypeOK
  <2> QED
    BY <2>1, <2>3 DEF InHistory
<1>3. UNCHANGED history \/ RemoveHistory
  BY DEF StoreNext, storeVars, Upsert, UpsertRow, UpsertCache, Remove, RemoveRow,
         StatementFails, Crash, Restart
<1> QED
  BY <1>1, <1>2, <1>3

(* OpOK, CacheBacked and StaysRemoved are preserved together. *)
LEMMA NextOp ==
  StoreTypeOK /\ OpOK /\ CacheBacked /\ StaysRemoved /\ [StoreNext]_storeVars
         => OpOK' /\ CacheBacked' /\ StaysRemoved'
<1> SUFFICES ASSUME StoreTypeOK, OpOK, CacheBacked, StaysRemoved, [StoreNext]_storeVars
             PROVE  OpOK' /\ CacheBacked' /\ StaysRemoved'
  OBVIOUS
<1> USE StoreAssumption DEF StoreAssumption, StoreTypeOK, Revs, Missing, OpOK, CacheBacked, StaysRemoved
<1>1. ASSUME NEW s \in Sessions, Upsert(s) PROVE OpOK' /\ CacheBacked' /\ StaysRemoved'
  BY <1>1 DEF Upsert, Start, Idle
<1>2. ASSUME NEW s \in Sessions, Remove(s) PROVE OpOK' /\ CacheBacked' /\ StaysRemoved'
  BY <1>2 DEF Remove, Start, Idle
<1>3. CASE UpsertRow
  <2> USE <1>3 DEF UpsertRow, Goto, Idle
  <2>1. rows' = [rows EXCEPT ![who] = new] /\ who \in Sessions
    OBVIOUS
  <2>2. OpOK'
    OBVIOUS
  <2>3. CacheBacked'
    BY <2>1
  <2>4. StaysRemoved'
    BY <2>1
  <2> QED
    BY <2>2, <2>3, <2>4
<1>4. CASE UpsertCache
  BY <1>4 DEF UpsertCache, Idle, Return
<1>5. CASE RemoveHistory
  BY <1>5 DEF RemoveHistory, Idle, Goto
<1>6. CASE RemoveRow
  <2> USE <1>6 DEF RemoveRow, Return, Idle
  <2>1. rows' = [rows EXCEPT ![who] = Missing] /\ who \in Sessions
    OBVIOUS
  <2>2. OpOK'
    OBVIOUS
  <2>3. CacheBacked'
    BY <2>1
  <2>4. StaysRemoved'
    BY <2>1
  <2> QED
    BY <2>2, <2>3, <2>4
<1>7. CASE StatementFails
  BY <1>7 DEF StatementFails, Idle, Return
<1>8. CASE Crash
  BY <1>8 DEF Crash, Idle, Return
<1>9. CASE Restart
  BY <1>9 DEF Restart, Idle
<1>10. CASE UNCHANGED storeVars
  BY <1>10 DEF storeVars, Idle
<1> QED
  BY <1>1, <1>2, <1>3, <1>4, <1>5, <1>6, <1>7, <1>8, <1>9, <1>10 DEF StoreNext

(* An accepted revision stays in the table or the history. *)
LEMMA NextNothingLost == StoreTypeOK /\ OpOK /\ NothingLost /\ [StoreNext]_storeVars => NothingLost'
<1> SUFFICES ASSUME StoreTypeOK, OpOK, NothingLost, [StoreNext]_storeVars,
                    NEW s \in Sessions, acked'[s] # Missing
             PROVE  rows'[s] >= acked'[s]
                      \/ \E r \in Revs : r >= acked'[s] /\ InHistory(s, r)'
  BY DEF NothingLost
<1> USE StoreAssumption DEF StoreAssumption, StoreTypeOK, Revs, Missing
<1>1. CASE acked'[s] = acked[s]
  <2>1. rows[s] >= acked[s] \/ \E r \in Revs : r >= acked[s] /\ InHistory(s, r)
    BY <1>1 DEF NothingLost
  <2>2. CASE rows[s] >= acked[s]
    <3>1. rows' = rows \/ UpsertRow \/ RemoveRow
      BY DEF StoreNext, storeVars, Upsert, UpsertCache, Remove, RemoveHistory,
             StatementFails, Crash, Restart
    <3>2. CASE rows' = rows
      BY <1>1, <2>2, <3>2
    <3>3. CASE UpsertRow
      BY <1>1, <2>2, <3>3 DEF UpsertRow, Idle, OpOK
    <3>4. CASE RemoveRow
      BY <1>1, <2>2, <3>4 DEF RemoveRow, Idle
    <3> QED
      BY <3>1, <3>2, <3>3, <3>4
  <2>3. CASE \E r \in Revs : r >= acked[s] /\ InHistory(s, r)
    BY <1>1, <2>3, HistoryGrows
  <2> QED
    BY <2>1, <2>2, <2>3
<1>2. CASE acked'[s] # acked[s]
  <2>1. UpsertCache \/ RemoveRow
    BY <1>2 DEF StoreNext, storeVars, Upsert, UpsertRow, Remove, RemoveHistory,
                StatementFails, Crash, Restart, Return, Goto, Start
  <2>2. CASE UpsertCache
    BY <1>2, <2>2 DEF UpsertCache, OpOK, Idle
  <2>3. CASE RemoveRow
    BY <1>2, <2>3 DEF RemoveRow, Idle
  <2> QED
    BY <2>1, <2>2, <2>3
<1> QED
  BY <1>1, <1>2

LEMMA StoreInitInv == StoreInit => StoreInv
BY InitType DEF StoreInit, StoreInv, Revs, OpOK, CacheBacked, NothingLost,
   StaysRemoved, Idle, Missing

LEMMA StoreNextInv == StoreInv /\ [StoreNext]_storeVars => StoreInv'
BY NextType, NextOp, NextNothingLost DEF StoreInv

LEMMA StoreInductive == StoreSpec => []StoreInv
<1>1. StoreInit => StoreInv
  BY StoreInitInv
<1>2. StoreInv /\ [StoreNext]_storeVars => StoreInv'
  BY StoreNextInv
<1> QED
  BY <1>1, <1>2, PTL DEF StoreSpec

(* Nothing accepted is lost, whatever crashes or fails: it stays in the     *)
(* table, or in the history once it has been removed.                       *)
THEOREM StoreNothingLost == StoreSpec => []NothingLost
<1>1. StoreSpec => []StoreInv
  BY StoreInductive
<1>2. StoreInv => NothingLost
  BY DEF StoreInv
<1> QED
  BY <1>1, <1>2, PTL

(* get and list never show what a crash could take back: the row is        *)
(* committed before the cache has it.                                      *)
THEOREM StoreCacheBacked == StoreSpec => []CacheBacked
<1>1. StoreSpec => []StoreInv
  BY StoreInductive
<1>2. StoreInv => CacheBacked
  BY DEF StoreInv
<1> QED
  BY <1>1, <1>2, PTL

(* remove outlives a restart: no crash between its statements brings the   *)
(* session back.                                                           *)
THEOREM StoreStaysRemoved == StoreSpec => []StaysRemoved
<1>1. StoreSpec => []StoreInv
  BY StoreInductive
<1>2. StoreInv => StaysRemoved
  BY DEF StoreInv
<1> QED
  BY <1>1, <1>2, PTL

(* A daemon that restarts holds every accepted session. *)
THEOREM StoreSurvivesRestart == StoreSpec => SurvivesRestart
<1>1. ASSUME StoreInv, [StoreNext]_storeVars
      PROVE [~up /\ up' =>
               \A s \in Sessions :
                 acked[s] # Missing =>
                   cache'[s] >= acked[s]
                     \/ \E r \in Revs : r >= acked[s] /\ InHistory(s, r)]_storeVars
  <2> SUFFICES ASSUME ~up, up' PROVE cache' = rows
    BY <1>1 DEF StoreInv, NothingLost
  <2> QED
    BY <1>1 DEF StoreNext, storeVars, Upsert, UpsertRow, UpsertCache,
         Remove, RemoveHistory, RemoveRow, StatementFails, Crash,
         Restart
<1>2. StoreSpec => []StoreInv
  BY StoreInductive
<1> QED
  BY <1>1, <1>2, PTL DEF StoreSpec, SurvivesRestart
(* The store as a map: what a removal may rely on -- its row is still the   *)
(* one it took from the cache, and before it deletes that, it is in the     *)
(* history -- and that what is about to be written is newer than what was   *)
(* ever removed.                                                            *)
RemovalOK ==
  /\ next \in {"history", "delete"} => rows[who] = new
  /\ next = "delete" => \E i \in 1 .. Len(history) : history[i] = [session |-> who, rev |-> new]
  /\ \A i \in 1 .. Len(history) :
       history[i].rev <= rev /\ (next = "row" => history[i].rev < new)

Closed == {history[i] : i \in 1 .. Len(history)}
Shown == [s \in Sessions |->
            IF ~up \/ (next = "cache" /\ who = s) THEN rows[s] ELSE cache[s]]

(* The history as a set, when it grows by a record. *)
LEMMA HistoryAppends ==
  ASSUME StoreTypeOK, RemoveHistory
  PROVE  /\ Closed' = Closed \union {[session |-> who, rev |-> new]}
         /\ history \in Seq(Record) /\ Len(history') = Len(history) + 1
         /\ \A i \in 1 .. Len(history) : history'[i] = history[i]
         /\ history'[Len(history')] = [session |-> who, rev |-> new]
<1> DEFINE record == [session |-> who, rev |-> new]
<1>1. history \in Seq(Record) /\ history' = Append(history, record)
  BY DEF StoreTypeOK, RemoveHistory
<1>2. /\ Len(history') = Len(history) + 1 /\ Len(history) \in Nat
      /\ \A i \in 1 .. Len(history) : history'[i] = history[i]
      /\ history'[Len(history) + 1] = record
  BY <1>1
<1>3. 1 .. Len(history') = (1 .. Len(history)) \union {Len(history')}
  BY <1>2
<1>4. Closed' = Closed \union {record}
  BY <1>2, <1>3 DEF Closed
<1> QED
  BY <1>1, <1>2, <1>4

LEMMA NextRemoval == StoreInv /\ RemovalOK /\ [StoreNext]_storeVars => RemovalOK'
<1> SUFFICES ASSUME StoreInv, RemovalOK, [StoreNext]_storeVars PROVE RemovalOK'
  OBVIOUS
<1> USE DEF StoreInv
<1>1. ASSUME NEW s \in Sessions, Upsert(s) PROVE RemovalOK'
  <2>1. rev \in Nat /\ \A i \in 1 .. Len(history) : history[i].rev \in Nat
    <3>1. history \in Seq(Record) /\ rev \in Nat
      BY StoreAssumption DEF StoreTypeOK, StoreAssumption, Revs
    <3>2. \A i \in 1 .. Len(history) : history[i] \in Record
      BY <3>1
    <3>3. \A x \in Record : x.rev \in Nat
      BY StoreAssumption DEF StoreAssumption, Record, Revs
    <3> QED
      BY <3>1, <3>2, <3>3
  <2>2. \A i \in 1 .. Len(history) : history[i].rev < rev + 1
    BY <2>1 DEF RemovalOK
  <2>3. next' = "row" /\ new' = rev + 1 /\ rev' = rev + 1 /\ UNCHANGED history
    BY <1>1 DEF Upsert, Start
  <2> QED
    BY <2>1, <2>2, <2>3 DEF RemovalOK
<1>2. ASSUME NEW s \in Sessions, Remove(s) PROVE RemovalOK'
  BY <1>2 DEF Remove, Start, RemovalOK, CacheBacked, Idle, Missing
<1>3. CASE UpsertRow
  BY <1>3 DEF UpsertRow, Goto, RemovalOK
<1>4. CASE UpsertCache
  BY <1>4 DEF UpsertCache, Return, RemovalOK
<1>5. CASE RemoveHistory
  <2>1. UNCHANGED <<rows, who, new, rev>> /\ next' = "delete" /\ next = "history"
    BY <1>5 DEF RemoveHistory, Goto
  <2>2. Len(history) \in Nat
    BY DEF StoreTypeOK
  <2>3. \A i \in 1 .. Len(history') : history'[i].rev <= rev
    BY <1>5, <2>2, HistoryAppends DEF RemovalOK, OpOK
  <2> QED
    BY <1>5, <2>1, <2>2, <2>3, HistoryAppends DEF RemovalOK
<1>6. CASE RemoveRow
  BY <1>6 DEF RemoveRow, Return, RemovalOK
<1>7. CASE StatementFails
  BY <1>7 DEF StatementFails, Return, RemovalOK
<1>8. CASE Crash
  BY <1>8 DEF Crash, Return, RemovalOK
<1>9. CASE Restart
  BY <1>9 DEF Restart, RemovalOK
<1>10. CASE UNCHANGED storeVars
  BY <1>10 DEF storeVars, RemovalOK
<1> QED
  BY <1>1, <1>2, <1>3, <1>4, <1>5, <1>6, <1>7, <1>8, <1>9, <1>10 DEF StoreNext

(* Every statement is a step of the map, or none. *)
LEMMA NextOnMap == StoreInv /\ RemovalOK /\ [StoreNext]_storeVars => [Map!Next]_Map!vars
<1> SUFFICES ASSUME StoreInv, RemovalOK, [StoreNext]_storeVars PROVE [Map!Next]_Map!vars
  OBVIOUS
<1> DEFINE Stutters == UNCHANGED <<rows, Shown, Closed>>
<1>0. Stutters => UNCHANGED Map!vars
  BY DEF Map!vars, Shown, Closed
<1> HIDE DEF Stutters
<1> USE DEF StoreInv, StoreTypeOK, Missing
<1>1. ASSUME NEW s \in Sessions, Upsert(s) PROVE Stutters
  BY <1>1 DEF Upsert, Start, Idle, Shown, Closed, Stutters
<1>2. ASSUME NEW s \in Sessions, Remove(s) PROVE Map!Hide(s)
  BY <1>2 DEF Remove, Start, Idle, Map!Hide
<1>3. ASSUME NEW s \in Sessions, NEW r \in Revs, s = who, r = new, UpsertRow PROVE Map!Write(s, r)
  <2>1. who \in Sessions /\ new \in Revs /\ new > rows[who]
    BY <1>3 DEF UpsertRow, OpOK, Idle, Revs
  <2>2. \A c \in Closed : c.session = who => new > c.rev
    BY <1>3 DEF UpsertRow, RemovalOK, Closed, Record, Revs
  <2>3. Shown' = [Shown EXCEPT ![who] = new] /\ rows' = [rows EXCEPT ![who] = new]
        /\ UNCHANGED Closed
    BY <1>3, <2>1 DEF UpsertRow, Goto, Shown, Closed
  <2> QED
    BY <1>3, <2>1, <2>2, <2>3 DEF Map!Write, Shown, Closed
<1>4. ASSUME UpsertCache PROVE Stutters
  BY <1>4 DEF UpsertCache, Return, OpOK, Idle, Shown, Closed, Stutters
<1>5. ASSUME NEW s \in Sessions, s = who, RemoveHistory PROVE Map!Close(s)
  <2>1. who \in Sessions /\ rows[who] = new /\ new # 0 /\ Shown[who] = 0 /\ UNCHANGED <<rows, Shown>>
    BY <1>5 DEF RemoveHistory, Goto, OpOK, RemovalOK, Idle, Shown
  <2>2. Closed' = Closed \union {[session |-> who, rev |-> new]}
    BY <1>5, HistoryAppends
  <2> QED
    BY <1>5, <2>1, <2>2 DEF Map!Close, Shown, Closed
<1>6. ASSUME NEW s \in Sessions, s = who, RemoveRow PROVE Map!Forget(s)
  <2>1. who \in Sessions /\ rows[who] = new /\ Shown[who] = 0
        /\ [session |-> who, rev |-> new] \in Closed
    BY <1>6 DEF RemoveRow, OpOK, RemovalOK, Idle, Shown, Closed
  <2>2. rows' = [rows EXCEPT ![who] = 0] /\ UNCHANGED <<Shown, Closed>>
    BY <1>6 DEF RemoveRow, Return, Shown, Closed
  <2> QED
    BY <1>6, <2>1, <2>2 DEF Map!Forget, Shown, Closed
<1>7. ASSUME StatementFails PROVE Stutters
  BY <1>7 DEF StatementFails, Return, Shown, Closed, Stutters
<1>8. ASSUME Crash PROVE Map!Reopen
  <2>1. Shown' = rows /\ UNCHANGED <<rows, Closed>>
    BY <1>8 DEF Crash, Return, Shown, Closed
  <2> QED
    BY <2>1 DEF Map!Reopen, Shown, Closed
<1>9. ASSUME Restart PROVE Stutters
  BY <1>9 DEF Restart, OpOK, Idle, Shown, Closed, Stutters
<1>10. ASSUME UNCHANGED storeVars PROVE Stutters
  BY <1>10 DEF storeVars, Shown, Closed, Stutters
<1> HIDE DEF StoreInv, StoreTypeOK
<1>11. \/ Stutters \/ Map!Reopen
       \/ \E s \in Sessions : Map!Hide(s) \/ Map!Close(s) \/ Map!Forget(s)
       \/ \E s \in Sessions, r \in Revs : Map!Write(s, r)
  <2>1. CASE \E s \in Sessions : Upsert(s) \/ Remove(s)
    BY <1>1, <1>2, <2>1
  <2>2. CASE UpsertRow \/ RemoveHistory \/ RemoveRow
    <3>1. who \in Sessions /\ new \in Revs
      BY <2>2 DEF UpsertRow, RemoveHistory, RemoveRow, StoreInv, StoreTypeOK, Idle
    <3>2. PICK s \in Sessions, r \in Revs : s = who /\ r = new
      BY <3>1
    <3> QED
      BY <1>3, <1>5, <1>6, <2>2, <3>2
  <2>3. CASE UpsertCache \/ StatementFails \/ Crash \/ Restart \/ UNCHANGED storeVars
    BY <1>4, <1>7, <1>8, <1>9, <1>10, <2>3
  <2> QED
    BY <2>1, <2>2, <2>3 DEF StoreNext
<1>12. \/ UNCHANGED Map!vars \/ Map!Next
  BY <1>0, <1>11 DEF Map!Next
<1> QED
  BY <1>12

(* To its callers the store is the map of SessionMap, whatever statements   *)
(* fail and whenever the daemon crashes.                                    *)
THEOREM StoreImplementsMap == StoreSpec => ImplementsMap
<1>1. StoreInit => RemovalOK /\ Map!Init
  BY DEF StoreInit, RemovalOK, Map!Init, Map!Nothing, Missing
<1>2. StoreInv /\ RemovalOK /\ [StoreNext]_storeVars => RemovalOK'
  BY NextRemoval
<1>3. StoreInv /\ RemovalOK /\ [StoreNext]_storeVars => [Map!Next]_Map!vars
  BY NextOnMap
<1>4. StoreSpec => []StoreInv
  BY StoreInductive
<1> QED
  BY <1>1, <1>2, <1>3, <1>4, PTL DEF StoreSpec, ImplementsMap, Map!Spec
=============================================================================
