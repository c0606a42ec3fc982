-------------------------- MODULE CloudControlProofs --------------------------
(* Safety of CloudControl, for any number of invocations, addresses, sizes, *)
(* moves and faults.                                                        *)
EXTENDS CloudControl, FiniteSetTheorems, TLAPS

(* A run is where its command takes it, with what it has read by then. *)
InItsCommand == \A r \in Runs :
  /\ at[r] \in {"idle", "menu"} => cmd[r] = "none"
  /\ at[r] = "menu" => seen[r] \in States
  /\ at[r] = "halting" => cmd[r] = "stop"
  /\ at[r] \in {"boot", "booting", "sg", "dns", "reach"} => cmd[r] = "start"
  /\ at[r] \in {"rules", "revoke"} =>
       cmd[r] \in {"start", "refresh-sg"} /\ my[r] \in Addresses
  /\ at[r] = "upsert" => cmd[r] \in {"start", "refresh-dns"}
  /\ at[r] \in {"modify", "growing", "resizefs"} => cmd[r] = "grow"

(* A refresh does not revoke the address that it looked up. *)
SparesItsOwn == \A r \in Runs : at[r] = "revoke" => my[r] \notin stale[r]

(* Until two refreshes overlap, the one that revokes has every other rule  *)
(* on its list.                                                            *)
ListsAll == ~shared =>
  /\ \A a, b \in rules : a = b
  /\ \A r, q \in Runs : at[r] = "revoke" /\ at[q] = "revoke" => r = q
  /\ \A r \in Runs : at[r] = "revoke" => rules \subseteq stale[r] \union {my[r]}

(* Unless a modification fails, the volume only grows, its file system is  *)
(* not larger, and a run that waits for it finds it grown.                 *)
GrowthOK == ~broken =>
  /\ change # "failed"
  /\ change = "modifying" => size <= wanted
  /\ fs <= size
  /\ \A r \in Runs :
       /\ at[r] = "growing" =>
            want[r] <= size \/ (change = "modifying" /\ want[r] <= wanted)
       /\ at[r] = "resizefs" => want[r] <= size
       /\ cmd[r] = "grow" /\ at[r] = "done" => want[r] <= fs

(* A stopped instance has no address, and none such is written to DNS. *)
AddressOK ==
  /\ state = "stopped" => ip = 0
  /\ \A r \in Runs : at[r] = "upsert" => got[r] # 0

(* What a start has achieved at each of its places while it is calm. *)
Achieved(r) ==
  /\ cmd[r] = "start" /\ at[r] \notin {"idle", "menu", "begin"}
  /\ at[r] \in {"sg", "rules", "revoke", "dns", "upsert", "reach", "done"}
       => state = "running"
  /\ at[r] = "revoke" /\ known[r] => here \in rules
  /\ at[r] \in {"dns", "upsert", "reach", "done"} => here \in rules
  /\ at[r] \in {"reach", "done"} => record = ip

CalmOK == \A r \in Runs : calm[r] => UpToDate /\ Achieved(r)

IInv == /\ TypeOK /\ InItsCommand /\ SparesItsOwn /\ ListsAll
        /\ GrowthOK /\ AddressOK /\ CalmOK

-----------------------------------------------------------------------------
(* Initially every run is idle. *)
LEMMA InitInv == Init => IInv
<1> SUFFICES ASSUME Init PROVE IInv
  OBVIOUS
<1>1. TypeOK
  <2> USE CloudAssumption DEF Init, TypeOK, Places, States
  <2>1. state \in States /\ ip \in Nat /\ boots \in Nat /\ record \in Nat
    OBVIOUS
  <2>2. rules \subseteq Addresses /\ here \in Addresses
    OBVIOUS
  <2>3. calm \in [Runs -> BOOLEAN] /\ shared \in BOOLEAN /\ broken \in BOOLEAN
    OBVIOUS
  <2>4. known \in [Runs -> BOOLEAN] /\ stale \in [Runs -> SUBSET Addresses]
    OBVIOUS
  <2> QED
    BY <2>1, <2>2, <2>3, <2>4
<1>2. InItsCommand /\ SparesItsOwn /\ AddressOK /\ CalmOK
  BY DEF Init, InItsCommand, SparesItsOwn, AddressOK, CalmOK
<1>3. ListsAll
  BY DEF Init, ListsAll
<1>4. GrowthOK
  BY CloudAssumption DEF Init, GrowthOK
<1> QED
  BY <1>1, <1>2, <1>3, <1>4 DEF IInv

(* The menu offers commands. *)
LEMMA OffersCommands ==
  ASSUME NEW s \in States
  PROVE  Offered[s] \subseteq Commands
BY DEF Offered, Commands, States

(* Sizes are numbers. *)
LEMMA Numbers ==
  ASSUME TypeOK
  PROVE  {size, fs, wanted, Small} \subseteq Nat /\ want \in [Runs -> Nat]
BY CloudAssumption DEF TypeOK

(* Every step keeps the types. *)
LEMMA NextType ==
  ASSUME TypeOK, InItsCommand, [Next]_vars
  PROVE  TypeOK'
<1> USE CloudAssumption DEF TypeOK, Goes, Places, States, Commands, instance,
        volume, laptop, locals, history
<1>1. ASSUME NEW r \in Runs, Type(r) PROVE TypeOK'
  BY <1>1 DEF Type, Takes
<1>2. ASSUME NEW r \in Runs, Menu(r) PROVE TypeOK'
  BY <1>2 DEF Menu
<1>3. ASSUME NEW r \in Runs, Pick(r) PROVE TypeOK'
  <2>1. seen[r] \in States
    BY <1>3 DEF Pick, InItsCommand
  <2>2. PICK c \in Commands : Takes(r, c)
    BY <1>3, <2>1, OffersCommands DEF Pick
  <2> QED
    BY <2>2 DEF Takes
<1>4. ASSUME NEW r \in Runs, PickNothing(r) PROVE TypeOK'
  BY <1>4 DEF PickNothing, Just
<1>5. ASSUME NEW r \in Runs, Start(r) PROVE TypeOK'
  BY <1>5 DEF Start, UpToDate
<1>6. ASSUME NEW r \in Runs, Boot(r) PROVE TypeOK'
  BY <1>6 DEF Boot
<1>7. ASSUME NEW r \in Runs, Stop(r) PROVE TypeOK'
  BY <1>7 DEF Stop, Disturbed
<1>8. ASSUME NEW r \in Runs, Arrives(r) PROVE TypeOK'
  BY <1>8 DEF Arrives, Just, Reachable
<1>9. ASSUME NEW r \in Runs, Timeout(r) PROVE TypeOK'
  BY <1>9 DEF Timeout, Just, Ended
<1>10. ASSUME NEW r \in Runs, LookUp(r) PROVE TypeOK'
  BY <1>10 DEF LookUp
<1>11. ASSUME NEW r \in Runs, ReadRules(r) PROVE TypeOK'
  BY <1>11 DEF ReadRules
<1>12. ASSUME NEW r \in Runs, Revoke(r) PROVE TypeOK'
  BY <1>12 DEF Revoke
<1>13. ASSUME NEW r \in Runs, Authorize(r) PROVE TypeOK'
  <2>1. at' \in [Runs -> Places] /\ rules' \subseteq Addresses
    <3>1. CASE known[r]
      BY <1>13, <3>1 DEF Authorize
    <3>2. CASE ~known[r]
      BY <1>13, <3>2 DEF Authorize, InItsCommand
    <3> QED
      BY <3>1, <3>2
  <2> QED
    BY <1>13, <2>1 DEF Authorize
<1>14. ASSUME NEW r \in Runs, ReadIp(r) PROVE TypeOK'
  BY <1>14 DEF ReadIp
<1>15. ASSUME NEW r \in Runs, Upsert(r) PROVE TypeOK'
  BY <1>15 DEF Upsert
<1>16. ASSUME NEW r \in Runs, ReadSize(r) PROVE TypeOK'
  BY <1>16 DEF ReadSize, Just
<1>17. ASSUME NEW r \in Runs, Modify(r) PROVE TypeOK'
  BY <1>17 DEF Modify, Refuses
<1>18. ASSUME NEW r \in Runs, Polled(r) PROVE TypeOK'
  BY <1>18 DEF Polled, Just
<1>19. ASSUME NEW r \in Runs, ResizeFs(r) PROVE TypeOK'
  BY <1>19 DEF ResizeFs, Reachable
<1>20. ASSUME NEW r \in Runs, Breaks(r) PROVE TypeOK'
  BY <1>20 DEF Breaks, Ended
<1>21. CASE Booted
  BY <1>21 DEF Booted
<1>22. CASE Halted
  BY <1>22 DEF Halted, Down, Disturbed
<1>23. CASE BootFails
  BY <1>23 DEF BootFails, Down, Disturbed
<1>24. CASE Modified
  BY <1>24 DEF Modified
<1>25. CASE ModificationFails
  BY <1>25 DEF ModificationFails
<1>26. CASE Move
  BY <1>26 DEF Move, Disturbed
<1>27. CASE UNCHANGED vars
  BY <1>27 DEF vars
<1> QED
    BY <1>1, <1>2, <1>3, <1>4, <1>5, <1>6, <1>7, <1>8, <1>9, <1>10, <1>11,
     <1>12, <1>13, <1>14, <1>15, <1>16, <1>17, <1>18, <1>19, <1>20, <1>21,
     <1>22, <1>23, <1>24, <1>25, <1>26, <1>27 DEF Next, Proceeds, Account

(* Every step leaves a run where its command takes it. *)
LEMMA NextCommand ==
  ASSUME TypeOK, InItsCommand, [Next]_vars
  PROVE  InItsCommand'
<1> USE DEF TypeOK, InItsCommand, States, Goes, instance, volume, laptop,
        locals, history
<1>1. ASSUME NEW r \in Runs, Type(r) PROVE InItsCommand'
  BY <1>1 DEF Type, Takes
<1>2. ASSUME NEW r \in Runs, Menu(r) PROVE InItsCommand'
  BY <1>2 DEF Menu
<1>3. ASSUME NEW r \in Runs, Pick(r) PROVE InItsCommand'
  BY <1>3 DEF Pick, Takes
<1>4. ASSUME NEW r \in Runs, PickNothing(r) PROVE InItsCommand'
  BY <1>4 DEF PickNothing, Just
<1>5. ASSUME NEW r \in Runs, Start(r) PROVE InItsCommand'
  BY <1>5 DEF Start, UpToDate
<1>6. ASSUME NEW r \in Runs, Boot(r) PROVE InItsCommand'
  BY <1>6 DEF Boot
<1>7. ASSUME NEW r \in Runs, Stop(r) PROVE InItsCommand'
  BY <1>7 DEF Stop, Disturbed
<1>8. ASSUME NEW r \in Runs, Arrives(r) PROVE InItsCommand'
  BY <1>8 DEF Arrives, Just, Reachable
<1>9. ASSUME NEW r \in Runs, Timeout(r) PROVE InItsCommand'
  BY <1>9 DEF Timeout, Just, Ended
<1>10. ASSUME NEW r \in Runs, LookUp(r) PROVE InItsCommand'
  BY <1>10 DEF LookUp
<1>11. ASSUME NEW r \in Runs, ReadRules(r) PROVE InItsCommand'
  BY <1>11 DEF ReadRules
<1>12. ASSUME NEW r \in Runs, Revoke(r) PROVE InItsCommand'
  BY <1>12 DEF Revoke
<1>13. ASSUME NEW r \in Runs, Authorize(r) PROVE InItsCommand'
  BY <1>13 DEF Authorize
<1>14. ASSUME NEW r \in Runs, ReadIp(r) PROVE InItsCommand'
  BY <1>14 DEF ReadIp
<1>15. ASSUME NEW r \in Runs, Upsert(r) PROVE InItsCommand'
  BY <1>15 DEF Upsert
<1>16. ASSUME NEW r \in Runs, ReadSize(r) PROVE InItsCommand'
  BY <1>16 DEF ReadSize, Just
<1>17. ASSUME NEW r \in Runs, Modify(r) PROVE InItsCommand'
  BY <1>17 DEF Modify, Refuses
<1>18. ASSUME NEW r \in Runs, Polled(r) PROVE InItsCommand'
  BY <1>18 DEF Polled, Just
<1>19. ASSUME NEW r \in Runs, ResizeFs(r) PROVE InItsCommand'
  BY <1>19 DEF ResizeFs, Reachable
<1>20. ASSUME NEW r \in Runs, Breaks(r) PROVE InItsCommand'
  BY <1>20 DEF Breaks, Ended
<1>21. CASE Booted
  BY <1>21 DEF Booted
<1>22. CASE Halted
  BY <1>22 DEF Halted, Down, Disturbed
<1>23. CASE BootFails
  BY <1>23 DEF BootFails, Down, Disturbed
<1>24. CASE Modified
  BY <1>24 DEF Modified
<1>25. CASE ModificationFails
  BY <1>25 DEF ModificationFails
<1>26. CASE Move
  BY <1>26 DEF Move, Disturbed
<1>27. CASE UNCHANGED vars
  BY <1>27 DEF vars
<1> QED
    BY <1>1, <1>2, <1>3, <1>4, <1>5, <1>6, <1>7, <1>8, <1>9, <1>10, <1>11,
     <1>12, <1>13, <1>14, <1>15, <1>16, <1>17, <1>18, <1>19, <1>20, <1>21,
     <1>22, <1>23, <1>24, <1>25, <1>26, <1>27 DEF Next, Proceeds, Account

(* Every step spares the address looked up. *)
LEMMA NextSparing ==
  ASSUME TypeOK, SparesItsOwn, [Next]_vars
  PROVE  SparesItsOwn'
<1> USE DEF TypeOK, SparesItsOwn, Goes, instance, volume, laptop, locals, history
<1>1. ASSUME NEW r \in Runs, Type(r) PROVE SparesItsOwn'
  BY <1>1 DEF Type, Takes
<1>2. ASSUME NEW r \in Runs, Menu(r) PROVE SparesItsOwn'
  BY <1>2 DEF Menu
<1>3. ASSUME NEW r \in Runs, Pick(r) PROVE SparesItsOwn'
  BY <1>3 DEF Pick, Takes
<1>4. ASSUME NEW r \in Runs, PickNothing(r) PROVE SparesItsOwn'
  BY <1>4 DEF PickNothing, Just
<1>5. ASSUME NEW r \in Runs, Start(r) PROVE SparesItsOwn'
  BY <1>5 DEF Start, UpToDate
<1>6. ASSUME NEW r \in Runs, Boot(r) PROVE SparesItsOwn'
  BY <1>6 DEF Boot
<1>7. ASSUME NEW r \in Runs, Stop(r) PROVE SparesItsOwn'
  BY <1>7 DEF Stop, Disturbed
<1>8. ASSUME NEW r \in Runs, Arrives(r) PROVE SparesItsOwn'
  BY <1>8 DEF Arrives, Just, Reachable
<1>9. ASSUME NEW r \in Runs, Timeout(r) PROVE SparesItsOwn'
  BY <1>9 DEF Timeout, Just, Ended
<1>10. ASSUME NEW r \in Runs, LookUp(r) PROVE SparesItsOwn'
  BY <1>10 DEF LookUp
<1>11. ASSUME NEW r \in Runs, ReadRules(r) PROVE SparesItsOwn'
  BY <1>11 DEF ReadRules
<1>12. ASSUME NEW r \in Runs, Revoke(r) PROVE SparesItsOwn'
  BY <1>12 DEF Revoke
<1>13. ASSUME NEW r \in Runs, Authorize(r) PROVE SparesItsOwn'
  BY <1>13 DEF Authorize
<1>14. ASSUME NEW r \in Runs, ReadIp(r) PROVE SparesItsOwn'
  BY <1>14 DEF ReadIp
<1>15. ASSUME NEW r \in Runs, Upsert(r) PROVE SparesItsOwn'
  BY <1>15 DEF Upsert
<1>16. ASSUME NEW r \in Runs, ReadSize(r) PROVE SparesItsOwn'
  BY <1>16 DEF ReadSize, Just
<1>17. ASSUME NEW r \in Runs, Modify(r) PROVE SparesItsOwn'
  BY <1>17 DEF Modify, Refuses
<1>18. ASSUME NEW r \in Runs, Polled(r) PROVE SparesItsOwn'
  BY <1>18 DEF Polled, Just
<1>19. ASSUME NEW r \in Runs, ResizeFs(r) PROVE SparesItsOwn'
  BY <1>19 DEF ResizeFs, Reachable
<1>20. ASSUME NEW r \in Runs, Breaks(r) PROVE SparesItsOwn'
  BY <1>20 DEF Breaks, Ended
<1>21. CASE Booted
  BY <1>21 DEF Booted
<1>22. CASE Halted
  BY <1>22 DEF Halted, Down, Disturbed
<1>23. CASE BootFails
  BY <1>23 DEF BootFails, Down, Disturbed
<1>24. CASE Modified
  BY <1>24 DEF Modified
<1>25. CASE ModificationFails
  BY <1>25 DEF ModificationFails
<1>26. CASE Move
  BY <1>26 DEF Move, Disturbed
<1>27. CASE UNCHANGED vars
  BY <1>27 DEF vars
<1> QED
    BY <1>1, <1>2, <1>3, <1>4, <1>5, <1>6, <1>7, <1>8, <1>9, <1>10, <1>11,
     <1>12, <1>13, <1>14, <1>15, <1>16, <1>17, <1>18, <1>19, <1>20, <1>21,
     <1>22, <1>23, <1>24, <1>25, <1>26, <1>27 DEF Next, Proceeds, Account

(* Every step keeps the lists complete. *)
LEMMA NextLists ==
  ASSUME TypeOK, ListsAll, [Next]_vars
  PROVE  ListsAll'
<1> USE DEF TypeOK, ListsAll, Goes, instance, volume, laptop, locals, history
<1>1. ASSUME NEW r \in Runs, Type(r) PROVE ListsAll'
  BY <1>1 DEF Type, Takes
<1>2. ASSUME NEW r \in Runs, Menu(r) PROVE ListsAll'
  BY <1>2 DEF Menu
<1>3. ASSUME NEW r \in Runs, Pick(r) PROVE ListsAll'
  BY <1>3 DEF Pick, Takes
<1>4. ASSUME NEW r \in Runs, PickNothing(r) PROVE ListsAll'
  BY <1>4 DEF PickNothing, Just
<1>5. ASSUME NEW r \in Runs, Start(r) PROVE ListsAll'
  BY <1>5 DEF Start, UpToDate
<1>6. ASSUME NEW r \in Runs, Boot(r) PROVE ListsAll'
  BY <1>6 DEF Boot
<1>7. ASSUME NEW r \in Runs, Stop(r) PROVE ListsAll'
  BY <1>7 DEF Stop, Disturbed
<1>8. ASSUME NEW r \in Runs, Arrives(r) PROVE ListsAll'
  BY <1>8 DEF Arrives, Just, Reachable
<1>9. ASSUME NEW r \in Runs, Timeout(r) PROVE ListsAll'
  BY <1>9 DEF Timeout, Just, Ended
<1>10. ASSUME NEW r \in Runs, LookUp(r) PROVE ListsAll'
  BY <1>10 DEF LookUp
<1>11. ASSUME NEW r \in Runs, ReadRules(r) PROVE ListsAll'
  BY <1>11 DEF ReadRules
<1>12. ASSUME NEW r \in Runs, Revoke(r) PROVE ListsAll'
  BY <1>12 DEF Revoke
<1>13. ASSUME NEW r \in Runs, Authorize(r) PROVE ListsAll'
  BY <1>13 DEF Authorize
<1>14. ASSUME NEW r \in Runs, ReadIp(r) PROVE ListsAll'
  BY <1>14 DEF ReadIp
<1>15. ASSUME NEW r \in Runs, Upsert(r) PROVE ListsAll'
  BY <1>15 DEF Upsert
<1>16. ASSUME NEW r \in Runs, ReadSize(r) PROVE ListsAll'
  BY <1>16 DEF ReadSize, Just
<1>17. ASSUME NEW r \in Runs, Modify(r) PROVE ListsAll'
  BY <1>17 DEF Modify, Refuses
<1>18. ASSUME NEW r \in Runs, Polled(r) PROVE ListsAll'
  BY <1>18 DEF Polled, Just
<1>19. ASSUME NEW r \in Runs, ResizeFs(r) PROVE ListsAll'
  BY <1>19 DEF ResizeFs, Reachable
<1>20. ASSUME NEW r \in Runs, Breaks(r) PROVE ListsAll'
  BY <1>20 DEF Breaks, Ended
<1>21. CASE Booted
  BY <1>21 DEF Booted
<1>22. CASE Halted
  BY <1>22 DEF Halted, Down, Disturbed
<1>23. CASE BootFails
  BY <1>23 DEF BootFails, Down, Disturbed
<1>24. CASE Modified
  BY <1>24 DEF Modified
<1>25. CASE ModificationFails
  BY <1>25 DEF ModificationFails
<1>26. CASE Move
  BY <1>26 DEF Move, Disturbed
<1>27. CASE UNCHANGED vars
  BY <1>27 DEF vars
<1> QED
    BY <1>1, <1>2, <1>3, <1>4, <1>5, <1>6, <1>7, <1>8, <1>9, <1>10, <1>11,
     <1>12, <1>13, <1>14, <1>15, <1>16, <1>17, <1>18, <1>19, <1>20, <1>21,
     <1>22, <1>23, <1>24, <1>25, <1>26, <1>27 DEF Next, Proceeds, Account

(* Every step keeps what waiting runs rely on. *)
LEMMA NextGrowth ==
  ASSUME TypeOK, InItsCommand, GrowthOK, [Next]_vars
  PROVE  GrowthOK'
<1> USE Numbers DEF TypeOK, InItsCommand, GrowthOK, Goes, instance, volume,
        laptop, locals, history
<1>1. ASSUME NEW r \in Runs, Type(r) PROVE GrowthOK'
  BY <1>1 DEF Type, Takes
<1>2. ASSUME NEW r \in Runs, Menu(r) PROVE GrowthOK'
  BY <1>2 DEF Menu
<1>3. ASSUME NEW r \in Runs, Pick(r) PROVE GrowthOK'
  BY <1>3 DEF Pick, Takes
<1>4. ASSUME NEW r \in Runs, PickNothing(r) PROVE GrowthOK'
  BY <1>4 DEF PickNothing, Just
<1>5. ASSUME NEW r \in Runs, Start(r) PROVE GrowthOK'
  BY <1>5 DEF Start, UpToDate
<1>6. ASSUME NEW r \in Runs, Boot(r) PROVE GrowthOK'
  BY <1>6 DEF Boot
<1>7. ASSUME NEW r \in Runs, Stop(r) PROVE GrowthOK'
  BY <1>7 DEF Stop, Disturbed
<1>8. ASSUME NEW r \in Runs, Arrives(r) PROVE GrowthOK'
  BY <1>8 DEF Arrives, Just, Reachable
<1>9. ASSUME NEW r \in Runs, Timeout(r) PROVE GrowthOK'
  BY <1>9 DEF Timeout, Just, Ended
<1>10. ASSUME NEW r \in Runs, LookUp(r) PROVE GrowthOK'
  BY <1>10 DEF LookUp
<1>11. ASSUME NEW r \in Runs, ReadRules(r) PROVE GrowthOK'
  BY <1>11 DEF ReadRules
<1>12. ASSUME NEW r \in Runs, Revoke(r) PROVE GrowthOK'
  BY <1>12 DEF Revoke
<1>13. ASSUME NEW r \in Runs, Authorize(r) PROVE GrowthOK'
  BY <1>13 DEF Authorize
<1>14. ASSUME NEW r \in Runs, ReadIp(r) PROVE GrowthOK'
  BY <1>14 DEF ReadIp
<1>15. ASSUME NEW r \in Runs, Upsert(r) PROVE GrowthOK'
  BY <1>15 DEF Upsert
<1>16. ASSUME NEW r \in Runs, ReadSize(r) PROVE GrowthOK'
  BY <1>16 DEF ReadSize, Just
<1>17. ASSUME NEW r \in Runs, Modify(r) PROVE GrowthOK'
  BY <1>17 DEF Modify, Refuses
<1>18. ASSUME NEW r \in Runs, Polled(r) PROVE GrowthOK'
  BY <1>18 DEF Polled, Just
<1>19. ASSUME NEW r \in Runs, ResizeFs(r) PROVE GrowthOK'
  BY <1>19 DEF ResizeFs, Reachable
<1>20. ASSUME NEW r \in Runs, Breaks(r) PROVE GrowthOK'
  BY <1>20 DEF Breaks, Ended
<1>21. CASE Booted
  BY <1>21 DEF Booted
<1>22. CASE Halted
  BY <1>22 DEF Halted, Down, Disturbed
<1>23. CASE BootFails
  BY <1>23 DEF BootFails, Down, Disturbed
<1>24. CASE Modified
  BY <1>24 DEF Modified
<1>25. CASE ModificationFails
  BY <1>25 DEF ModificationFails
<1>26. CASE Move
  BY <1>26 DEF Move, Disturbed
<1>27. CASE UNCHANGED vars
  BY <1>27 DEF vars
<1> QED
    BY <1>1, <1>2, <1>3, <1>4, <1>5, <1>6, <1>7, <1>8, <1>9, <1>10, <1>11,
     <1>12, <1>13, <1>14, <1>15, <1>16, <1>17, <1>18, <1>19, <1>20, <1>21,
     <1>22, <1>23, <1>24, <1>25, <1>26, <1>27 DEF Next, Proceeds, Account

(* Every step keeps the address right. *)
LEMMA NextAddress ==
  ASSUME TypeOK, AddressOK, [Next]_vars
  PROVE  AddressOK'
<1> USE DEF TypeOK, AddressOK, Goes, instance, volume, laptop, locals, history
<1>1. ASSUME NEW r \in Runs, Type(r) PROVE AddressOK'
  BY <1>1 DEF Type, Takes
<1>2. ASSUME NEW r \in Runs, Menu(r) PROVE AddressOK'
  BY <1>2 DEF Menu
<1>3. ASSUME NEW r \in Runs, Pick(r) PROVE AddressOK'
  BY <1>3 DEF Pick, Takes
<1>4. ASSUME NEW r \in Runs, PickNothing(r) PROVE AddressOK'
  BY <1>4 DEF PickNothing, Just
<1>5. ASSUME NEW r \in Runs, Start(r) PROVE AddressOK'
  BY <1>5 DEF Start, UpToDate
<1>6. ASSUME NEW r \in Runs, Boot(r) PROVE AddressOK'
  BY <1>6 DEF Boot
<1>7. ASSUME NEW r \in Runs, Stop(r) PROVE AddressOK'
  BY <1>7 DEF Stop, Disturbed
<1>8. ASSUME NEW r \in Runs, Arrives(r) PROVE AddressOK'
  BY <1>8 DEF Arrives, Just, Reachable
<1>9. ASSUME NEW r \in Runs, Timeout(r) PROVE AddressOK'
  BY <1>9 DEF Timeout, Just, Ended
<1>10. ASSUME NEW r \in Runs, LookUp(r) PROVE AddressOK'
  BY <1>10 DEF LookUp
<1>11. ASSUME NEW r \in Runs, ReadRules(r) PROVE AddressOK'
  BY <1>11 DEF ReadRules
<1>12. ASSUME NEW r \in Runs, Revoke(r) PROVE AddressOK'
  BY <1>12 DEF Revoke
<1>13. ASSUME NEW r \in Runs, Authorize(r) PROVE AddressOK'
  BY <1>13 DEF Authorize
<1>14. ASSUME NEW r \in Runs, ReadIp(r) PROVE AddressOK'
  BY <1>14 DEF ReadIp
<1>15. ASSUME NEW r \in Runs, Upsert(r) PROVE AddressOK'
  BY <1>15 DEF Upsert
<1>16. ASSUME NEW r \in Runs, ReadSize(r) PROVE AddressOK'
  BY <1>16 DEF ReadSize, Just
<1>17. ASSUME NEW r \in Runs, Modify(r) PROVE AddressOK'
  BY <1>17 DEF Modify, Refuses
<1>18. ASSUME NEW r \in Runs, Polled(r) PROVE AddressOK'
  BY <1>18 DEF Polled, Just
<1>19. ASSUME NEW r \in Runs, ResizeFs(r) PROVE AddressOK'
  BY <1>19 DEF ResizeFs, Reachable
<1>20. ASSUME NEW r \in Runs, Breaks(r) PROVE AddressOK'
  BY <1>20 DEF Breaks, Ended
<1>21. CASE Booted
  BY <1>21 DEF Booted
<1>22. CASE Halted
  BY <1>22 DEF Halted, Down, Disturbed
<1>23. CASE BootFails
  BY <1>23 DEF BootFails, Down, Disturbed
<1>24. CASE Modified
  BY <1>24 DEF Modified
<1>25. CASE ModificationFails
  BY <1>25 DEF ModificationFails
<1>26. CASE Move
  BY <1>26 DEF Move, Disturbed
<1>27. CASE UNCHANGED vars
  BY <1>27 DEF vars
<1> QED
    BY <1>1, <1>2, <1>3, <1>4, <1>5, <1>6, <1>7, <1>8, <1>9, <1>10, <1>11,
     <1>12, <1>13, <1>14, <1>15, <1>16, <1>17, <1>18, <1>19, <1>20, <1>21,
     <1>22, <1>23, <1>24, <1>25, <1>26, <1>27 DEF Next, Proceeds, Account

(* Every step keeps a calm start's achievements. *)
LEMMA NextCalm ==
  ASSUME TypeOK, InItsCommand, SparesItsOwn, AddressOK, CalmOK, [Next]_vars
  PROVE  CalmOK'
<1> USE DEF TypeOK, InItsCommand, SparesItsOwn, AddressOK, CalmOK, Achieved,
        UpToDate, Goes, instance, volume, laptop, locals, history
<1>1. ASSUME NEW r \in Runs, Type(r) PROVE CalmOK'
  BY <1>1 DEF Type, Takes
<1>2. ASSUME NEW r \in Runs, Menu(r) PROVE CalmOK'
  BY <1>2 DEF Menu
<1>3. ASSUME NEW r \in Runs, Pick(r) PROVE CalmOK'
  BY <1>3 DEF Pick, Takes
<1>4. ASSUME NEW r \in Runs, PickNothing(r) PROVE CalmOK'
  BY <1>4 DEF PickNothing, Just
<1>5. ASSUME NEW r \in Runs, Start(r) PROVE CalmOK'
  BY <1>5 DEF Start, UpToDate
<1>6. ASSUME NEW r \in Runs, Boot(r) PROVE CalmOK'
  BY <1>6 DEF Boot
<1>7. ASSUME NEW r \in Runs, Stop(r) PROVE CalmOK'
  BY <1>7 DEF Stop, Disturbed
<1>8. ASSUME NEW r \in Runs, Arrives(r) PROVE CalmOK'
  BY <1>8 DEF Arrives, Just, Reachable
<1>9. ASSUME NEW r \in Runs, Timeout(r) PROVE CalmOK'
  BY <1>9 DEF Timeout, Just, Ended
<1>10. ASSUME NEW r \in Runs, LookUp(r) PROVE CalmOK'
  BY <1>10 DEF LookUp
<1>11. ASSUME NEW r \in Runs, ReadRules(r) PROVE CalmOK'
  BY <1>11 DEF ReadRules
<1>12. ASSUME NEW r \in Runs, Revoke(r) PROVE CalmOK'
  BY <1>12 DEF Revoke
<1>13. ASSUME NEW r \in Runs, Authorize(r) PROVE CalmOK'
  BY <1>13 DEF Authorize
<1>14. ASSUME NEW r \in Runs, ReadIp(r) PROVE CalmOK'
  BY <1>14 DEF ReadIp
<1>15. ASSUME NEW r \in Runs, Upsert(r) PROVE CalmOK'
  BY <1>15 DEF Upsert
<1>16. ASSUME NEW r \in Runs, ReadSize(r) PROVE CalmOK'
  BY <1>16 DEF ReadSize, Just
<1>17. ASSUME NEW r \in Runs, Modify(r) PROVE CalmOK'
  BY <1>17 DEF Modify, Refuses
<1>18. ASSUME NEW r \in Runs, Polled(r) PROVE CalmOK'
  BY <1>18 DEF Polled, Just
<1>19. ASSUME NEW r \in Runs, ResizeFs(r) PROVE CalmOK'
  BY <1>19 DEF ResizeFs, Reachable
<1>20. ASSUME NEW r \in Runs, Breaks(r) PROVE CalmOK'
  BY <1>20 DEF Breaks, Ended
<1>21. CASE Booted
  BY <1>21 DEF Booted
<1>22. CASE Halted
  BY <1>22 DEF Halted, Down, Disturbed
<1>23. CASE BootFails
  BY <1>23 DEF BootFails, Down, Disturbed
<1>24. CASE Modified
  BY <1>24 DEF Modified
<1>25. CASE ModificationFails
  BY <1>25 DEF ModificationFails
<1>26. CASE Move
  BY <1>26 DEF Move, Disturbed
<1>27. CASE UNCHANGED vars
  BY <1>27 DEF vars
<1> QED
    BY <1>1, <1>2, <1>3, <1>4, <1>5, <1>6, <1>7, <1>8, <1>9, <1>10, <1>11,
     <1>12, <1>13, <1>14, <1>15, <1>16, <1>17, <1>18, <1>19, <1>20, <1>21,
     <1>22, <1>23, <1>24, <1>25, <1>26, <1>27 DEF Next, Proceeds, Account

(* The invariant is inductive. *)
LEMMA NextInv == IInv /\ [Next]_vars => IInv'
  BY NextType, NextCommand, NextSparing, NextLists, NextGrowth, NextAddress,
     NextCalm
   DEF IInv

(* Every reachable state satisfies it. *)
LEMMA Invariance == Spec => []IInv
BY InitInv, NextInv, PTL DEF Spec

-----------------------------------------------------------------------------
(* Type correctness of the account, the laptop and the runs. *)
THEOREM CloudTypeOK == Spec => []TypeOK
<1>1. IInv => TypeOK
  BY DEF IInv
<1> QED
  BY <1>1, Invariance, PTL

(* A start that ended well has left an instance that the laptop can reach. *)
THEOREM CloudReady == Spec => []ReadyIsReachable
<1>1. IInv => ReadyIsReachable
  BY DEF IInv, CalmOK, Achieved, ReadyIsReachable, Reachable
<1> QED
  BY <1>1, Invariance, PTL

(* A grow-home or grow-root that ended well has grown the file system. *)
THEOREM CloudGrows == Spec => []GrownIsGrown
<1>1. IInv => GrownIsGrown
    <2> SUFFICES ASSUME IInv, ~broken, NEW r \in Runs, cmd[r] = "grow", at[r]
     = "done"
               PROVE  fs >= want[r]
    BY DEF GrownIsGrown
  <2>1. want[r] <= fs
    BY DEF IInv, GrowthOK
  <2>2. fs \in Nat /\ want[r] \in Nat
    BY Numbers DEF IInv
  <2> QED
    BY <2>1, <2>2
<1> QED
  BY <1>1, Invariance, PTL

(* Port 22 admits one address unless refreshes have overlapped. *)
THEOREM CloudSingleAddress == Spec => []SingleAddress
<1>1. IInv => SingleAddress
  <2> SUFFICES ASSUME IInv, ~shared PROVE ~(Cardinality(rules) > 1)
    BY DEF SingleAddress
  <2>1. \A a, b \in rules : a = b
    BY DEF IInv, ListsAll
  <2>2. CASE rules = {}
    BY <2>2, FS_EmptySet
  <2>3. CASE rules # {}
    <3>1. PICK a : rules = {a}
      BY <2>1, <2>3
    <3> QED
      BY <3>1, FS_Singleton
  <2> QED
    BY <2>2, <2>3
<1> QED
  BY <1>1, Invariance, PTL

(* No step withdraws the address the laptop has, while the runs that       *)
(* revoke have looked up that one.                                         *)
THEOREM CloudNeverLocksOut == Spec => NeverLocksOut
<1> DEFINE Up == \A r \in Runs : at[r] = "revoke" => my[r] = here
           Safe == here \in rules /\ here' = here /\ Up => (here \in rules')
<1>1. ASSUME IInv, [Next]_vars PROVE Safe
  <2> SUFFICES ASSUME here \in rules, here' = here, Up PROVE here \in rules'
    OBVIOUS
  <2>1. CASE UNCHANGED rules
    BY <2>1
  <2>2. ASSUME NEW r \in Runs, Revoke(r) PROVE here \in rules'
    BY <2>2, <1>1 DEF Revoke, IInv, SparesItsOwn
  <2>3. ASSUME NEW r \in Runs, Authorize(r) PROVE here \in rules'
    BY <2>3 DEF Authorize
  <2>4. rules' = rules \/ \E r \in Runs : Revoke(r) \/ Authorize(r)
      BY <1>1 DEF Next, Proceeds, Account, Type, Takes, Menu, Pick,
     PickNothing, Just,
       Start, Boot, Stop, Arrives, Timeout, LookUp, ReadRules, ReadIp, Upsert,
         ReadSize, Modify, Polled, ResizeFs, Breaks, Booted, Halted, Down,
     BootFails,
       Modified, ModificationFails, Move, vars
  <2> QED
    BY <2>1, <2>2, <2>3, <2>4
<1> QED
  BY <1>1, Invariance, PTL DEF Spec, NeverLocksOut

-----------------------------------------------------------------------------
(* Towards termination. *)

(* A place of one stage comes before a place of a later one. *)
LEMMA Stages ==
  /\ DOMAIN Course = 1 .. 12
  /\ Course[1] = {"idle"} /\ Course[2] = {"menu"} /\ Course[3] = {"begin"}
  /\ Course[4] = {"boot", "modify"} /\ Course[5] = {"booting", "halting", "growing"}
  /\ Course[6] = {"sg", "resizefs"} /\ Course[7] = {"rules"} /\ Course[8] = {"revoke"}
  /\ Course[9] = {"dns"} /\ Course[10] = {"upsert"} /\ Course[11] = {"reach"}
  /\ Course[12] = {"done", "failed"}
BY DEF Course, Ended

LEMMA LaterByStage ==
  ASSUME NEW i \in 1 .. 12, NEW j \in 1 .. 12, i < j, NEW p \in Course[i], NEW q \in Course[j]
  PROVE  Later(p, q)
BY Stages DEF Later

LEMMA LaterEnds ==
  ASSUME NEW p \in Places \ Ended, NEW q \in Ended
  PROVE  Later(p, q)
<1>1. \E i \in 1 .. 11 : p \in Course[i]
  BY Stages DEF Places, Ended
<1>2. q \in Course[12]
  BY Stages DEF Ended
<1> QED
  BY <1>1, <1>2, LaterByStage

LEMMA LaterPlaces ==
  /\ Later("idle", "menu") /\ Later("idle", "begin") /\ Later("menu", "begin")
  /\ \A q \in {"sg", "boot", "halting", "rules", "upsert", "modify"} : Later("begin", q)
  /\ Later("boot", "booting") /\ Later("booting", "sg")
  /\ Later("sg", "rules") /\ Later("rules", "revoke") /\ Later("revoke", "dns")
  /\ Later("dns", "upsert") /\ Later("upsert", "reach")
  /\ Later("modify", "growing") /\ Later("growing", "resizefs")
BY Stages, LaterByStage
(* A step of a run takes it on, or shortens its list. *)
LEMMA ProceedsOn ==
  ASSUME TypeOK, NEW r \in Runs, Proceeds(r)
  PROVE  \/ Later(at[r], at'[r])
         \/ at'[r] = at[r] /\ stale'[r] \subseteq stale[r] /\ stale'[r] # stale[r]
<1> USE DEF TypeOK, Goes, Just, Places, Ended
<1>1. CASE Start(r)
  BY <1>1, LaterPlaces DEF Start
<1>2. CASE Boot(r)
  BY <1>2, LaterPlaces, LaterEnds DEF Boot
<1>3. CASE Stop(r)
  BY <1>3, LaterPlaces, LaterEnds DEF Stop
<1>4. CASE Arrives(r)
  BY <1>4, LaterPlaces, LaterEnds DEF Arrives
<1>5. CASE Timeout(r)
  BY <1>5, LaterEnds DEF Timeout
<1>6. CASE LookUp(r)
  BY <1>6, LaterPlaces DEF LookUp
<1>7. CASE ReadRules(r)
  BY <1>7, LaterPlaces DEF ReadRules
<1>8. CASE Revoke(r)
  <2>1. PICK cidr \in stale[r] : stale' = [stale EXCEPT ![r] = @ \ {cidr}]
    BY <1>8 DEF Revoke
  <2>2. stale'[r] = stale[r] \ {cidr} /\ at' = at
    BY <1>8, <2>1 DEF Revoke
  <2> QED
    BY <2>1, <2>2
<1>9. CASE Authorize(r)
  BY <1>9, LaterPlaces, LaterEnds DEF Authorize
<1>10. CASE ReadIp(r)
  BY <1>10, LaterPlaces, LaterEnds DEF ReadIp
<1>11. CASE Upsert(r)
  BY <1>11, LaterPlaces, LaterEnds DEF Upsert
<1>12. CASE ReadSize(r)
  BY <1>12, LaterPlaces, LaterEnds DEF ReadSize
<1>13. CASE Modify(r)
  BY <1>13, LaterPlaces, LaterEnds DEF Modify
<1>14. CASE Polled(r)
  BY <1>14, LaterPlaces DEF Polled
<1>15. CASE ResizeFs(r)
  BY <1>15, LaterEnds DEF ResizeFs
<1> QED
  BY <1>1, <1>2, <1>3, <1>4, <1>5, <1>6, <1>7, <1>8, <1>9, <1>10, <1>11, <1>12, <1>13,
     <1>14, <1>15 DEF Proceeds

(* So do the user and a call that fails. *)
LEMMA TakenOn ==
  ASSUME TypeOK, NEW r \in Runs, Type(r) \/ Menu(r) \/ Pick(r) \/ PickNothing(r) \/ Breaks(r)
  PROVE  Later(at[r], at'[r])
<1> USE DEF TypeOK, Goes, Just, Places, Ended
<1>1. CASE Type(r) \/ Menu(r) \/ Pick(r)
  BY <1>1, LaterPlaces DEF Type, Menu, Pick, Takes
<1>2. CASE PickNothing(r) \/ Breaks(r)
  BY <1>2, LaterEnds DEF PickNothing, Breaks
<1> QED
  BY <1>1, <1>2

(* The other runs stay where they are, and so do all when nobody steps. *)
LEMMA OthersStay ==
  ASSUME TypeOK, [Next]_vars, NEW r \in Runs
  PROVE  \/ at'[r] = at[r] /\ stale'[r] = stale[r]
         \/ Proceeds(r)
         \/ Type(r) \/ Menu(r) \/ Pick(r) \/ PickNothing(r) \/ Breaks(r)
<1> USE DEF TypeOK, Goes, Just
<1>1. ASSUME NEW q \in Runs, q # r, Type(q) \/ Menu(q) \/ Pick(q) \/ PickNothing(q) \/ Breaks(q)
      PROVE  at'[r] = at[r] /\ stale'[r] = stale[r]
  BY <1>1 DEF Type, Menu, Pick, PickNothing, Breaks, Takes, locals
<1>2. ASSUME NEW q \in Runs, q # r, Proceeds(q)
      PROVE  at'[r] = at[r] /\ stale'[r] = stale[r]
  <2>1. CASE Start(q) \/ Boot(q) \/ Stop(q) \/ Arrives(q) \/ Timeout(q)
    BY <1>2, <2>1 DEF Start, Boot, Stop, Arrives, Timeout, locals
  <2>2. CASE LookUp(q) \/ ReadRules(q) \/ Revoke(q) \/ Authorize(q)
    BY <1>2, <2>2 DEF LookUp, ReadRules, Revoke, Authorize, locals
  <2>3. CASE ReadIp(q) \/ Upsert(q)
    BY <1>2, <2>3 DEF ReadIp, Upsert, locals
  <2>4. CASE ReadSize(q) \/ Modify(q) \/ Polled(q) \/ ResizeFs(q)
    BY <1>2, <2>4 DEF ReadSize, Modify, Polled, ResizeFs, locals
  <2> QED
    BY <1>2, <2>1, <2>2, <2>3, <2>4 DEF Proceeds
<1>3. Account \/ Move \/ UNCHANGED vars => UNCHANGED <<at, stale>>
  BY DEF Account, Booted, Halted, BootFails, Down, Modified, ModificationFails, Move,
         locals, vars
<1> QED
  BY <1>1, <1>2, <1>3 DEF Next

(* No run comes back to a call it has made, and each of its steps takes it  *)
(* on: whatever else happens, and however often, it has only so many.       *)
THEOREM CloudOnlyForward == Spec => OnlyForward
<1>1. ASSUME TypeOK, [Next]_vars, NEW r \in Runs
      PROVE  /\ \/ at'[r] = at[r] /\ stale'[r] \subseteq stale[r]
                \/ Later(at[r], at'[r])
             /\ Proceeds(r) => Later(at[r], at'[r]) \/ stale'[r] # stale[r]
  BY <1>1, OthersStay, ProceedsOn, TakenOn
<1>2. TypeOK /\ [Next]_vars =>
        [\A r \in Runs :
           /\ \/ at'[r] = at[r] /\ stale'[r] \subseteq stale[r]
              \/ Later(at[r], at'[r])
           /\ Proceeds(r) => Later(at[r], at'[r]) \/ stale'[r] # stale[r]]_vars
  BY <1>1
<1>3. Spec => []TypeOK
  BY CloudTypeOK
<1> QED
  BY <1>2, <1>3, PTL DEF Spec, OnlyForward

(* The list is finite, so that even revoking comes to an end. *)
Finite == IsFiniteSet(rules) /\ \A r \in Runs : IsFiniteSet(stale[r])

LEMMA NextFinite == TypeOK /\ Finite /\ [Next]_vars => Finite'
<1> SUFFICES ASSUME TypeOK, Finite, [Next]_vars PROVE Finite'
  OBVIOUS
<1>1. CASE UNCHANGED <<rules, stale>>
  BY <1>1 DEF Finite
<1>2. ASSUME NEW r \in Runs, ReadRules(r) PROVE Finite'
  <2>1. IsFiniteSet(rules \ {my[r]})
    BY FS_Subset DEF Finite
  <2> QED
    BY <1>2, <2>1 DEF ReadRules, Finite, TypeOK
<1>3. ASSUME NEW r \in Runs, Revoke(r) PROVE Finite'
  <2>1. PICK cidr \in stale[r] :
          rules' = rules \ {cidr} /\ stale' = [stale EXCEPT ![r] = @ \ {cidr}]
    BY <1>3 DEF Revoke
  <2>2. IsFiniteSet(rules \ {cidr}) /\ IsFiniteSet(stale[r] \ {cidr})
    BY FS_Subset DEF Finite
  <2> QED
    BY <2>1, <2>2 DEF Finite, TypeOK
<1>4. ASSUME NEW r \in Runs, Authorize(r) PROVE Finite'
  <2>1. IsFiniteSet(rules \union {my[r]})
    BY FS_AddElement DEF Finite
  <2>2. rules' \in {rules, rules \union {my[r]}} /\ stale' = stale
    BY <1>4 DEF Authorize, locals
  <2> QED
    BY <2>1, <2>2 DEF Finite
<1>5. \/ UNCHANGED <<rules, stale>>
      \/ \E r \in Runs : ReadRules(r) \/ Revoke(r) \/ Authorize(r)
  BY DEF Next, Proceeds, Account, Type, Takes, Menu, Pick, PickNothing, Just,
         Start, Boot, Stop, Arrives, Timeout, LookUp, ReadIp, Upsert,
         ReadSize, Modify, Polled, ResizeFs, Breaks, Booted, Halted, Down, BootFails,
         Modified, ModificationFails, Move, vars, locals
<1> QED
  BY <1>1, <1>2, <1>3, <1>4, <1>5

(* What a run has to revoke is finite, however many addresses there are. *)
THEOREM CloudListsFinite == Spec => [](\A r \in Runs : IsFiniteSet(stale[r]))
<1>1. Init => Finite
  <2> SUFFICES ASSUME Init PROVE Finite
    OBVIOUS
  <2>1. PICK a \in Addresses : rules = {a}
    BY DEF Init
  <2> QED
    BY <2>1, FS_EmptySet, FS_Singleton DEF Init, Finite
<1>2. TypeOK /\ Finite /\ [Next]_vars => Finite'
  BY NextFinite
<1>3. Spec => []TypeOK
  BY CloudTypeOK
<1>4. Finite => \A r \in Runs : IsFiniteSet(stale[r])
  BY DEF Finite
<1> QED
  BY <1>1, <1>2, <1>3, <1>4, PTL DEF Spec
=============================================================================
