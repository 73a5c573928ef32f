------------------------ MODULE FormatSelectionProofs ------------------------
(***************************************************************************)
(* That all processes agree on the framebuffer size, and choose the same    *)
(* formats, when one thread saves it: for any number of processes, any      *)
(* descriptors and platform, through restarts and refused properties.       *)
(***************************************************************************)
EXTENDS FormatSelection, TLAPS

\* The calls in progress, and what they ask for.
Asking ==
  /\ req = [t \in Threads |-> req[t]]
  /\ \A t \in Threads : pc[t] # "idle" => req[t] \in Requests[t]
  /\ \A t \in Threads : pc[t] \in {"save", "setprop"} => ForFb(req[t])
  /\ \A t \in Threads : pc[t] = "by_size" => ~ForFb(req[t])

\* The format a call has chosen so far.
GetLabels == {"get", "getprop", "store", "return"}
SfFormat(r) == [base |-> InternalFormat(r), afbc |-> FALSE]

Chosen ==
  /\ alloc_format = [t \in Threads |-> alloc_format[t]]
  /\ \A t \in Threads : pc[t] \in GetLabels \cup {"by_size"} /\ ~ForFb(req[t])
       => alloc_format[t] = SfFormat(req[t]) /\ SfMayUseAfbc(req[t])
  /\ \A t \in Threads : pc[t] \in GetLabels \cup {"save", "setprop", "derived"}
      /\ ForFb(req[t])
       => alloc_format[t] = FbFormat(req[t])

\* Only the saver saves; the property is the size of all other processes, and
\* the saver never overlooks a size it has already saved.
SizeKnown(s) ==
  /\ \A t \in Threads \ {s} : pc[t] \notin {"save", "setprop"}
  /\ \A p \in Procs \ {Proc[s]} : s_fb_size[p] \in {0, fb_prop}
  /\ fb_prop # 0 => s_fb_size[Proc[s]] \in {0, fb_prop}
  /\ \A t \in Threads : pc[t] = "store" => cached[t] \in {0, fb_prop}
  /\ pc[s] \in {"getprop", "store"} => s_fb_size[Proc[s]] = 0
  /\ pc[s] = "store" => cached[s] = fb_prop
  /\ pc[s] = "return" => cached[s] = s_fb_size[Proc[s]]
  /\ pc[s] = "save" => fb_size[s] = s_fb_size[Proc[s]]
  /\ pc[s] \in {"return", "save"} /\ fb_prop # 0 => s_fb_size[Proc[s]] = fb_prop
  /\ pc[s] = "setprop" => fb_prop = 0 /\ s_fb_size[Proc[s]] = buffer_size(req[s])

\* The size on which a call that began with a saved size bases its choice.
SizeUsed ==
  \A t \in Threads : known[t] # 0 =>
    /\ known[t] = fb_prop
    /\ pc[t] = "store" => cached[t] = fb_prop
    /\ pc[t] = "return" => cached[t] = fb_prop /\ s_fb_size[Proc[t]] = fb_prop
    /\ pc[t] = "by_size" => fb_size[t] = fb_prop

Choice(r, fb) ==
  IF ForFb(r) THEN FbFormat(r)
  ELSE IF SfMayUseAfbc(r) /\ should_sf_client_layer_use_afbc_format_by_size(r, fb)
  THEN [base |-> InternalFormat(r), afbc |-> TRUE]
  ELSE SfFormat(r)

ChoiceMade ==
  \A t \in Threads : pc[t] = "derived" /\ known[t] # 0
    => alloc_format[t] = Choice(req[t], fb_prop)

IInv(s) == TypeOK /\ Asking /\ Chosen /\ SizeKnown(s) /\ SizeUsed /\ ChoiceMade

-----------------------------------------------------------------------------
\* Widths and heights multiply to a size that is not 0.
LEMMA SizeOfRequest ==
  ASSUME NEW t \in Threads, NEW r \in Requests[t]
  PROVE  buffer_size(r) \in Nat \ {0}
<1>1. r.width \in Nat \ {0} /\ r.height \in Nat \ {0}
  BY RequestsAssumption
<1>2. \A m, n \in Nat \ {0} : m * n \in Nat \ {0}
  OBVIOUS
<1>3. QED
  BY <1>1, <1>2 DEF buffer_size

\* What is chosen before the size is looked at is a format.
LEMMA ChosenType ==
  ASSUME NEW r
  PROVE  FbFormat(r).afbc \in BOOLEAN /\ SfFormat(r).afbc \in BOOLEAN
BY DEF FbFormat, SfFormat

\* The switches stay, and with them what the operators that read them say.
LEMMA SwitchesStay ==
  ASSUME Next
  PROVE  switches' = switches
BY DEF Next, Step, Call, SelectFb, SelectSf, GetCached, GetProp, GetStore, GetReturn,
   BySize,
       SaveKnown, SaveCache, SaveProp, SavePropRefused, Return, Restart

\* No call has begun: the formats and requests are empty.
LEMMA InitTypes == Init => TypeOK /\ Asking /\ Chosen
<1> SUFFICES ASSUME Init PROVE TypeOK /\ Asking /\ Chosen
  OBVIOUS
<1>1. \A t \in Threads : alloc_format[t].afbc \in BOOLEAN
  BY DEF Init, NoFormat
<1>2. TypeOK
  BY <1>1 DEF Init, TypeOK, Labels
<1>3. Asking /\ Chosen
  BY DEF Init, Asking, Chosen, GetLabels
<1>4. QED
  BY <1>2, <1>3

\* A call keeps to the descriptor it was made with.
LEMMA AskingStep ==
  ASSUME TypeOK, Asking, Next
  PROVE  Asking'
<1> USE DEF TypeOK, Asking, Goto, Labels
<1>1. ASSUME NEW t \in Threads, Call(t) PROVE Asking'
  BY <1>1 DEF Call
<1>2. ASSUME NEW t \in Threads, SelectFb(t) \/ SelectSf(t) PROVE Asking'
  BY <1>2 DEF SelectFb, SelectSf
<1>3. ASSUME NEW t \in Threads, GetCached(t) \/ GetProp(t) \/ GetStore(t) \/ GetReturn(t)
      PROVE  Asking'
  BY <1>3 DEF GetCached, GetProp, GetStore, GetReturn
<1>4. ASSUME NEW t \in Threads, BySize(t) PROVE Asking'
  BY <1>4 DEF BySize
<1>5. ASSUME NEW t \in Threads, SaveKnown(t) \/ SaveCache(t) \/ SaveProp(t)
             \/ SavePropRefused(t)
      PROVE  Asking'
  BY <1>5 DEF SaveKnown, SaveCache, SaveProp, SavePropRefused
<1>6. ASSUME NEW t \in Threads, Return(t) PROVE Asking'
  BY <1>6 DEF Return
<1>7. ASSUME NEW p \in Procs, Restart(p) PROVE Asking'
  BY <1>7 DEF Restart
<1>8. QED
  BY <1>1, <1>2, <1>3, <1>4, <1>5, <1>6, <1>7 DEF Next, Step

\* The format chosen stays until the size has been looked at.
LEMMA ChosenStep ==
  ASSUME TypeOK, Asking, Chosen, Next
  PROVE  Chosen'
<1>0. \A u \in Threads : req'[u] = req[u] =>
        /\ FbFormat(req[u])' = FbFormat(req[u])
        /\ SfMayUseAfbc(req[u])' <=> SfMayUseAfbc(req[u])
  BY SwitchesStay DEF FbFormat, SfMayUseAfbc
<1> USE DEF TypeOK, Chosen, GetLabels, SfFormat, Goto
<1>1. ASSUME NEW t \in Threads, Call(t) PROVE Chosen'
  BY <1>1, <1>0 DEF Call
<1>2. ASSUME NEW t \in Threads, SelectFb(t) PROVE Chosen'
  BY <1>2, <1>0 DEF SelectFb
<1>3. ASSUME NEW t \in Threads, SelectSf(t) PROVE Chosen'
  BY <1>3, <1>0 DEF SelectSf
<1>4. ASSUME NEW t \in Threads, GetCached(t) \/ GetProp(t) \/ GetStore(t) PROVE Chosen'
  BY <1>4, <1>0 DEF GetCached, GetProp, GetStore
<1>5. ASSUME NEW t \in Threads, GetReturn(t) PROVE Chosen'
  BY <1>5, <1>0 DEF GetReturn
<1>6. ASSUME NEW t \in Threads, BySize(t) PROVE Chosen'
  BY <1>6, <1>0 DEF BySize, Asking
<1>7. ASSUME NEW t \in Threads, SaveKnown(t) \/ SaveCache(t) \/ SaveProp(t)
             \/ SavePropRefused(t)
      PROVE  Chosen'
  BY <1>7, <1>0 DEF SaveKnown, SaveCache, SaveProp, SavePropRefused, Asking
<1>8. ASSUME NEW t \in Threads, Return(t) PROVE Chosen'
  <2>1. pc'[t] = "idle"
    BY <1>8 DEF Return
  <2>2. \A u \in Threads \ {t} :
          pc'[u] = pc[u] /\ req'[u] = req[u] /\ alloc_format'[u] = alloc_format[u]
    BY <1>8 DEF Return, Asking
  <2>3. alloc_format' = [u \in Threads |-> alloc_format'[u]]
    BY <1>8 DEF Return
  <2>4. QED
    BY <1>0, <2>1, <2>2, <2>3
<1>9. ASSUME NEW p \in Procs, Restart(p) PROVE Chosen'
  <2>1. \A u \in Threads : Proc[u] = p => pc'[u] = "idle"
    BY <1>9 DEF Restart
  <2>2. \A u \in Threads : Proc[u] # p =>
          pc'[u] = pc[u] /\ req'[u] = req[u] /\ alloc_format'[u] = alloc_format[u]
    BY <1>9 DEF Restart
  <2>3. alloc_format' = [u \in Threads |-> alloc_format'[u]]
    BY <1>9 DEF Restart
  <2>4. QED
    BY <1>0, <2>1, <2>2, <2>3
<1>10. QED
  BY <1>1, <1>2, <1>3, <1>4, <1>5, <1>6, <1>7, <1>8, <1>9 DEF Next, Step

\* A format is a record with a flag.
LEMMA FormatsStep ==
  ASSUME TypeOK, Asking, Chosen, Next
  PROVE  \A u \in Threads : alloc_format'[u].afbc \in BOOLEAN
<1> DEFINE Fine(f) == f.afbc \in BOOLEAN
<1> USE DEF TypeOK, Chosen
<1>1. ASSUME NEW t \in Threads, SelectFb(t) \/ SelectSf(t)
      PROVE  \A u \in Threads : Fine(alloc_format'[u])
  <2>1. alloc_format'[t] \in {FbFormat(req[t]), SfFormat(req[t])}
    BY <1>1 DEF SelectFb, SelectSf, SfFormat
  <2>2. Fine(alloc_format'[t])
    BY <2>1, ChosenType
  <2>3. \A u \in Threads \ {t} : alloc_format'[u] = alloc_format[u]
    BY <1>1 DEF SelectFb, SelectSf
  <2>4. QED
    BY <2>2, <2>3
<1>2. ASSUME NEW t \in Threads, BySize(t)
      PROVE  \A u \in Threads : Fine(alloc_format'[u])
  <2>1. alloc_format[t] = SfFormat(req[t])
    BY <1>2 DEF BySize, Asking
  <2>2. alloc_format'[t] = [SfFormat(req[t]) EXCEPT !.afbc =
          should_sf_client_layer_use_afbc_format_by_size(req[t], fb_size[t])]
    BY <1>2, <2>1 DEF BySize
  <2>3. alloc_format'[t].afbc =
          should_sf_client_layer_use_afbc_format_by_size(req[t], fb_size[t])
    BY <2>2 DEF SfFormat
  <2>4. should_sf_client_layer_use_afbc_format_by_size(req[t], fb_size[t]) \in BOOLEAN
    BY DEF should_sf_client_layer_use_afbc_format_by_size
  <2>5. \A u \in Threads \ {t} : alloc_format'[u] = alloc_format[u]
    BY <1>2 DEF BySize
  <2>6. QED
    BY <2>3, <2>4, <2>5
<1>3. ASSUME NEW t \in Threads, Return(t)
      PROVE  \A u \in Threads : Fine(alloc_format'[u])
  BY <1>3 DEF Return, NoFormat
<1>4. ASSUME NEW p \in Procs, Restart(p)
      PROVE  \A u \in Threads : Fine(alloc_format'[u])
  BY <1>4 DEF Restart, NoFormat
<1>5. ASSUME alloc_format' = alloc_format
      PROVE  \A u \in Threads : Fine(alloc_format'[u])
  BY <1>5
<1>6. QED
  BY <1>1, <1>2, <1>3, <1>4, <1>5 DEF Next, Step, Call, GetCached, GetProp, GetStore,
     GetReturn, SaveKnown, SaveCache, SaveProp, SavePropRefused

\* Every step keeps the types.
LEMMA TypeStep ==
  ASSUME TypeOK, Asking, Chosen, Next
  PROVE  TypeOK'
<1>0. \A u \in Threads : alloc_format'[u].afbc \in BOOLEAN
  BY FormatsStep
<1> USE ProcAssumption DEF TypeOK, Goto, Labels
<1>1. ASSUME NEW t \in Threads, Call(t) PROVE TypeOK'
  BY <1>1, <1>0 DEF Call, Asking
<1>2. ASSUME NEW t \in Threads, SelectFb(t) \/ SelectSf(t) PROVE TypeOK'
  BY <1>2, <1>0 DEF SelectFb, SelectSf
<1>3. ASSUME NEW t \in Threads, GetCached(t) \/ GetProp(t) \/ GetStore(t) \/ GetReturn(t)
      PROVE  TypeOK'
  BY <1>3, <1>0 DEF GetCached, GetProp, GetStore, GetReturn
<1>4. ASSUME NEW t \in Threads, BySize(t) PROVE TypeOK'
  BY <1>4, <1>0 DEF BySize
<1>5. ASSUME NEW t \in Threads, SaveKnown(t) \/ SaveCache(t) \/ SaveProp(t)
             \/ SavePropRefused(t)
      PROVE  TypeOK'
  BY <1>5, <1>0, SizeOfRequest DEF SaveKnown, SaveCache, SaveProp, SavePropRefused, Asking
<1>6. ASSUME NEW t \in Threads, Return(t) PROVE TypeOK'
  BY <1>6, <1>0 DEF Return, Asking
<1>7. ASSUME NEW p \in Procs, Restart(p) PROVE TypeOK'
  BY <1>7, <1>0 DEF Restart
<1>8. QED
  BY <1>1, <1>2, <1>3, <1>4, <1>5, <1>6, <1>7 DEF Next, Step

\* Types, whoever saves the size.
THEOREM TypeCorrect == Spec => []TypeOK
<1> DEFINE T == TypeOK /\ Asking /\ Chosen
<1>1. T /\ UNCHANGED vars => T'
  BY DEF TypeOK, Asking, Chosen, vars, FbFormat, SfMayUseAfbc
<1>2. T /\ [Next]_vars => T'
  BY <1>1, TypeStep, AskingStep, ChosenStep
<1>3. Init => T
  BY InitTypes
<1>4. T => TypeOK
  OBVIOUS
<1> HIDE DEF T
<1>5. QED
  BY <1>2, <1>3, <1>4, PTL DEF Spec

-----------------------------------------------------------------------------
\* The saver knows the size it saved, and only that.
LEMMA SizeStep ==
  ASSUME NEW s \in Threads, OneSaver(s), TypeOK, Asking, SizeKnown(s), Next
  PROVE  SizeKnown(s)'
<1> USE ProcAssumption DEF TypeOK, SizeKnown, Goto, OneSaver
<1>0. ASSUME NEW t \in Threads, pc[t] # "idle", t # s PROVE ~ForFb(req[t])
  BY <1>0 DEF Asking, ForFb
<1>1. ASSUME NEW t \in Threads, Call(t) PROVE SizeKnown(s)'
  BY <1>1 DEF Call
<1>2. ASSUME NEW t \in Threads, SelectFb(t) \/ SelectSf(t) PROVE SizeKnown(s)'
  BY <1>2 DEF SelectFb, SelectSf
<1>3. ASSUME NEW t \in Threads, GetCached(t) PROVE SizeKnown(s)'
  BY <1>3 DEF GetCached
<1>4. ASSUME NEW t \in Threads, GetProp(t) PROVE SizeKnown(s)'
  BY <1>4 DEF GetProp
<1>5. ASSUME NEW t \in Threads, GetStore(t) PROVE SizeKnown(s)'
  BY <1>5 DEF GetStore
<1>6. ASSUME NEW t \in Threads, GetReturn(t) PROVE SizeKnown(s)'
  BY <1>6, <1>0 DEF GetReturn
<1>7. ASSUME NEW t \in Threads, BySize(t) PROVE SizeKnown(s)'
  BY <1>7 DEF BySize
<1>8. ASSUME NEW t \in Threads, SaveKnown(t) \/ SavePropRefused(t) PROVE SizeKnown(s)'
  BY <1>8 DEF SaveKnown, SavePropRefused
<1>9. ASSUME NEW t \in Threads, SaveCache(t) PROVE SizeKnown(s)'
  BY <1>9, SizeOfRequest DEF SaveCache, Asking
<1>10. ASSUME NEW t \in Threads, SaveProp(t) PROVE SizeKnown(s)'
  BY <1>10 DEF SaveProp
<1>11. ASSUME NEW t \in Threads, Return(t) PROVE SizeKnown(s)'
  BY <1>11 DEF Return
<1>12. ASSUME NEW p \in Procs, Restart(p) PROVE SizeKnown(s)'
  BY <1>12 DEF Restart
<1>13. QED
  BY <1>1, <1>2, <1>3, <1>4, <1>5, <1>6, <1>7, <1>8, <1>9, <1>10, <1>11, <1>12
     DEF Next, Step

\* The property is set once.
LEMMA PropStep ==
  ASSUME NEW s \in Threads, OneSaver(s), SizeKnown(s), Next
  PROVE  fb_prop # 0 => fb_prop' = fb_prop
BY DEF Next, Step, Call, SelectFb, SelectSf, GetCached, GetProp, GetStore, GetReturn,
   BySize,
       SaveKnown, SaveCache, SaveProp, SavePropRefused, Return, Restart, SizeKnown

\* A process whose cache is filled has the saved size.
LEMMA CacheHasSize ==
  ASSUME NEW s \in Threads, SizeKnown(s), NEW p \in Procs, fb_prop # 0
  PROVE  s_fb_size[p] \in {0, fb_prop}
BY DEF SizeKnown

\* A call that began with a saved size bases its choice on that size.
LEMMA SizeUsedStep ==
  ASSUME NEW s \in Threads, OneSaver(s), TypeOK, Asking, SizeKnown(s), SizeUsed, Next
  PROVE  SizeUsed'
<1>0. fb_prop # 0 => fb_prop' = fb_prop
  BY PropStep
<1>00. \A t \in Threads, p \in Procs : fb_prop # 0 => s_fb_size[p] \in {0, fb_prop}
  BY CacheHasSize
<1> USE ProcAssumption DEF TypeOK, SizeUsed, Goto
<1>1. ASSUME NEW t \in Threads, Call(t) PROVE SizeUsed'
  BY <1>1, <1>0, <1>00 DEF Call
<1>2. ASSUME NEW t \in Threads, SelectFb(t) \/ SelectSf(t) PROVE SizeUsed'
  BY <1>2, <1>0, <1>00 DEF SelectFb, SelectSf
<1>3. ASSUME NEW t \in Threads, GetCached(t) PROVE SizeUsed'
  BY <1>3, <1>0, <1>00 DEF GetCached
<1>4. ASSUME NEW t \in Threads, GetProp(t) PROVE SizeUsed'
  BY <1>4, <1>0, <1>00 DEF GetProp
<1>5. ASSUME NEW t \in Threads, GetStore(t) PROVE SizeUsed'
  BY <1>5, <1>0, <1>00 DEF GetStore, OneSaver
<1>6. ASSUME NEW t \in Threads, GetReturn(t) PROVE SizeUsed'
  BY <1>6, <1>0, <1>00 DEF GetReturn
<1>7. ASSUME NEW t \in Threads, BySize(t) PROVE SizeUsed'
  BY <1>7, <1>0, <1>00 DEF BySize
<1>8. ASSUME NEW t \in Threads, SaveKnown(t) \/ SavePropRefused(t) PROVE SizeUsed'
  BY <1>8, <1>0, <1>00 DEF SaveKnown, SavePropRefused
<1>9. ASSUME NEW t \in Threads, SaveCache(t) PROVE SizeUsed'
  BY <1>9, <1>0, <1>00 DEF SaveCache, SizeKnown, OneSaver
<1>10. ASSUME NEW t \in Threads, SaveProp(t) PROVE SizeUsed'
  BY <1>10, <1>0, <1>00 DEF SaveProp, SizeKnown, OneSaver
<1>11. ASSUME NEW t \in Threads, Return(t) PROVE SizeUsed'
  BY <1>11, <1>0, <1>00 DEF Return
<1>12. ASSUME NEW p \in Procs, Restart(p) PROVE SizeUsed'
  BY <1>12, <1>0, <1>00 DEF Restart
<1>13. QED
  BY <1>1, <1>2, <1>3, <1>4, <1>5, <1>6, <1>7, <1>8, <1>9, <1>10, <1>11, <1>12
     DEF Next, Step

\* How a call comes to have chosen.
LEMMA Derived ==
  ASSUME TypeOK, Asking, Chosen, Next, NEW u \in Threads, pc'[u] = "derived"
  PROVE  /\ known'[u] = known[u] /\ req'[u] = req[u]
         /\ \/ pc[u] = "derived" /\ alloc_format'[u] = alloc_format[u]
            \/ SelectSf(u)
            \/ BySize(u)
            \/ pc[u] \in {"save", "setprop"} /\ alloc_format'[u] = alloc_format[u]
<1> DEFINE Goal == /\ known'[u] = known[u] /\ req'[u] = req[u]
                   /\ \/ pc[u] = "derived" /\ alloc_format'[u] = alloc_format[u]
                      \/ SelectSf(u)
                      \/ BySize(u)
                      \/ pc[u] \in {"save", "setprop"} /\ alloc_format'[u] = alloc_format[u]
<1> USE DEF TypeOK, Asking, Chosen, Goto
<1>1. ASSUME NEW t \in Threads, Call(t) PROVE Goal
  BY <1>1 DEF Call
<1>2. ASSUME NEW t \in Threads, SelectFb(t) PROVE Goal
  BY <1>2 DEF SelectFb
<1>3. ASSUME NEW t \in Threads, SelectSf(t) PROVE Goal
  BY <1>3 DEF SelectSf
<1>4. ASSUME NEW t \in Threads, GetCached(t) \/ GetProp(t) \/ GetStore(t) PROVE Goal
  BY <1>4 DEF GetCached, GetProp, GetStore
<1>5. ASSUME NEW t \in Threads, GetReturn(t) PROVE Goal
  BY <1>5 DEF GetReturn
<1>6. ASSUME NEW t \in Threads, BySize(t) PROVE Goal
  BY <1>6 DEF BySize, Asking
<1>7. ASSUME NEW t \in Threads, SaveKnown(t) \/ SaveCache(t) \/ SaveProp(t)
             \/ SavePropRefused(t)
      PROVE  Goal
  BY <1>7 DEF SaveKnown, SaveCache, SaveProp, SavePropRefused, Asking
<1>8. ASSUME NEW t \in Threads, Return(t) PROVE Goal
  BY <1>8 DEF Return
<1>9. ASSUME NEW p \in Procs, Restart(p) PROVE Goal
  BY <1>9 DEF Restart
<1>10. QED
  BY <1>1, <1>2, <1>3, <1>4, <1>5, <1>6, <1>7, <1>8, <1>9 DEF Next, Step

\* A call that began with a saved size chooses what that size leads to.
LEMMA ChoiceStep ==
  ASSUME NEW s \in Threads, OneSaver(s), IInv(s), Next
  PROVE  ChoiceMade'
<1> USE DEF IInv
<1> SUFFICES ASSUME NEW u \in Threads, pc'[u] = "derived", known'[u] # 0
             PROVE  alloc_format'[u] = Choice(req[u], fb_prop)'
  BY DEF ChoiceMade
<1>1. known[u] # 0 /\ known[u] = fb_prop /\ fb_prop' = fb_prop /\ req'[u] = req[u]
  BY Derived, PropStep DEF SizeUsed
<1>2. Choice(req[u], fb_prop)' = Choice(req[u], fb_prop)
  BY <1>1, SwitchesStay DEF Choice, FbFormat, SfFormat, SfMayUseAfbc,
     should_sf_client_layer_use_afbc_format_by_size
<1>3. CASE pc[u] = "derived" /\ alloc_format'[u] = alloc_format[u]
  BY <1>1, <1>2, <1>3 DEF ChoiceMade
<1>4. CASE SelectSf(u)
  <2>1. ~ForFb(req[u]) /\ alloc_format'[u] = SfFormat(req[u])
    BY <1>4 DEF SelectSf, SfFormat, Chosen
  <2>2. ~SfMayUseAfbc(req[u])
    BY <1>4 DEF SelectSf, Goto, TypeOK
  <2>3. QED
    BY <1>2, <2>1, <2>2 DEF Choice
<1>5. CASE BySize(u)
  <2> DEFINE Big == should_sf_client_layer_use_afbc_format_by_size(req[u], fb_prop)
  <2>1. ~ForFb(req[u]) /\ alloc_format[u] = SfFormat(req[u]) /\ SfMayUseAfbc(req[u])
    BY <1>5 DEF BySize, Asking, Chosen
  <2>2. fb_size[u] = fb_prop
    BY <1>1, <1>5 DEF BySize, SizeUsed
  <2>3. alloc_format'[u] = [SfFormat(req[u]) EXCEPT !.afbc = Big]
    BY <1>5, <2>1, <2>2 DEF BySize, Chosen
  <2>4. Big \in BOOLEAN
    BY DEF should_sf_client_layer_use_afbc_format_by_size
  <2>5. alloc_format'[u] = [base |-> InternalFormat(req[u]), afbc |-> Big]
    BY <2>3 DEF SfFormat
  <2> HIDE DEF Big
  <2>6. CASE Big = TRUE
    BY <1>2, <2>1, <2>5, <2>6 DEF Choice, Big
  <2>7. CASE Big = FALSE
    BY <1>2, <2>1, <2>5, <2>7 DEF Choice, Big, SfFormat
  <2>8. QED
    BY <2>4, <2>6, <2>7
<1>6. CASE pc[u] \in {"save", "setprop"} /\ alloc_format'[u] = alloc_format[u]
  BY <1>2, <1>6 DEF Asking, Chosen, Choice
<1>7. QED
  BY <1>3, <1>4, <1>5, <1>6, Derived

-----------------------------------------------------------------------------
\* Before the first call nothing is saved or chosen.
LEMMA InitIInv ==
  ASSUME NEW s \in Threads, Init
  PROVE  IInv(s)
<1>1. TypeOK /\ Asking /\ Chosen
  BY InitTypes
<1>2. SizeKnown(s) /\ SizeUsed /\ ChoiceMade
  BY ProcAssumption DEF Init, SizeKnown, SizeUsed, ChoiceMade
<1>3. QED
  BY <1>1, <1>2 DEF IInv

\* One lemma per part of the invariant.
LEMMA NextIInv ==
  ASSUME NEW s \in Threads, OneSaver(s), IInv(s), [Next]_vars
  PROVE  IInv(s)'
<1>1. CASE Next
  <2>1. TypeOK' /\ Asking' /\ Chosen'
    BY <1>1, TypeStep, AskingStep, ChosenStep DEF IInv
  <2>2. SizeKnown(s)' /\ SizeUsed' /\ ChoiceMade'
    BY <1>1, SizeStep, SizeUsedStep, ChoiceStep DEF IInv
  <2>3. QED
    BY <2>1, <2>2 DEF IInv
<1>2. CASE UNCHANGED vars
  <2>1. TypeOK' /\ Asking' /\ Chosen'
    BY <1>2 DEF IInv, TypeOK, Asking, Chosen, vars, FbFormat, SfMayUseAfbc
  <2>2. SizeKnown(s)' /\ SizeUsed'
    BY <1>2 DEF IInv, SizeKnown, SizeUsed, vars
  <2>3. ChoiceMade'
    BY <1>2 DEF IInv, ChoiceMade, vars, Choice, FbFormat, SfFormat, SfMayUseAfbc,
       should_sf_client_layer_use_afbc_format_by_size
  <2>4. QED
    BY <2>1, <2>2, <2>3 DEF IInv
<1>3. QED
  BY <1>1, <1>2

\* The inductive invariant, when s is the one saver.
THEOREM Invariance ==
  ASSUME NEW s \in Threads, OneSaver(s)
  PROVE  Spec => []IInv(s)
<1>1. Init => IInv(s)
  BY InitIInv
<1>2. IInv(s) /\ [Next]_vars => IInv(s)'
  BY NextIInv
<1>3. QED
  BY <1>1, <1>2, PTL DEF Spec

\* With one saver, no two processes believe in different framebuffer sizes.
THEOREM SizesAgree ==
  ASSUME NEW s \in Threads, OneSaver(s)
  PROVE  Spec => []CachesAgree
<1>1. IInv(s) => CachesAgree
  BY ProcAssumption DEF IInv, SizeKnown, CachesAgree
<1>2. QED
  BY <1>1, Invariance, PTL

\* With one saver, the size that was saved first stays.
THEOREM FirstSizeStays ==
  ASSUME NEW s \in Threads, OneSaver(s)
  PROVE  Spec => FbSizeSticks
<1>1. IInv(s) /\ [Next]_vars => [fb_prop # 0 => fb_prop' = fb_prop]_vars
  BY PropStep DEF IInv, vars
<1>2. QED
  BY <1>1, Invariance, PTL DEF Spec, FbSizeSticks

\* With one saver, a query of the mapper foretells what the allocator chooses.
THEOREM QueriesForetell ==
  ASSUME NEW s \in Threads, OneSaver(s)
  PROVE  Spec => []QueriesAgree
<1>1. IInv(s) => QueriesAgree
  BY DEF IInv, ChoiceMade, QueriesAgree
<1>2. QED
  BY <1>1, Invariance, PTL

\* With one saver, small buffers are not given AFBC.
THEOREM SmallBuffersLinear ==
  ASSUME NEW s \in Threads, OneSaver(s)
  PROVE  Spec => []SmallNotAfbc
<1>1. ASSUME IInv(s) PROVE SmallNotAfbc
  <2> SUFFICES ASSUME NEW t \in Threads, pc[t] = "derived", ~ForFb(req[t]),
                      req[t].format = "RGBA_8888",
                      4 * req[t].width * req[t].height <= known[t] - 4,
                      alloc_format[t].afbc
               PROVE  "not_to_use_non_afbc_for_small_buffers" \in switches
    BY DEF SmallNotAfbc
  <2>1. req[t] \in Requests[t] /\ known[t] \in Nat
    BY <1>1 DEF IInv, Asking, TypeOK
  <2>2. req[t].width \in Nat \ {0} /\ req[t].height \in Nat \ {0}
    BY <2>1, RequestsAssumption
  <2>3. \A w, h, k \in Nat : 4 * w * h <= k - 4 => k # 0 /\ w * h < k \div 4
    <3>1. \A m, k \in Nat : 4 * m <= k - 4 => k # 0 /\ m < k \div 4
      OBVIOUS
    <3>2. \A w, h \in Nat : w * h \in Nat /\ 4 * w * h = 4 * (w * h)
      OBVIOUS
    <3>3. QED
      BY <3>1, <3>2
  <2>4. known[t] # 0 /\ buffer_size(req[t]) < known[t] \div 4
    BY <2>1, <2>2, <2>3 DEF buffer_size
  <2>5. known[t] = fb_prop /\ alloc_format[t] = Choice(req[t], fb_prop)
    BY <1>1, <2>4 DEF IInv, SizeUsed, ChoiceMade
  <2>6. should_sf_client_layer_use_afbc_format_by_size(req[t], fb_prop)
    BY <2>5 DEF Choice, SfFormat
  <2>7. InternalFormat(req[t]) = "RGBA_8888"
    BY DEF InternalFormat, get_internal_format, RkFormats, HalFormats, BaseFormats
  <2>8. ~(buffer_size(req[t]) >= known[t] \div 4)
    <3>1. buffer_size(req[t]) \in Nat
      BY <2>1, SizeOfRequest
    <3>2. QED
      BY <2>1, <2>4, <3>1
  <2>9. QED
    BY <2>5, <2>6, <2>7, <2>8 DEF should_sf_client_layer_use_afbc_format_by_size
<1>2. QED
  BY <1>1, Invariance, PTL
=============================================================================
