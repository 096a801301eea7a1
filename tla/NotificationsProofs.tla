------------------------- MODULE NotificationsProofs -------------------------
(***************************************************************************)
(* The notifications of Notifications, for all threads, configurations,    *)
(* locales and files.                                                      *)
(***************************************************************************)
EXTENDS Notifications, TLAPS

(***************************************************************************)
(* The item a thread is at is one of the configuration.                    *)
(***************************************************************************)
LEMMA ItemIsTyped ==
  ASSUME ItemsAreKnown, NEW t \in Thread, Active(t)
  PROVE  Name(t) \in Popup /\ Item(t).action \in Nat
<1>1. /\ Items(uevent[t]) \in Seq([name : Popup, action : Nat, valid : BOOLEAN])
      /\ next[t] \in DOMAIN Items(uevent[t])
  BY ConfigAssumption DEF ItemsAreKnown
<1>2. Item(t) \in [name : Popup, action : Nat, valid : BOOLEAN]
  <2>1. \A S : \A s \in Seq(S) : \A i \in DOMAIN s : s[i] \in S
    OBVIOUS
  <2>. QED
    BY <1>1, <2>1 DEF Item
<1>. QED
  BY <1>2 DEF Name

(***************************************************************************)
(* The strings of a language and the texts made of them are typed.         *)
(***************************************************************************)
LEMMA LanguageIsTyped ==
  ASSUME NEW n, NEW l, NEW listed \in SUBSET DOMAIN Path
  PROVE  LanguageFor(n, l, listed) \in Language
BY DEF LanguageFor, Language

LEMMA InsertIsTyped ==
  ASSUME NEW strings \in [Key -> Text], NEW l \in Language, NEW f
  PROVE  Insert(strings, l, f) \in [Key -> Text]
BY DEF Insert, Text

LEMMA TextIsTyped ==
  ASSUME NEW strings \in [Key -> Text], NEW k \in Key, NEW form \in Form
  PROVE  [text |-> strings[k], form |-> form, buttons |-> {}] \in Content
BY DEF Content

LEMMA ButtonsAreTyped ==
  ASSUME NEW p \in Configured, NEW strings
  PROVE  ButtonsIn(p, strings) \subseteq Action
<1>1. Conf(p).buttons \subseteq [name : Key, action : Action]
  BY ConfigAssumption
<1>. QED
  BY <1>1 DEF ButtonsIn

(***************************************************************************)
(* Going to the next item moves one thread to "parse" or "idle".           *)
(***************************************************************************)
LEMMA NextItemIsLocal ==
  ASSUME TypeOK, ItemsAreKnown, NEW t \in Thread, Active(t), NextItem(t)
  PROVE  /\ pc' \in [Thread -> Label]
         /\ pc'[t] \in {"parse", "idle"}
         /\ \A x \in Thread \ {t} : pc'[x] = pc[x] /\ next'[x] = next[x]
                                    /\ uevent'[x] = uevent[x]
         /\ next' \in [Thread -> Nat]
         /\ uevent' \in [Thread -> DOMAIN PopupConfig \cup {None}]
         /\ pc'[t] # "idle" => /\ uevent'[t] \in DOMAIN PopupConfig
                               /\ next'[t] \in DOMAIN Items(uevent'[t])
<1>1. pc \in [Thread -> Label] /\ next \in [Thread -> Nat]
      /\ uevent \in [Thread -> DOMAIN PopupConfig \cup {None}]
  BY DEF TypeOK
<1>2. uevent[t] \in DOMAIN PopupConfig /\ next[t] \in DOMAIN Items(uevent[t])
  BY DEF ItemsAreKnown
<1>3. Items(uevent[t]) \in Seq([name : Popup, action : Nat, valid : BOOLEAN])
  BY <1>2, ConfigAssumption
<1>4. CASE next[t] < Len(Items(uevent[t]))
  <2>1. /\ pc' = [pc EXCEPT ![t] = "parse"] /\ uevent' = uevent
        /\ next' = [next EXCEPT ![t] = next[t] + 1]
    BY <1>4 DEF NextItem, Goto
  <2>2. next[t] + 1 \in DOMAIN Items(uevent[t])
    BY <1>2, <1>3, <1>4
  <2>3. pc' \in [Thread -> Label]
    BY <1>1, <2>1 DEF Label
  <2>. QED
    BY <1>1, <1>2, <2>1, <2>2, <2>3
<1>5. CASE ~(next[t] < Len(Items(uevent[t])))
  <2>1. /\ pc' = [pc EXCEPT ![t] = "idle"] /\ next' = [next EXCEPT ![t] = 1]
        /\ uevent' = IF alone = t THEN uevent ELSE [uevent EXCEPT ![t] = None]
    BY <1>5 DEF NextItem, Goto
  <2>2. pc' \in [Thread -> Label]
    BY <1>1, <2>1 DEF Label
  <2>. QED
    BY <1>1, <2>1, <2>2
<1>. QED
  BY <1>4, <1>5

(***************************************************************************)
(* The initial states satisfy the invariant.                               *)
(***************************************************************************)
LEMMA InvInit == Init => IInv
<1> SUFFICES ASSUME Init PROVE IInv
  OBVIOUS
<1>1. NoContent \in Content /\ NoObject \in Object /\ NoStrings \in [Key -> Text]
  BY DEF NoContent, NoObject, NoStrings, Content, Object, Form, Text
<1>2. TypeOK
  <2>1. /\ pc \in [Thread -> Label] /\ next \in [Thread -> Nat]
        /\ uevent \in [Thread -> DOMAIN PopupConfig \cup {None}]
        /\ local \in [Thread -> Locale \cup {None}]
        /\ language \in [Thread -> Language]
    BY DEF Init, Label, Language
  <2>2. /\ content \in [Thread -> Content] /\ object \in [Thread -> Object]
        /\ kept \in [Popup -> Object] /\ stringMap \in [Key -> Text]
    BY <1>1 DEF Init
  <2>3. /\ panel \in [Popup -> SUBSET Action]
        /\ status \in [Popup -> {"none", "shown", "swiped"}]
    BY DEF Init
  <2>. QED
    BY <2>1, <2>2, <2>3 DEF Init, TypeOK
<1>3. ItemsAreKnown /\ AloneIsAlone /\ TextIsFilled /\ TextIsLocalised
  BY NoneAssumption DEF Init, ItemsAreKnown, Active, AloneIsAlone, TextIsFilled, TextIsLocalised
<1>7. PanelFollows
  BY NoneAssumption DEF Init, PanelFollows
<1>4. OneCancels /\ ShownIsOwned /\ CancelledIsGone
  BY NoneAssumption DEF Init, OneCancels, ShownIsOwned, CancelledIsGone
<1>6. LanguagesAreParsed /\ BaseNameIsSet /\ StringsAreParsed
  BY DEF Init, LanguagesAreParsed, BaseNameIsSet, StringsAreParsed, BusyLabel,
         RebuildLabel
<1>. QED
  BY <1>2, <1>3, <1>4, <1>6, <1>7 DEF IInv

(***************************************************************************)
(* Every step of a thread keeps the types.                                 *)
(***************************************************************************)
LEMMA HandleKeepsType ==
  ASSUME TypeOK, NEW t \in Thread, NEW u \in DOMAIN PopupConfig, HandleNotification(t, u)
  PROVE  TypeOK'
<1>1. pc' \in [Thread -> Label]
  BY DEF TypeOK, HandleNotification, Goto, Label
<1>2. uevent' \in [Thread -> DOMAIN PopupConfig \cup {None}] /\ next' \in [Thread -> Nat]
  BY DEF TypeOK, HandleNotification
<1>3. alone' \in Thread \cup {None}
  BY DEF HandleNotification
<1>. QED
  BY <1>1, <1>2, <1>3 DEF TypeOK, HandleNotification, systemVars, localeVars,
     mapVars, panelVars

LEMMA UpdateKeepsType ==
  ASSUME TypeOK, NEW t \in Thread, Update(t)
  PROVE  TypeOK'
<1>1. pc \in [Thread -> Label]
  BY DEF TypeOK
<1>2. CASE ParseLocaleCfg(t)
  <2>1. pc' \in [Thread -> Label]
    BY <1>1, <1>2 DEF ParseLocaleCfg, Goto, Label, BusyLabel
  <2>2. torn' \in BOOLEAN
    BY <1>2 DEF ParseLocaleCfg, TypeOK
  <2>. QED
    BY <1>2, <2>1, <2>2 DEF TypeOK, ParseLocaleCfg, systemVars, threadVars,
       mapVars, panelVars
<1>3. CASE EmptyLanguageMap(t)
  <2>1. pc' \in [Thread -> Label]
    BY <1>1, <1>3 DEF EmptyLanguageMap, Goto, Label, BusyLabel
  <2>. QED
    BY <1>3, <2>1 DEF TypeOK, EmptyLanguageMap, systemVars, threadVars, mapVars,
       panelVars
<1>4. CASE FillLanguageMap(t)
  <2>1. pc' \in [Thread -> Label]
    BY <1>1, <1>4 DEF FillLanguageMap, Goto, Label
  <2>2. languages' \in BOOLEAN /\ languageMap' \subseteq DOMAIN Path
    BY <1>4 DEF FillLanguageMap, TypeOK
  <2>. QED
    BY <1>4, <2>1, <2>2 DEF TypeOK, FillLanguageMap, systemVars, threadVars,
       mapVars, panelVars
<1>5. CASE CompareLocale(t)
  <2>1. pc' \in [Thread -> Label]
    BY <1>1, <1>5 DEF CompareLocale, Goto, Label, BusyLabel, RebuildLabel
  <2>2. torn' \in BOOLEAN
    BY <1>5 DEF CompareLocale, TypeOK, Disturbs
  <2>3. local' \in [Thread -> Locale \cup {None}]
    BY <1>5 DEF CompareLocale, TypeOK
  <2>. QED
    BY <1>5, <2>1, <2>2, <2>3 DEF TypeOK, CompareLocale, systemVars, mapVars,
       panelVars
<1>6. CASE ChooseLanguage(t)
  <2>1. pc' \in [Thread -> Label]
    BY <1>1, <1>6 DEF ChooseLanguage, Goto, Label, BusyLabel, RebuildLabel
  <2>2. language' \in [Thread -> Language]
    BY <1>6, LanguageIsTyped DEF ChooseLanguage, TypeOK
  <2>3. local' \in [Thread -> Locale \cup {None}]
    BY <1>6 DEF ChooseLanguage, TypeOK
  <2>. QED
    BY <1>6, <2>1, <2>2, <2>3 DEF TypeOK, ChooseLanguage, systemVars, localeVars,
       mapVars, panelVars
<1>7. CASE ClearStrings(t)
  <2>1. pc' \in [Thread -> Label]
    BY <1>1, <1>7 DEF ClearStrings, Goto, Label, BusyLabel, RebuildLabel
  <2>2. stringMap' \in [Key -> Text]
    BY <1>7 DEF ClearStrings, NoStrings, Text
  <2>. QED
    BY <1>7, <2>1, <2>2 DEF TypeOK, ClearStrings, systemVars, threadVars, mapVars,
       panelVars
<1>8. CASE ParseStrings(t)
  <2>1. pc' \in [Thread -> Label]
    BY <1>1, <1>8 DEF ParseStrings, Goto, Label, BusyLabel, RebuildLabel
  <2>2. stringMap' \in [Key -> Text]
    BY <1>8, InsertIsTyped DEF ParseStrings, TypeOK
  <2>3. language' \in [Thread -> Language]
    BY <1>8 DEF ParseStrings, TypeOK, Language
  <2>. QED
    BY <1>8, <2>1, <2>2, <2>3 DEF TypeOK, ParseStrings, systemVars, mapVars,
       panelVars
<1>9. CASE StoreBaseName(t)
  <2>1. pc' \in [Thread -> Label]
    BY <1>1, <1>9 DEF StoreBaseName, Goto, Label, BusyLabel, RebuildLabel
  <2>2. baseName' \in Locale \cup {None}
    BY <1>9 DEF StoreBaseName, TypeOK
  <2>. QED
    BY <1>9, <2>1, <2>2 DEF TypeOK, StoreBaseName, systemVars, threadVars, mapVars,
       panelVars
<1>. QED
  BY <1>2, <1>3, <1>4, <1>5, <1>6, <1>7, <1>8, <1>9 DEF Update

LEMMA PublishKeepsType ==
  ASSUME TypeOK, ItemsAreKnown, NEW t \in Thread, Publish(t)
  PROVE  TypeOK'
<1>1. pc \in [Thread -> Label] /\ content \in [Thread -> Content]
      /\ object \in [Thread -> Object] /\ stringMap \in [Key -> Text]
  BY DEF TypeOK
<1>2. CASE FillText(t)
  <2>1. pc' \in [Thread -> Label]
    BY <1>1, <1>2 DEF FillText, Goto, Label
  <2>2. Conf(Name(t)).text \in Key
    BY <1>2, ConfigAssumption DEF FillText, Publishes
  <2>3. PICK form \in {"raw", "plain"} :
          content' = [content EXCEPT ![t] =
            [text |-> stringMap[Conf(Name(t)).text], form |-> form, buttons |-> {}]]
    BY <1>2 DEF FillText
  <2>4. [text |-> stringMap[Conf(Name(t)).text], form |-> form, buttons |-> {}]
          \in Content
    BY <1>1, <2>2, TextIsTyped DEF Form
  <2>5. content' \in [Thread -> Content]
    BY <1>1, <2>3, <2>4
  <2>. QED
    BY <1>2, <2>1, <2>5 DEF TypeOK, FillText, systemVars, localeVars, mapVars,
       panelVars
<1>6. CASE FillPower(t)
  <2>1. pc' \in [Thread -> Label]
    BY <1>1, <1>6 DEF FillPower, Goto, Label
  <2>2. stringMap["start"] \in Text
    BY <1>1, LocalesAssumption
  <2>3. content' \in [Thread -> Content]
    <3>1. CASE content' = [content EXCEPT ![t].form = "filled"]
      BY <1>1, <3>1 DEF Content, Form
    <3>2. CASE content' = [content EXCEPT ![t] =
                 [text |-> stringMap["start"], form |-> "start", buttons |-> {}]]
      BY <1>1, <2>2, <3>2 DEF Content, Form
    <3>. QED
      BY <1>1, <1>6, <3>1, <3>2 DEF FillPower
  <2>. QED
    BY <1>6, <2>1, <2>3 DEF TypeOK, FillPower, systemVars, localeVars, mapVars,
       panelVars
<1>3. CASE FillButtons(t)
  <2>1. pc' \in [Thread -> Label]
    BY <1>1, <1>3 DEF FillButtons, Goto, Label
  <2>2. Name(t) \in Configured
    BY <1>3 DEF FillButtons, ItemsAreKnown, Publishes
  <2>3. content' \in [Thread -> Content]
    <3>1. ButtonsIn(Name(t), stringMap) \in SUBSET Action
      BY <2>2, ButtonsAreTyped
    <3>2. content' = [content EXCEPT ![t].buttons = ButtonsIn(Name(t), stringMap)]
      BY <1>3 DEF FillButtons
    <3>. QED
      BY <1>1, <3>1, <3>2 DEF Content
  <2>. QED
    BY <1>3, <2>1, <2>3 DEF TypeOK, FillButtons, systemVars, localeVars, mapVars,
       panelVars
<1>4. CASE PublishNotification(t)
  <2>1. pc' \in [Thread -> Label]
    BY <1>1, <1>4 DEF PublishNotification, Goto, Label
  <2>2. Name(t) \in Popup
    BY <1>4, ItemIsTyped DEF PublishNotification, Active
  <2>3. content[t] \in Content /\ content[t].buttons \subseteq Action
    BY <1>1 DEF Content
  <2>4. object' \in [Thread -> Object]
    <3>1. PICK failed \in SUBSET (content[t].buttons \cap ReverseSuperCharge) :
            object' = [object EXCEPT ![t] = CreateButtons(content[t], failed)]
      BY <1>4 DEF PublishNotification
    <3>2. CreateButtons(content[t], failed) \in Object
      BY <2>3 DEF CreateButtons, Object
    <3>. QED
      BY <1>1, <3>1, <3>2
  <2>5. content' \in [Thread -> Content]
    BY <1>1, <1>4 DEF PublishNotification, NoContent, Content, Text, Form
  <2>6. /\ panel' \in [Popup -> SUBSET Action] /\ refused' \subseteq Popup
        /\ status' \in [Popup -> {"none", "shown", "swiped"}]
    BY <1>4, <2>2, <2>3 DEF PublishNotification, TypeOK
  <2>. QED
    BY <1>4, <2>1, <2>4, <2>5, <2>6 DEF TypeOK, PublishNotification, systemVars,
       localeVars, mapVars
<1>5. CASE KeepNotification(t)
  <2>1. Name(t) \in Popup
    BY <1>5, ItemIsTyped DEF KeepNotification, Active
  <2>2. /\ pc' \in [Thread -> Label] /\ next' \in [Thread -> Nat]
        /\ uevent' \in [Thread -> DOMAIN PopupConfig \cup {None}]
    BY <1>5, NextItemIsLocal DEF KeepNotification, Active
  <2>3. mapped' \subseteq Popup /\ replaced' \subseteq Popup
    BY <1>5, <2>1 DEF KeepNotification, TypeOK
  <2>4. kept' \in [Popup -> Object] /\ object' \in [Thread -> Object]
    BY <1>1, <1>5, <2>1 DEF KeepNotification, TypeOK, NoObject, Object
  <2>. QED
    BY <1>5, <2>2, <2>3, <2>4 DEF TypeOK, KeepNotification, systemVars,
       localeVars, panelVars
<1>. QED
  BY <1>2, <1>3, <1>4, <1>5, <1>6 DEF Publish

LEMMA CancelKeepsType ==
  ASSUME TypeOK, ItemsAreKnown, NEW t \in Thread, Cancel(t)
  PROVE  TypeOK'
<1>1. pc \in [Thread -> Label] /\ kept \in [Popup -> Object]
  BY DEF TypeOK
<1>2. CASE FindNotification(t)
  <2>1. CASE Name(t) \in mapped
    <3>1. pc' \in [Thread -> Label] /\ mapMutex' \in Thread \cup {None}
      BY <1>1, <1>2, <2>1 DEF FindNotification, Goto, Label
    <3>2. UNCHANGED <<uevent, next>>
      BY <1>2, <2>1 DEF FindNotification
    <3>. QED
      BY <1>2, <3>1, <3>2 DEF TypeOK, FindNotification, systemVars, localeVars,
         panelVars
  <2>2. CASE Name(t) \notin mapped
    <3>1. NextItem(t) /\ mapMutex' = mapMutex
      BY <1>2, <2>2 DEF FindNotification
    <3>2. /\ pc' \in [Thread -> Label] /\ next' \in [Thread -> Nat]
          /\ uevent' \in [Thread -> DOMAIN PopupConfig \cup {None}]
      BY <1>2, <3>1, NextItemIsLocal DEF FindNotification, Active
    <3>. QED
      BY <1>2, <3>1, <3>2 DEF TypeOK, FindNotification, systemVars, localeVars,
         panelVars
  <2>. QED
    BY <2>1, <2>2
<1>3. CASE CancelNotification(t)
  <2>1. pc' \in [Thread -> Label]
    BY <1>1, <1>3 DEF CancelNotification, Goto, Label
  <2>2. Name(t) \in Popup
    BY <1>3, ItemIsTyped DEF CancelNotification, Active
  <2>3. /\ panel' \in [Popup -> SUBSET Action] /\ refused' \subseteq Popup
        /\ status' \in [Popup -> {"none", "shown", "swiped"}]
    BY <1>3, <2>2 DEF CancelNotification, TypeOK
  <2>. QED
    BY <1>3, <2>1, <2>3 DEF TypeOK, CancelNotification, systemVars, localeVars,
       threadVars, mapVars
<1>4. CASE EraseNotification(t)
  <2>1. /\ pc' \in [Thread -> Label] /\ next' \in [Thread -> Nat]
        /\ uevent' \in [Thread -> DOMAIN PopupConfig \cup {None}]
    BY <1>4, NextItemIsLocal DEF EraseNotification, Active
  <2>2. /\ mapped' \subseteq Popup /\ replaced' \subseteq Popup
        /\ mapMutex' \in Thread \cup {None}
    BY <1>4 DEF EraseNotification, TypeOK
  <2>3. kept' \in [Popup -> Object]
    BY <1>1, <1>4 DEF EraseNotification, NoObject, Object
  <2>. QED
    BY <1>4, <2>1, <2>2, <2>3 DEF TypeOK, EraseNotification, systemVars,
       localeVars, panelVars
<1>. QED
  BY <1>2, <1>3, <1>4 DEF Cancel

LEMMA TypeNext == TypeOK /\ ItemsAreKnown /\ [Next]_vars => TypeOK'
<1> SUFFICES ASSUME TypeOK, ItemsAreKnown, [Next]_vars PROVE TypeOK'
  OBVIOUS
<1>1. ASSUME NEW t \in Thread, NEW u \in DOMAIN PopupConfig, HandleNotification(t, u)
      PROVE  TypeOK'
  BY <1>1, HandleKeepsType
<1>2. ASSUME NEW t \in Thread, Update(t) PROVE TypeOK'
  BY <1>2, UpdateKeepsType
<1>3. ASSUME NEW t \in Thread, SkipItem(t) PROVE TypeOK'
  <2>1. /\ pc' \in [Thread -> Label] /\ next' \in [Thread -> Nat]
        /\ uevent' \in [Thread -> DOMAIN PopupConfig \cup {None}]
    BY <1>3, NextItemIsLocal DEF SkipItem, Active
  <2>. QED
    BY <1>3, <2>1 DEF TypeOK, SkipItem, systemVars, localeVars, mapVars, panelVars
<1>4. ASSUME NEW t \in Thread, Publish(t) PROVE TypeOK'
  BY <1>4, PublishKeepsType
<1>5. ASSUME NEW t \in Thread, Cancel(t) PROVE TypeOK'
  BY <1>5, CancelKeepsType
<1>6. CASE ChangeLocale
  BY <1>6 DEF TypeOK, ChangeLocale, localeVars, threadVars, mapVars, panelVars
<1>7. ASSUME NEW p \in Popup, Swipe(p) PROVE TypeOK'
  <2>1. /\ status' \in [Popup -> {"none", "shown", "swiped"}]
        /\ panel' \in [Popup -> SUBSET Action]
    BY <1>7 DEF TypeOK, Swipe
  <2>. QED
    BY <1>7, <2>1 DEF TypeOK, Swipe, systemVars, localeVars, threadVars, mapVars
<1>8. CASE UNCHANGED vars
  BY <1>8 DEF TypeOK, vars, systemVars, localeVars, threadVars, mapVars, panelVars
<1>. QED
  BY <1>1, <1>2, <1>3, <1>4, <1>5, <1>6, <1>7, <1>8 DEF Next

-----------------------------------------------------------------------------
(***************************************************************************)
(* The locale.  The steps that publish, cancel, begin or skip do not touch *)
(* it, and take their thread to no place where it matters.                 *)
(***************************************************************************)
Late == {"act", "config", "buttons", "publish", "keep", "cancel", "erase"}

LocaleOK == LanguagesAreParsed /\ BaseNameIsSet /\ StringsAreParsed

Calm(t) ==
  /\ pc[t] \in Late \cup {"idle"}
  /\ pc'[t] \in {"idle", "parse"} \/ (pc[t] \in Late /\ pc'[t] \in Late)
  /\ \A x \in Thread \ {t} : pc'[x] = pc[x]
  /\ UNCHANGED <<readable, localeVars, local, language>>

LEMMA CalmSteps ==
  ASSUME TypeOK, ItemsAreKnown, NEW t \in Thread,
         \/ \E u \in DOMAIN PopupConfig : HandleNotification(t, u)
         \/ SkipItem(t) \/ Publish(t) \/ Cancel(t)
  PROVE  Calm(t)
<1>1. pc \in [Thread -> Label]
  BY DEF TypeOK
<1>2. ASSUME NEW u \in DOMAIN PopupConfig, HandleNotification(t, u) PROVE Calm(t)
  BY <1>1, <1>2 DEF HandleNotification, Goto, Calm, systemVars, localeVars
<1>3. CASE SkipItem(t)
  BY <1>3, NextItemIsLocal DEF SkipItem, Active, Calm, Late, systemVars, localeVars
<1>4. CASE Publish(t)
  <2>1. CASE FillText(t) \/ FillPower(t) \/ FillButtons(t) \/ PublishNotification(t)
    BY <1>1, <2>1 DEF FillText, FillPower, FillButtons, PublishNotification, Goto, Calm, Late,
       systemVars, localeVars
  <2>2. CASE KeepNotification(t)
    BY <2>2, NextItemIsLocal DEF KeepNotification, Active, Calm, Late, systemVars,
       localeVars
  <2>. QED
    BY <1>4, <2>1, <2>2 DEF Publish
<1>5. CASE Cancel(t)
  <2>1. CASE FindNotification(t) /\ Name(t) \in mapped
    BY <1>1, <2>1 DEF FindNotification, Goto, Calm, Late, systemVars, localeVars
  <2>2. CASE FindNotification(t) /\ Name(t) \notin mapped
    <3>1. NextItem(t)
      BY <2>2 DEF FindNotification
    <3>. QED
      BY <2>2, <3>1, NextItemIsLocal DEF FindNotification, Active, Calm, Late,
         systemVars, localeVars
  <2>3. CASE CancelNotification(t)
    BY <1>1, <2>3 DEF CancelNotification, Goto, Calm, Late, systemVars, localeVars,
       threadVars
  <2>4. CASE EraseNotification(t)
    BY <2>4, NextItemIsLocal DEF EraseNotification, Active, Calm, Late, systemVars,
       localeVars
  <2>. QED
    BY <1>5, <2>1, <2>2, <2>3, <2>4 DEF Cancel
<1>. QED
  BY <1>2, <1>3, <1>4, <1>5

LEMMA CalmKeepsLocale ==
  ASSUME TypeOK, LocaleOK, NEW t \in Thread, Calm(t)
  PROVE  LocaleOK'
<1>1. pc'[t] \notin BusyLabel \cup {"update"} /\ pc[t] \notin BusyLabel
  BY DEF Calm, Late, BusyLabel, RebuildLabel
<1>2. LanguagesAreParsed'
  <2>1. \A x \in Thread : pc'[x] = "fill" <=> pc[x] = "fill"
    BY <1>1 DEF Calm, BusyLabel
  <2>2. (\E x \in Thread : pc'[x] = "fill") <=> (\E x \in Thread : pc[x] = "fill")
    BY <2>1
  <2>3. \A x \in Thread : pc'[x] \notin {"idle", "parse", "empty", "fill"}
          => pc[x] \notin {"idle", "parse", "empty", "fill"}
    BY DEF Calm, Late
  <2>. QED
    BY <2>2, <2>3 DEF LocaleOK, LanguagesAreParsed, Calm, localeVars
<1>3. BaseNameIsSet'
  <2>1. \A x \in Thread :
          pc'[x] \notin {"idle", "parse", "empty", "fill", "update", "store"}
            => pc[x] \notin {"idle", "parse", "empty", "fill", "update", "store"}
    BY DEF Calm, Late
  <2>2. \A x \in Thread : pc'[x] = "store" => pc[x] = "store"
    BY DEF Calm, Late
  <2>. QED
    BY <2>1, <2>2 DEF LocaleOK, BaseNameIsSet, Calm, localeVars
<1>4. StringsAreParsed'
  <2>1. \A x \in Thread : \A l \in BusyLabel :
          (pc'[x] = l <=> pc[x] = l) /\ (pc'[x] \in BusyLabel => pc'[x] = pc[x])
    BY <1>1 DEF Calm
  <2>2. \A x \in Thread : pc'[x] \in BusyLabel => pc[x] \in BusyLabel
    BY <2>1
  <2>3. \A x \in Thread : pc[x] \in RebuildLabel => pc'[x] \in RebuildLabel
    BY <2>1 DEF BusyLabel
  <2>4. UNCHANGED <<readable, languageMap, baseName, stringMap, torn, local, language>>
    BY DEF Calm, localeVars
  <2>5. /\ LanguageOf(baseName)' = LanguageOf(baseName)
        /\ FirstStringsOf(baseName)' = FirstStringsOf(baseName)
        /\ StringsOf(baseName)' = StringsOf(baseName)
    BY <2>4 DEF LanguageOf, FirstStringsOf, StringsOf, Listed, Insert
  <2>6. Listed' = Listed
    BY <2>4 DEF Listed
  <2>7. {"language", "clear", "resources", "resourcesExt"} \subseteq BusyLabel
    BY DEF BusyLabel, RebuildLabel
  <2>8. StringsAreParsed
    BY DEF LocaleOK
  <2>9. ASSUME ~torn PROVE
          /\ \A x \in Thread :
               /\ pc'[x] = "language" => local'[x] = baseName' /\ languageMap' = Listed'
               /\ pc'[x] \in {"clear", "resources", "resourcesExt"}
                    => language'[x] = LanguageOf(baseName)'
               /\ pc'[x] = "resources" => stringMap' = NoStrings
               /\ pc'[x] = "resourcesExt" => stringMap' = FirstStringsOf(baseName)'
          /\ (baseName' # None /\ \A x \in Thread : pc'[x] \notin RebuildLabel)
               => stringMap' = StringsOf(baseName)'
    BY <2>1, <2>3, <2>4, <2>5, <2>6, <2>7, <2>8, <2>9 DEF StringsAreParsed
  <2>10. ASSUME ~torn PROVE \A y, x \in Thread : {pc'[y], pc'[x]} \subseteq BusyLabel => y = x
    BY <2>2, <2>8, <2>10 DEF StringsAreParsed
  <2>. QED
    BY <2>4, <2>9, <2>10 DEF StringsAreParsed
<1>. QED
  BY <1>2, <1>3, <1>4 DEF LocaleOK

(***************************************************************************)
(* If the strings are not torn after a step of a thread that was at work   *)
(* on them, no other thread was, and what the step left is enough.         *)
(***************************************************************************)
LEMMA StringsOfOne ==
  ASSUME NEW t \in Thread,
         \A x \in Thread \ {t} : pc'[x] = pc[x],
         ~torn' => /\ \A x \in Thread \ {t} : pc[x] \notin BusyLabel
                   /\ pc'[t] = "language"
                        => local'[t] = baseName' /\ languageMap' = Listed'
                   /\ pc'[t] \in {"clear", "resources", "resourcesExt"}
                        => language'[t] = LanguageOf(baseName)'
                   /\ pc'[t] = "resources" => stringMap' = NoStrings
                   /\ pc'[t] = "resourcesExt" => stringMap' = FirstStringsOf(baseName)'
                   /\ (baseName' # None /\ pc'[t] \notin RebuildLabel)
                        => stringMap' = StringsOf(baseName)'
  PROVE  StringsAreParsed'
<1> SUFFICES ASSUME ~torn' PROVE
      /\ \A y, x \in Thread : {pc'[y], pc'[x]} \subseteq BusyLabel => y = x
      /\ \A x \in Thread :
           /\ pc'[x] = "language" => local'[x] = baseName' /\ languageMap' = Listed'
           /\ pc'[x] \in {"clear", "resources", "resourcesExt"}
                => language'[x] = LanguageOf(baseName)'
           /\ pc'[x] = "resources" => stringMap' = NoStrings
           /\ pc'[x] = "resourcesExt" => stringMap' = FirstStringsOf(baseName)'
      /\ (baseName' # None /\ \A x \in Thread : pc'[x] \notin RebuildLabel)
           => stringMap' = StringsOf(baseName)'
  BY DEF StringsAreParsed
<1>1. \A x \in Thread : x # t => pc'[x] \notin BusyLabel
  OBVIOUS
<1>2. {"language", "clear", "resources", "resourcesExt"} \subseteq BusyLabel
  BY DEF BusyLabel, RebuildLabel
<1>. QED
  BY <1>1, <1>2

(***************************************************************************)
(* While a thread is at work on strings that are not torn, no other is.    *)
(***************************************************************************)
LEMMA OneIsBusy ==
  ASSUME StringsAreParsed, ~torn, NEW t \in Thread, pc[t] \in BusyLabel
  PROVE  \A x \in Thread \ {t} : pc[x] \notin BusyLabel
BY DEF StringsAreParsed

LEMMA UndisturbedIsAlone ==
  ASSUME NEW t \in Thread, ~Disturbs(t)
  PROVE  \A x \in Thread \ {t} : pc[x] \notin BusyLabel
BY DEF Disturbs

LEMMA UpdateKeepsLanguages ==
  ASSUME TypeOK, LanguagesAreParsed, NEW t \in Thread, Update(t)
  PROVE  LanguagesAreParsed'
<1>1. pc \in [Thread -> Label]
  BY DEF TypeOK
<1>2. CASE ParseLocaleCfg(t)
  <2>1. \A x \in Thread : pc'[x] = "fill" <=> pc[x] = "fill"
    BY <1>1, <1>2 DEF ParseLocaleCfg, Goto
  <2>2. (\E x \in Thread : pc'[x] = "fill") <=> (\E x \in Thread : pc[x] = "fill")
    BY <2>1
  <2>3. UNCHANGED <<readable, languages, languageMap>>
    BY <1>2 DEF ParseLocaleCfg, systemVars
  <2>4. \A x \in Thread : pc'[x] \notin {"idle", "parse", "empty", "fill"}
          => languages \/ pc[x] \notin {"idle", "parse", "empty", "fill"}
    BY <1>1, <1>2 DEF ParseLocaleCfg, Goto
  <2>. QED
    BY <2>2, <2>3, <2>4 DEF LanguagesAreParsed
<1>3. CASE EmptyLanguageMap(t)
  <2>1. pc'[t] = "fill" /\ languageMap' = {} /\ UNCHANGED <<readable, languages>>
    BY <1>1, <1>3 DEF EmptyLanguageMap, Goto, systemVars
  <2>2. \A x \in Thread : pc'[x] \notin {"idle", "parse", "empty", "fill"}
          => pc[x] \notin {"idle", "parse", "empty", "fill"}
    BY <1>1, <1>3 DEF EmptyLanguageMap, Goto
  <2>. QED
    BY <2>1, <2>2 DEF LanguagesAreParsed
<1>4. CASE FillLanguageMap(t)
  <2>1. readable' = readable
    BY <1>4 DEF FillLanguageMap, systemVars
  <2>2. CASE LocalePath \in readable
    BY <1>4, <2>1, <2>2 DEF FillLanguageMap, LanguagesAreParsed
  <2>3. CASE LocalePath \notin readable
    BY <1>4, <2>1, <2>3 DEF FillLanguageMap, LanguagesAreParsed
  <2>. QED
    BY <2>2, <2>3
<1>5. CASE \/ CompareLocale(t) \/ StoreBaseName(t) \/ ChooseLanguage(t)
           \/ ClearStrings(t) \/ ParseStrings(t)
  <2>1. /\ pc[t] \notin {"idle", "parse", "empty", "fill"}
        /\ pc'[t] \notin {"idle", "parse", "empty", "fill"}
        /\ \A x \in Thread \ {t} : pc'[x] = pc[x]
    BY <1>1, <1>5 DEF CompareLocale, StoreBaseName, ChooseLanguage, ClearStrings, ParseStrings, Goto, File
  <2>2. UNCHANGED <<readable, languages, languageMap>>
    BY <1>5 DEF CompareLocale, StoreBaseName, ChooseLanguage, ClearStrings, ParseStrings, systemVars,
       localeVars
  <2>3. \A x \in Thread : pc'[x] = "fill" <=> pc[x] = "fill"
    BY <2>1
  <2>4. (\E x \in Thread : pc'[x] = "fill") <=> (\E x \in Thread : pc[x] = "fill")
    BY <2>3
  <2>. QED
    BY <2>1, <2>2, <2>4 DEF LanguagesAreParsed
<1>. QED
  BY <1>2, <1>3, <1>4, <1>5 DEF Update

LEMMA UpdateKeepsBaseName ==
  ASSUME TypeOK, BaseNameIsSet, NEW t \in Thread, Update(t)
  PROVE  BaseNameIsSet'
<1>1. pc \in [Thread -> Label] /\ systemLocale \in Locale
      /\ local \in [Thread -> Locale \cup {None}]
  BY DEF TypeOK
<1>2. CASE CompareLocale(t)
  <2>1. CASE baseName = systemLocale
    <3>1. /\ pc'[t] = "act" /\ baseName' = baseName /\ local' = local
          /\ \A x \in Thread \ {t} : pc'[x] = pc[x]
      BY <1>1, <1>2, <2>1 DEF CompareLocale, Goto
    <3>2. baseName # None
      BY <1>1, <2>1, NoneAssumption
    <3>. QED
      BY <3>1, <3>2 DEF BaseNameIsSet
  <2>2. CASE baseName # systemLocale
    <3>1. /\ pc'[t] = "store" /\ baseName' = baseName /\ local'[t] = systemLocale
          /\ \A x \in Thread \ {t} : pc'[x] = pc[x] /\ local'[x] = local[x]
      BY <1>1, <1>2, <2>2 DEF CompareLocale, Goto
    <3>2. local'[t] # None
      BY <1>1, <3>1, NoneAssumption
    <3>. QED
      BY <3>1, <3>2 DEF BaseNameIsSet
  <2>. QED
    BY <2>1, <2>2
<1>5. CASE StoreBaseName(t)
  <2>1. /\ pc[t] = "store" /\ baseName' = local[t] /\ local' = local
        /\ pc'[t] = "language" /\ \A x \in Thread \ {t} : pc'[x] = pc[x]
    BY <1>1, <1>5 DEF StoreBaseName, Goto, threadVars
  <2>2. baseName' # None
    BY <2>1 DEF BaseNameIsSet
  <2>. QED
    BY <2>1, <2>2 DEF BaseNameIsSet
<1>3. CASE ParseLocaleCfg(t) \/ EmptyLanguageMap(t) \/ FillLanguageMap(t)
  <2>1. /\ pc'[t] \in {"update", "empty", "fill"} /\ UNCHANGED <<baseName, local>>
        /\ \A x \in Thread \ {t} : pc'[x] = pc[x]
    BY <1>1, <1>3 DEF ParseLocaleCfg, EmptyLanguageMap, FillLanguageMap, Goto, threadVars
  <2>. QED
    BY <2>1 DEF BaseNameIsSet
<1>4. CASE ChooseLanguage(t) \/ ClearStrings(t) \/ ParseStrings(t)
  <2>1. /\ pc[t] \notin {"idle", "parse", "empty", "fill", "update", "store"}
        /\ pc'[t] # "store" /\ baseName' = baseName
        /\ \A x \in Thread \ {t} : pc'[x] = pc[x] /\ local'[x] = local[x]
    BY <1>1, <1>4 DEF ChooseLanguage, ClearStrings, ParseStrings, Goto, File, localeVars,
       threadVars
  <2>. QED
    BY <2>1 DEF BaseNameIsSet
<1>. QED
  BY <1>2, <1>3, <1>4, <1>5 DEF Update

LEMMA UpdateKeepsStrings ==
  ASSUME TypeOK, LocaleOK, NEW t \in Thread, Update(t)
  PROVE  StringsAreParsed'
<1>1. pc \in [Thread -> Label] /\ local \in [Thread -> Locale \cup {None}]
      /\ language \in [Thread -> Language] /\ stringMap \in [Key -> Text]
      /\ StringsAreParsed /\ LanguagesAreParsed /\ BaseNameIsSet
  BY DEF TypeOK, LocaleOK
<1>a. readable' = readable
  BY DEF Update, ParseLocaleCfg, EmptyLanguageMap, FillLanguageMap, CompareLocale, StoreBaseName,
     ChooseLanguage, ClearStrings, ParseStrings, systemVars
<1>b. Listed' = Listed
  BY <1>a DEF Listed
<1>c. baseName' = baseName =>
        /\ LanguageOf(baseName)' = LanguageOf(baseName)
        /\ FirstStringsOf(baseName)' = FirstStringsOf(baseName)
        /\ StringsOf(baseName)' = StringsOf(baseName)
  BY <1>a DEF LanguageOf, FirstStringsOf, StringsOf, Listed, Insert
<1>2. CASE ParseLocaleCfg(t)
  <2>0. /\ UNCHANGED <<languageMap, baseName, stringMap, local, language>>
        /\ pc[t] = "parse" /\ \A x \in Thread \ {t} : pc'[x] = pc[x]
    BY <1>1, <1>2 DEF ParseLocaleCfg, Goto, threadVars
  <2>1. CASE languages
    <3>1. pc'[t] = "update" /\ torn' = torn
      BY <1>1, <1>2, <2>1 DEF ParseLocaleCfg, Goto
    <3>2. \A x \in Thread : pc'[x] \in BusyLabel => pc'[x] = pc[x]
      BY <2>0, <3>1 DEF BusyLabel, RebuildLabel
    <3>3. \A x \in Thread : pc[x] \in BusyLabel => pc'[x] = pc[x]
      BY <2>0 DEF BusyLabel, RebuildLabel
    <3>4. {"language", "clear", "resources", "resourcesExt"} \subseteq RebuildLabel
          /\ RebuildLabel \subseteq BusyLabel
      BY DEF BusyLabel, RebuildLabel
    <3>5. ASSUME ~torn PROVE \A y, x \in Thread : {pc'[y], pc'[x]} \subseteq BusyLabel => y = x
      <4>1. \A x \in Thread : pc'[x] \in BusyLabel => pc[x] \in BusyLabel
        BY <3>2
      <4>. QED
        BY <1>1, <3>5, <4>1 DEF StringsAreParsed
    <3>6. ASSUME ~torn, NEW x \in Thread PROVE
            /\ pc'[x] = "language" => local'[x] = baseName' /\ languageMap' = Listed'
            /\ pc'[x] \in {"clear", "resources", "resourcesExt"}
                 => language'[x] = LanguageOf(baseName)'
            /\ pc'[x] = "resources" => stringMap' = NoStrings
            /\ pc'[x] = "resourcesExt" => stringMap' = FirstStringsOf(baseName)'
      BY <1>1, <1>b, <1>c, <2>0, <3>2, <3>4, <3>6 DEF StringsAreParsed
    <3>7. ASSUME ~torn, baseName # None, \A x \in Thread : pc'[x] \notin RebuildLabel
          PROVE  stringMap' = StringsOf(baseName)'
      <4>1. \A x \in Thread : pc[x] \notin RebuildLabel
        BY <3>3, <3>4, <3>7
      <4>. QED
        BY <1>1, <1>c, <2>0, <3>7, <4>1 DEF StringsAreParsed
    <3>. QED
      BY <2>0, <3>1, <3>5, <3>6, <3>7 DEF StringsAreParsed
  <2>2. CASE ~languages
    <3>1. pc'[t] = "empty" /\ torn' = (torn \/ Disturbs(t))
      BY <1>1, <1>2, <2>2 DEF ParseLocaleCfg, Goto
    <3>2. ASSUME ~torn' PROVE
            /\ \A x \in Thread \ {t} : pc[x] \notin BusyLabel
            /\ baseName' # None => stringMap' = StringsOf(baseName)'
      <4>1. ~torn /\ \A x \in Thread \ {t} : pc[x] \notin BusyLabel
        BY <3>1, <3>2, UndisturbedIsAlone
      <4>2. \A x \in Thread : pc[x] \notin RebuildLabel
        BY <2>0, <4>1 DEF BusyLabel, RebuildLabel
      <4>. QED
        BY <1>1, <1>c, <2>0, <4>1, <4>2 DEF StringsAreParsed
    <3>. QED
      BY <2>0, <3>1, <3>2, StringsOfOne DEF RebuildLabel
  <2>. QED
    BY <2>1, <2>2
<1>3. CASE EmptyLanguageMap(t) \/ FillLanguageMap(t)
  <2>1. /\ UNCHANGED <<baseName, stringMap, torn>> /\ pc[t] \in {"empty", "fill"}
        /\ pc'[t] \in {"fill", "update"} /\ \A x \in Thread \ {t} : pc'[x] = pc[x]
    BY <1>1, <1>3 DEF EmptyLanguageMap, FillLanguageMap, Goto
  <2>2. ASSUME ~torn' PROVE
          /\ \A x \in Thread \ {t} : pc[x] \notin BusyLabel
          /\ baseName' # None => stringMap' = StringsOf(baseName)'
    <3>1. \A x \in Thread \ {t} : pc[x] \notin BusyLabel
      BY <1>1, <2>1, <2>2, OneIsBusy DEF BusyLabel
    <3>2. \A x \in Thread : pc[x] \notin RebuildLabel
      BY <2>1, <3>1 DEF BusyLabel, RebuildLabel
    <3>. QED
      BY <1>1, <1>c, <2>1, <2>2, <3>1, <3>2 DEF StringsAreParsed
  <2>. QED
    BY <2>1, <2>2, StringsOfOne DEF RebuildLabel
<1>4. CASE CompareLocale(t) /\ baseName # systemLocale
  <2>1. /\ pc'[t] = "store" /\ torn' = Disturbs(t)
        /\ \A x \in Thread \ {t} : pc'[x] = pc[x]
    BY <1>1, <1>4 DEF CompareLocale, Goto
  <2>2. ASSUME ~torn' PROVE \A x \in Thread \ {t} : pc[x] \notin BusyLabel
    BY <2>1, <2>2, UndisturbedIsAlone
  <2>. QED
    BY <2>1, <2>2, StringsOfOne DEF RebuildLabel
<1>11. CASE StoreBaseName(t)
  <2>1. /\ pc[t] = "store" /\ pc'[t] = "language" /\ UNCHANGED <<torn, local, languageMap>>
        /\ baseName' = local[t] /\ \A x \in Thread \ {t} : pc'[x] = pc[x]
    BY <1>1, <1>11 DEF StoreBaseName, Goto, threadVars
  <2>2. ASSUME ~torn' PROVE
          /\ \A x \in Thread \ {t} : pc[x] \notin BusyLabel
          /\ languageMap' = Listed'
    <3>1. \A x \in Thread \ {t} : pc[x] \notin BusyLabel
      BY <1>1, <2>1, <2>2, OneIsBusy DEF BusyLabel, RebuildLabel
    <3>2. \A x \in Thread : pc[x] # "fill"
      BY <2>1, <3>1 DEF BusyLabel
    <3>3. languageMap = Listed
      BY <1>1, <2>1, <3>2 DEF LanguagesAreParsed, Listed
    <3>. QED
      BY <1>b, <2>1, <3>1, <3>3
  <2>. QED
    BY <2>1, <2>2, StringsOfOne DEF RebuildLabel
<1>5. CASE CompareLocale(t) /\ baseName = systemLocale
  <2>0. /\ UNCHANGED <<languageMap, baseName, stringMap, local, language, torn>>
        /\ pc[t] = "update" /\ pc'[t] = "act" /\ \A x \in Thread \ {t} : pc'[x] = pc[x]
    BY <1>1, <1>5 DEF CompareLocale, Goto
  <2>1. \A x \in Thread : (pc[x] \in BusyLabel \/ pc'[x] \in BusyLabel) => pc'[x] = pc[x]
    BY <2>0 DEF BusyLabel, RebuildLabel
  <2>2. {"language", "clear", "resources", "resourcesExt"} \subseteq RebuildLabel
        /\ RebuildLabel \subseteq BusyLabel
    BY DEF BusyLabel, RebuildLabel
  <2>3. ASSUME ~torn PROVE \A y, x \in Thread : {pc'[y], pc'[x]} \subseteq BusyLabel => y = x
    <3>1. \A x \in Thread : pc'[x] \in BusyLabel => pc[x] \in BusyLabel
      BY <2>1
    <3>. QED
      BY <1>1, <2>3, <3>1 DEF StringsAreParsed
  <2>4. ASSUME ~torn, NEW x \in Thread PROVE
          /\ pc'[x] = "language" => local'[x] = baseName' /\ languageMap' = Listed'
          /\ pc'[x] \in {"clear", "resources", "resourcesExt"}
               => language'[x] = LanguageOf(baseName)'
          /\ pc'[x] = "resources" => stringMap' = NoStrings
          /\ pc'[x] = "resourcesExt" => stringMap' = FirstStringsOf(baseName)'
    BY <1>1, <1>b, <1>c, <2>0, <2>1, <2>2, <2>4 DEF StringsAreParsed
  <2>5. ASSUME ~torn, baseName # None, \A x \in Thread : pc'[x] \notin RebuildLabel
        PROVE  stringMap' = StringsOf(baseName)'
    <3>1. \A x \in Thread : pc[x] \notin RebuildLabel
      BY <2>1, <2>2, <2>5
    <3>. QED
      BY <1>1, <1>c, <2>0, <2>5, <3>1 DEF StringsAreParsed
  <2>. QED
    BY <2>0, <2>3, <2>4, <2>5 DEF StringsAreParsed
<1>6. CASE ChooseLanguage(t)
  <2>1. /\ UNCHANGED <<languageMap, baseName, stringMap, torn>>
        /\ pc[t] = "language" /\ pc'[t] = "clear" /\ \A x \in Thread \ {t} : pc'[x] = pc[x]
        /\ language'[t] = LanguageFor(baseName, local[t], languageMap)
    BY <1>1, <1>6 DEF ChooseLanguage, Goto, localeVars
  <2>2. ASSUME ~torn' PROVE
          /\ \A x \in Thread \ {t} : pc[x] \notin BusyLabel
          /\ language'[t] = LanguageOf(baseName)'
    <3>1. \A x \in Thread \ {t} : pc[x] \notin BusyLabel
      BY <1>1, <2>1, <2>2, OneIsBusy DEF BusyLabel, RebuildLabel
    <3>2. local[t] = baseName /\ languageMap = Listed
      BY <1>1, <2>1, <2>2 DEF StringsAreParsed
    <3>. QED
      BY <1>c, <2>1, <3>1, <3>2 DEF LanguageOf
  <2>. QED
    BY <2>1, <2>2, StringsOfOne DEF RebuildLabel
<1>7. CASE ClearStrings(t)
  <2>1. /\ UNCHANGED <<baseName, torn, language>> /\ stringMap' = NoStrings
        /\ pc[t] = "clear" /\ pc'[t] = "resources"
        /\ \A x \in Thread \ {t} : pc'[x] = pc[x]
    BY <1>1, <1>7 DEF ClearStrings, Goto, threadVars
  <2>2. ASSUME ~torn' PROVE
          /\ \A x \in Thread \ {t} : pc[x] \notin BusyLabel
          /\ language'[t] = LanguageOf(baseName)'
    BY <1>1, <1>c, <2>1, <2>2, OneIsBusy DEF BusyLabel, RebuildLabel, StringsAreParsed
  <2>. QED
    BY <2>1, <2>2, StringsOfOne DEF RebuildLabel
<1>8. CASE ParseStrings(t) /\ pc[t] = "resources"
  <2>1. /\ UNCHANGED <<baseName, torn, language>> /\ pc'[t] = "resourcesExt"
        /\ stringMap' = Insert(stringMap, language[t], "resources")
        /\ \A x \in Thread \ {t} : pc'[x] = pc[x]
    BY <1>1, <1>8 DEF ParseStrings, Goto
  <2>2. ASSUME ~torn' PROVE
          /\ \A x \in Thread \ {t} : pc[x] \notin BusyLabel
          /\ language'[t] = LanguageOf(baseName)'
          /\ stringMap' = FirstStringsOf(baseName)'
    <3>1. \A x \in Thread \ {t} : pc[x] \notin BusyLabel
      BY <1>1, <1>8, <2>1, <2>2, OneIsBusy DEF BusyLabel, RebuildLabel
    <3>2. language[t] = LanguageOf(baseName) /\ stringMap = NoStrings
      BY <1>1, <1>8, <2>1, <2>2 DEF StringsAreParsed
    <3>. QED
      BY <1>c, <2>1, <3>1, <3>2 DEF FirstStringsOf
  <2>. QED
    BY <2>1, <2>2, StringsOfOne DEF RebuildLabel
<1>9. CASE ParseStrings(t) /\ pc[t] = "resourcesExt"
  <2>1. /\ UNCHANGED <<baseName, torn>> /\ pc'[t] = "act"
        /\ stringMap' = Insert(stringMap, language[t], "resourcesExt")
        /\ \A x \in Thread \ {t} : pc'[x] = pc[x]
    BY <1>1, <1>9 DEF ParseStrings, Goto
  <2>2. ASSUME ~torn' PROVE
          /\ \A x \in Thread \ {t} : pc[x] \notin BusyLabel
          /\ stringMap' = StringsOf(baseName)'
    <3>1. \A x \in Thread \ {t} : pc[x] \notin BusyLabel
      BY <1>1, <1>9, <2>1, <2>2, OneIsBusy DEF BusyLabel, RebuildLabel
    <3>2. language[t] = LanguageOf(baseName) /\ stringMap = FirstStringsOf(baseName)
      BY <1>1, <1>9, <2>1, <2>2 DEF StringsAreParsed
    <3>. QED
      BY <1>c, <2>1, <3>1, <3>2 DEF StringsOf
  <2>. QED
    BY <2>1, <2>2, StringsOfOne DEF RebuildLabel
<1>10. ParseStrings(t) => pc[t] \in {"resources", "resourcesExt"}
  BY DEF ParseStrings, File
<1>. QED
  BY <1>2, <1>3, <1>4, <1>5, <1>6, <1>7, <1>8, <1>9, <1>10, <1>11 DEF Update

LEMMA LocaleNext == TypeOK /\ ItemsAreKnown /\ LocaleOK /\ [Next]_vars => LocaleOK'
<1> SUFFICES ASSUME TypeOK, ItemsAreKnown, LocaleOK, [Next]_vars PROVE LocaleOK'
  OBVIOUS
<1>1. ASSUME NEW t \in Thread, NEW u \in DOMAIN PopupConfig, HandleNotification(t, u)
      PROVE  LocaleOK'
  BY <1>1, CalmSteps, CalmKeepsLocale
<1>2. ASSUME NEW t \in Thread, Update(t) PROVE LocaleOK'
  BY <1>2, UpdateKeepsLanguages, UpdateKeepsBaseName, UpdateKeepsStrings DEF LocaleOK
<1>3. ASSUME NEW t \in Thread, SkipItem(t) \/ Publish(t) \/ Cancel(t) PROVE LocaleOK'
  BY <1>3, CalmSteps, CalmKeepsLocale
<1>4. CASE ChangeLocale \/ (\E p \in Popup : Swipe(p)) \/ UNCHANGED vars
  <2>1. UNCHANGED <<readable, localeVars, pc, local, language>>
    BY <1>4 DEF ChangeLocale, Swipe, vars, systemVars, threadVars
  <2>. QED
    BY <2>1 DEF LocaleOK, LanguagesAreParsed, BaseNameIsSet, StringsAreParsed,
       localeVars, LanguageOf, FirstStringsOf, StringsOf, Listed, Insert
<1>. QED
  BY <1>1, <1>2, <1>3, <1>4 DEF Next

-----------------------------------------------------------------------------
(***************************************************************************)
(* A step of a thread leaves the items of the others alone.                *)
(***************************************************************************)
Local(t) ==
  \A x \in Thread \ {t} :
    /\ pc'[x] = pc[x] /\ next'[x] = next[x]
    /\ Active(x) => uevent'[x] = uevent[x]

LEMMA StepsAreLocal ==
  ASSUME TypeOK, ItemsAreKnown, NEW t \in Thread,
         \/ \E u \in DOMAIN PopupConfig : HandleNotification(t, u)
         \/ Update(t) \/ SkipItem(t) \/ Publish(t) \/ Cancel(t)
  PROVE  Local(t)
<1>1. pc \in [Thread -> Label] /\ next \in [Thread -> Nat]
      /\ uevent \in [Thread -> DOMAIN PopupConfig \cup {None}]
  BY DEF TypeOK
<1>2. CASE \E u \in DOMAIN PopupConfig : HandleNotification(t, u)
  BY <1>1, <1>2 DEF HandleNotification, Goto, Local
<1>3. CASE Update(t)
  BY <1>1, <1>3 DEF Update, ParseLocaleCfg, EmptyLanguageMap, FillLanguageMap,
     CompareLocale, StoreBaseName, ChooseLanguage, ClearStrings, ParseStrings, Goto, Local, threadVars
<1>4. CASE SkipItem(t) \/ KeepNotification(t) \/ EraseNotification(t)
  <2>1. Active(t) /\ NextItem(t)
    BY <1>4 DEF SkipItem, KeepNotification, EraseNotification, Active
  <2>. QED
    BY <2>1, NextItemIsLocal DEF Local
<1>5. CASE \/ FillText(t) \/ FillPower(t) \/ FillButtons(t)
           \/ PublishNotification(t) \/ CancelNotification(t)
  BY <1>1, <1>5 DEF FillText, FillPower, FillButtons, PublishNotification, CancelNotification,
     Goto, Local, threadVars
<1>6. CASE FindNotification(t)
  <2>1. CASE Name(t) \in mapped
    BY <1>1, <1>6, <2>1 DEF FindNotification, Goto, Local
  <2>2. CASE Name(t) \notin mapped
    <3>1. Active(t) /\ NextItem(t)
      BY <1>6, <2>2 DEF FindNotification, Active
    <3>. QED
      BY <3>1, NextItemIsLocal DEF Local
  <2>. QED
    BY <2>1, <2>2
<1>. QED
  BY <1>2, <1>3, <1>4, <1>5, <1>6 DEF Publish, Cancel

LEMMA ItemsOfOne ==
  ASSUME ItemsAreKnown, NEW t \in Thread, Local(t),
         pc'[t] # "idle" => /\ uevent'[t] \in DOMAIN PopupConfig
                            /\ next'[t] \in DOMAIN Items(uevent'[t]),
         pc'[t] \in {"config", "buttons", "publish", "keep"} => Publishes(t)',
         pc'[t] \in {"cancel", "erase"} => Item(t)'.action = 1
  PROVE  ItemsAreKnown'
<1> SUFFICES ASSUME NEW x \in Thread
             PROVE  /\ pc'[x] # "idle" => /\ uevent'[x] \in DOMAIN PopupConfig
                                          /\ next'[x] \in DOMAIN Items(uevent'[x])
                    /\ pc'[x] \in {"config", "buttons", "publish", "keep"} => Publishes(x)'
                    /\ pc'[x] \in {"cancel", "erase"} => Item(x)'.action = 1
  BY DEF ItemsAreKnown, Active
<1>1. CASE x = t
  BY <1>1
<1>2. CASE x # t
  <2>1. Active(x) => UNCHANGED <<uevent[x], next[x]>> /\ pc'[x] = pc[x]
    BY <1>2 DEF Local
  <2>2. Active(x) => Publishes(x)' = Publishes(x) /\ Item(x)' = Item(x)
    BY <2>1 DEF Publishes, Item, Name
  <2>. QED
    BY <1>2, <2>1, <2>2 DEF Local, ItemsAreKnown, Active
<1>. QED
  BY <1>1, <1>2

LEMMA ItemsNext == TypeOK /\ ItemsAreKnown /\ [Next]_vars => ItemsAreKnown'
<1> SUFFICES ASSUME TypeOK, ItemsAreKnown, [Next]_vars PROVE ItemsAreKnown'
  OBVIOUS
<1>a. pc \in [Thread -> Label] /\ next \in [Thread -> Nat]
      /\ uevent \in [Thread -> DOMAIN PopupConfig \cup {None}]
  BY DEF TypeOK
<1>1. ASSUME NEW t \in Thread, NEW u \in DOMAIN PopupConfig, HandleNotification(t, u)
      PROVE  ItemsAreKnown'
  <2>1. pc'[t] = "parse" /\ uevent'[t] = u /\ next'[t] = 1
    BY <1>a, <1>1 DEF HandleNotification, Goto
  <2>2. 1 \in DOMAIN Items(u)
    <3>1. Items(u) \in Seq([name : Popup, action : Nat, valid : BOOLEAN])
      BY ConfigAssumption
    <3>2. \A S : \A q \in Seq(S) : Len(q) > 0 => 1 \in DOMAIN q
      OBVIOUS
    <3>. QED
      BY <1>1, <3>1, <3>2 DEF HandleNotification
  <2>. QED
    BY <1>1, <2>1, <2>2, StepsAreLocal, ItemsOfOne
<1>2. ASSUME NEW t \in Thread, Active(t), NextItem(t), Local(t) PROVE ItemsAreKnown'
  <2>1. /\ pc'[t] \in {"parse", "idle"}
        /\ pc'[t] # "idle" => /\ uevent'[t] \in DOMAIN PopupConfig
                              /\ next'[t] \in DOMAIN Items(uevent'[t])
    BY <1>2, NextItemIsLocal
  <2>2. pc'[t] \notin {"config", "buttons", "publish", "keep", "cancel", "erase"}
    BY <2>1
  <2>. QED
    BY <1>2, <2>1, <2>2, ItemsOfOne
<1>3. ASSUME NEW t \in Thread, Active(t), UNCHANGED <<uevent, next>>, Local(t),
             pc'[t] \in {"config", "buttons", "publish", "keep"} => Publishes(t),
             pc'[t] \in {"cancel", "erase"} => Item(t).action = 1
      PROVE  ItemsAreKnown'
  <2>1. Publishes(t)' = Publishes(t) /\ Item(t)' = Item(t)
    BY <1>3 DEF Publishes, Item, Name
  <2>2. uevent[t] \in DOMAIN PopupConfig /\ next[t] \in DOMAIN Items(uevent[t])
    BY <1>3 DEF ItemsAreKnown
  <2>. QED
    BY <1>3, <2>1, <2>2, ItemsOfOne
<1>4. ASSUME NEW t \in Thread, Update(t) PROVE ItemsAreKnown'
  <2>1. Active(t) /\ UNCHANGED <<uevent, next>>
        /\ pc'[t] \notin {"config", "buttons", "publish", "keep", "cancel", "erase"}
    BY <1>a, <1>4 DEF Update, ParseLocaleCfg, EmptyLanguageMap, FillLanguageMap,
       CompareLocale, StoreBaseName, ChooseLanguage, ClearStrings, ParseStrings, Goto, File, Active,
       threadVars
  <2>. QED
    BY <1>3, <1>4, <2>1, StepsAreLocal
<1>5. ASSUME NEW t \in Thread,
             SkipItem(t) \/ KeepNotification(t) \/ EraseNotification(t)
      PROVE  ItemsAreKnown'
  <2>1. Active(t) /\ NextItem(t)
    BY <1>5 DEF SkipItem, KeepNotification, EraseNotification, Active
  <2>. QED
    BY <1>2, <1>5, <2>1, StepsAreLocal DEF Publish, Cancel
<1>6. ASSUME NEW t \in Thread,
             \/ FillText(t) \/ FillPower(t) \/ FillButtons(t)
             \/ PublishNotification(t) \/ CancelNotification(t)
      PROVE  ItemsAreKnown'
  <2>1. Active(t) /\ UNCHANGED <<uevent, next>>
    BY <1>6 DEF FillText, FillPower, FillButtons, PublishNotification, CancelNotification, Active,
       threadVars
  <2>2. /\ pc'[t] \in {"config", "buttons", "publish", "keep"} => Publishes(t)
        /\ pc'[t] \in {"cancel", "erase"} => Item(t).action = 1
    BY <1>a, <1>6 DEF FillText, FillPower, FillButtons, PublishNotification, CancelNotification, Goto,
       ItemsAreKnown
  <2>. QED
    BY <1>3, <1>6, <2>1, <2>2, StepsAreLocal DEF Publish, Cancel
<1>7. ASSUME NEW t \in Thread, FindNotification(t) PROVE ItemsAreKnown'
  <2>1. CASE Name(t) \in mapped
    <3>1. /\ Active(t) /\ UNCHANGED <<uevent, next>> /\ pc'[t] = "cancel"
          /\ Item(t).action = 1
      BY <1>a, <1>7, <2>1 DEF FindNotification, Active, Goto
    <3>. QED
      BY <1>3, <1>7, <3>1, StepsAreLocal DEF Cancel
  <2>2. CASE Name(t) \notin mapped
    <3>1. Active(t) /\ NextItem(t)
      BY <1>7, <2>2 DEF FindNotification, Active
    <3>. QED
      BY <1>2, <1>7, <3>1, StepsAreLocal DEF Cancel
  <2>. QED
    BY <2>1, <2>2
<1>8. CASE ChangeLocale \/ (\E p \in Popup : Swipe(p)) \/ UNCHANGED vars
  <2>1. UNCHANGED <<pc, uevent, next>>
    BY <1>8 DEF ChangeLocale, Swipe, vars, threadVars
  <2>. QED
    BY <2>1 DEF ItemsAreKnown, Active, Publishes, Item, Name
<1>. QED
  BY <1>1, <1>4, <1>5, <1>6, <1>7, <1>8 DEF Next, Publish, Cancel

-----------------------------------------------------------------------------
(***************************************************************************)
(* The map and the panel.  A step that leaves them, and the object of its  *)
(* thread, as they are keeps what is known about them, if it neither       *)
(* enters nor leaves one of the steps that do change them.                 *)
(***************************************************************************)
MapOK == OneCancels /\ ShownIsOwned /\ CancelledIsGone

LEMMA NamesStay ==
  ASSUME NEW t \in Thread, Local(t)
  PROVE  \A x \in Thread \ {t} : Active(x) => Name(x)' = Name(x)
BY DEF Local, Name, Item

LEMMA KeeperKeeps ==
  ASSUME NEW t \in Thread, Local(t), NEW x \in Thread \ {t}, NEW p,
         pc[x] = "keep", Name(x) = p, Serves(object[x], p),
         panel'[p] \subseteq panel[p], object'[x] = object[x]
  PROVE  Keeping(p)'
<1>1. Name(x)' = p /\ pc'[x] = "keep"
  BY NamesStay DEF Local, Active
<1>. QED
  BY <1>1 DEF Keeping, Serves

LEMMA OthersKeep ==
  ASSUME NEW t \in Thread, Local(t), NEW p, Keeping(p),
         pc[t] # "keep" \/ Name(t) # p,
         panel'[p] \subseteq panel[p], \A x \in Thread \ {t} : object'[x] = object[x]
  PROVE  Keeping(p)'
<1>1. PICK x \in Thread : pc[x] = "keep" /\ Name(x) = p /\ Serves(object[x], p)
  BY DEF Keeping
<1>2. x \in Thread \ {t}
  BY <1>1
<1>. QED
  BY <1>1, <1>2, KeeperKeeps

Quiet(t) ==
  /\ Local(t)
  /\ pc[t] \notin {"keep", "cancel", "erase"}
  /\ pc'[t] \notin {"keep", "cancel", "erase"}
  /\ UNCHANGED <<mapVars, panelVars, object>>

LEMMA QuietKeepsMap ==
  ASSUME MapOK, NEW t \in Thread, Quiet(t)
  PROVE  MapOK'
<1>1. UNCHANGED <<mapMutex, mapped, kept, replaced, panel, status, refused, object>>
  BY DEF Quiet, mapVars, panelVars
<1>2. \A x \in Thread : pc'[x] \in {"keep", "cancel", "erase"} \/ pc[x] \in {"keep", "cancel", "erase"}
        => pc'[x] = pc[x] /\ Name(x)' = Name(x)
  BY NamesStay DEF Quiet, Local, Active
<1>3. OneCancels'
  BY <1>1, <1>2 DEF MapOK, OneCancels
<1>4. \A p : Keeping(p) => Keeping(p)'
  BY <1>1, OthersKeep DEF Quiet
<1>5. ShownIsOwned'
  BY <1>1, <1>4 DEF MapOK, ShownIsOwned, Serves
<1>6. CancelledIsGone'
  <2>1. ASSUME NEW x \in Thread, pc'[x] = "erase", status'[Name(x)'] = "shown"
        PROVE  Keeping(Name(x))' \/ Name(x)' \in refused'
    <3>1. pc[x] = "erase" /\ Name(x)' = Name(x)
      BY <1>2, <2>1
    <3>2. Keeping(Name(x)) \/ Name(x) \in refused
      BY <1>1, <2>1, <3>1 DEF MapOK, CancelledIsGone
    <3>3. CASE Keeping(Name(x))
      <4>1. PICK y \in Thread :
              pc[y] = "keep" /\ Name(y) = Name(x) /\ Serves(object[y], Name(x))
        BY <3>3 DEF Keeping
      <4>2. pc'[y] = "keep" /\ Name(y)' = Name(x)' /\ Serves(object[y], Name(x))'
        BY <1>1, <1>2, <3>1, <4>1 DEF Serves
      <4>. QED
        BY <4>2 DEF Keeping
    <3>. QED
      BY <1>1, <3>1, <3>2, <3>3
  <2>. QED
    BY <2>1 DEF CancelledIsGone
<1>. QED
  BY <1>3, <1>5, <1>6 DEF MapOK

(***************************************************************************)
(* A thread that waits to erase is told of by Keeping, also after a step   *)
(* of another thread that does not keep, nor changes the panel.            *)
(***************************************************************************)
LEMMA GoneStaysGone ==
  ASSUME CancelledIsGone, NEW t \in Thread, Local(t), pc[t] # "keep",
         NEW x \in Thread \ {t}, pc[x] = "erase",
         status'[Name(x)] = "shown" => status[Name(x)] = "shown",
         Name(x) \in refused => Name(x) \in refused',
         panel'[Name(x)] = panel[Name(x)],
         \A y \in Thread \ {t} : object'[y] = object[y],
         status'[Name(x)'] = "shown"
  PROVE  Keeping(Name(x))' \/ Name(x)' \in refused'
<1>1. Name(x)' = Name(x)
  BY NamesStay DEF Active
<1>2. Keeping(Name(x)) \/ Name(x) \in refused
  BY <1>1 DEF CancelledIsGone
<1>3. CASE Keeping(Name(x))
  <2>1. PICK y \in Thread :
          pc[y] = "keep" /\ Name(y) = Name(x) /\ Serves(object[y], Name(x))
    BY <1>3 DEF Keeping
  <2>2. pc'[y] = "keep" /\ Name(y)' = Name(x)' /\ Serves(object[y], Name(x))'
    BY <1>1, <2>1, NamesStay DEF Local, Active, Serves
  <2>. QED
    BY <2>2 DEF Keeping
<1>. QED
  BY <1>1, <1>2, <1>3

(***************************************************************************)
(* The object about to be kept serves the buttons just published.          *)
(***************************************************************************)
LEMMA PublishKeepsMap ==
  ASSUME TypeOK, ItemsAreKnown, MapOK, NEW t \in Thread, PublishNotification(t)
  PROVE  MapOK'
<1>1. Local(t)
  BY StepsAreLocal DEF Publish
<1>2. pc[t] = "publish" /\ pc'[t] = "keep" /\ UNCHANGED <<mapMutex, mapped, kept, replaced>>
  BY DEF TypeOK, PublishNotification, Goto, mapVars
<1>3. Name(t)' = Name(t)
  BY DEF PublishNotification, Name, Item
<1>4. Name(t) \in Popup
  BY <1>2, ItemIsTyped DEF Active
<1>5. /\ \A p \in Popup : p # Name(t) =>
           /\ status'[p] = status[p] /\ panel'[p] = panel[p]
           /\ p \in refused => p \in refused'
      /\ Name(t) \notin refused' => panel'[Name(t)] = content[t].buttons
  BY <1>4 DEF PublishNotification, TypeOK
<1>6. PICK failed \in SUBSET (content[t].buttons \cap ReverseSuperCharge) :
        object' = [object EXCEPT ![t] = CreateButtons(content[t], failed)]
  BY DEF PublishNotification
<1>7. /\ object'[t] = CreateButtons(content[t], failed)
      /\ \A x \in Thread \ {t} : object'[x] = object[x]
  BY <1>6 DEF TypeOK
<1>8. Name(t) \notin refused' => Serves(object[t], Name(t))'
  BY <1>3, <1>5, <1>7 DEF Serves, CreateButtons
<1>9. Name(t)' \notin refused' => Keeping(Name(t))'
  BY <1>2, <1>3, <1>8 DEF Keeping
<1>10. \A p \in Popup : p # Name(t) /\ Keeping(p) => Keeping(p)'
  BY <1>1, <1>2, <1>5, <1>7, OthersKeep
<1>11. OneCancels'
  <2>1. \A x \in Thread : pc'[x] \in {"cancel", "erase"} <=> pc[x] \in {"cancel", "erase"}
    BY <1>1, <1>2 DEF Local
  <2>2. \A x \in Thread : pc[x] \in {"cancel", "erase"} => Name(x)' = Name(x)
    BY <1>1, <1>2, NamesStay DEF Active
  <2>. QED
    BY <1>2, <2>1, <2>2 DEF MapOK, OneCancels
<1>12. ShownIsOwned'
  <2>1. ASSUME NEW p \in Popup, status'[p] = "shown", ~(Keeping(p)'), p \notin refused'
        PROVE  p \in mapped' /\ (p \in replaced' \/ Serves(kept[p], p)')
    <3>1. p # Name(t)
      BY <1>3, <1>9, <2>1
    <3>2. status[p] = "shown" /\ panel'[p] = panel[p] /\ p \notin refused /\ ~Keeping(p)
      BY <1>5, <1>10, <2>1, <3>1
    <3>3. p \in mapped /\ (p \in replaced \/ Serves(kept[p], p))
      BY <3>2 DEF MapOK, ShownIsOwned
    <3>. QED
      BY <1>2, <3>2, <3>3 DEF Serves
  <2>. QED
    BY <2>1 DEF ShownIsOwned
<1>13. CancelledIsGone'
  <2>1. ASSUME NEW x \in Thread, pc'[x] = "erase", status'[Name(x)'] = "shown"
        PROVE  Keeping(Name(x))' \/ Name(x)' \in refused'
    <3>1. x # t /\ pc[x] = "erase"
      BY <1>1, <1>2, <2>1 DEF Local
    <3>2. Name(x)' = Name(x) /\ Name(x) \in Popup
      BY <1>1, <3>1, NamesStay, ItemIsTyped DEF Active
    <3>3. CASE Name(x) = Name(t)
      <4>1. Name(x)' = Name(t)'
        BY <1>3, <3>2, <3>3
      <4>. QED
        BY <1>9, <4>1 DEF Keeping, Serves
    <3>4. CASE Name(x) # Name(t)
      <4>1. /\ status'[Name(x)] = "shown" => status[Name(x)] = "shown"
            /\ Name(x) \in refused => Name(x) \in refused'
            /\ panel'[Name(x)] = panel[Name(x)]
        BY <1>5, <3>2, <3>4
      <4>2. CancelledIsGone /\ pc[t] # "keep" /\ x \in Thread \ {t}
        BY <1>2, <3>1 DEF MapOK
      <4>. QED
        BY <1>1, <1>7, <2>1, <3>1, <4>1, <4>2, GoneStaysGone
    <3>. QED
      BY <3>3, <3>4
  <2>. QED
    BY <2>1 DEF CancelledIsGone
<1>. QED
  BY <1>11, <1>12, <1>13 DEF MapOK

(***************************************************************************)
(* Keeping puts the object of a keeper into the map, or drops it.          *)
(***************************************************************************)
LEMMA KeepKeepsMap ==
  ASSUME TypeOK, ItemsAreKnown, MapOK, NEW t \in Thread, KeepNotification(t)
  PROVE  MapOK'
<1>1. Local(t)
  BY StepsAreLocal DEF Publish
<1>2. pc[t] = "keep" /\ mapMutex = None /\ UNCHANGED <<mapMutex, panel, status, refused>>
  BY DEF KeepNotification, panelVars
<1>3. pc'[t] \in {"parse", "idle"}
  BY NextItemIsLocal DEF KeepNotification, Active
<1>4. Name(t) \in Popup
  BY <1>2, ItemIsTyped DEF Active
<1>5. \A x \in Thread : pc[x] \notin {"cancel", "erase"}
  BY <1>2, NoneAssumption DEF MapOK, OneCancels
<1>6. \A x \in Thread : pc'[x] \notin {"cancel", "erase"}
  BY <1>1, <1>3, <1>5 DEF Local
<1>7. OneCancels' /\ CancelledIsGone'
  BY <1>2, <1>6, NoneAssumption DEF OneCancels, CancelledIsGone
<1>8. /\ mapped' = mapped \cup {Name(t)}
      /\ replaced \subseteq replaced' /\ (Name(t) \in mapped => Name(t) \in replaced')
      /\ \A p \in Popup : kept'[p] = IF p = Name(t) /\ p \notin mapped THEN object[t] ELSE kept[p]
      /\ \A x \in Thread \ {t} : object'[x] = object[x]
  BY <1>4 DEF KeepNotification, TypeOK
<1>9. ASSUME NEW p \in Popup, status'[p] = "shown", ~(Keeping(p)'), p \notin refused'
      PROVE  p \in mapped' /\ (p \in replaced' \/ Serves(kept[p], p)')
  <2>1. /\ p \notin refused
        /\ Keeping(p) \/ (p \in mapped /\ (p \in replaced \/ Serves(kept[p], p)))
    BY <1>2, <1>9 DEF MapOK, ShownIsOwned
  <2>2. CASE p = Name(t) /\ p \in mapped
    BY <1>8, <2>2
  <2>3. CASE p = Name(t) /\ p \notin mapped
    <3>1. PICK x \in Thread : pc[x] = "keep" /\ Name(x) = p /\ Serves(object[x], p)
      BY <2>1, <2>3 DEF Keeping
    <3>2. x = t
      BY <1>1, <1>2, <1>8, <1>9, <3>1, KeeperKeeps
    <3>3. kept'[p] = object[t] /\ p \in mapped'
      BY <1>8, <2>3
    <3>. QED
      BY <1>2, <3>1, <3>2, <3>3 DEF Serves
  <2>4. CASE p # Name(t)
    <3>1. ~Keeping(p)
      BY <1>1, <1>2, <1>8, <1>9, <2>4, OthersKeep
    <3>2. kept'[p] = kept[p]
      BY <1>8, <2>4
    <3>. QED
      BY <1>2, <1>8, <2>1, <3>1, <3>2 DEF Serves
  <2>. QED
    BY <2>2, <2>3, <2>4
<1>10. ShownIsOwned'
  BY <1>9 DEF ShownIsOwned
<1>. QED
  BY <1>7, <1>10 DEF MapOK

LEMMA FindKeepsMap ==
  ASSUME TypeOK, ItemsAreKnown, MapOK, NEW t \in Thread, FindNotification(t)
  PROVE  MapOK'
<1>1. Local(t)
  BY StepsAreLocal DEF Cancel
<1>2. /\ pc[t] = "act" /\ mapMutex = None
      /\ UNCHANGED <<mapped, kept, replaced, panel, status, refused, object>>
  BY DEF FindNotification, panelVars
<1>3. CASE Name(t) \notin mapped
  <2>1. NextItem(t) /\ UNCHANGED <<mapMutex, mapped, kept, replaced>>
    BY <1>3 DEF FindNotification
  <2>2. pc'[t] \in {"parse", "idle"}
    BY <1>2, <2>1, NextItemIsLocal DEF Active
  <2>. QED
    BY <1>1, <1>2, <2>1, <2>2, QuietKeepsMap DEF Quiet, mapVars, panelVars
<1>4. CASE Name(t) \in mapped
  <2>1. pc'[t] = "cancel" /\ mapMutex' = t /\ Name(t)' = Name(t)
    BY <1>4 DEF FindNotification, Goto, TypeOK, Name, Item
  <2>2. \A x \in Thread : pc[x] \notin {"cancel", "erase"}
    BY <1>2, NoneAssumption DEF MapOK, OneCancels
  <2>3. \A x \in Thread \ {t} : pc'[x] \notin {"cancel", "erase"}
    BY <1>1, <2>2 DEF Local
  <2>4. OneCancels'
    BY <1>2, <1>4, <2>1, <2>3 DEF OneCancels
  <2>5. CancelledIsGone'
    BY <2>1, <2>3 DEF CancelledIsGone
  <2>7. \A p : Keeping(p) => Keeping(p)'
    BY <1>1, <1>2, OthersKeep
  <2>8. ShownIsOwned'
    BY <1>2, <2>7 DEF MapOK, ShownIsOwned, Serves
  <2>. QED
    BY <2>4, <2>5, <2>8 DEF MapOK
<1>. QED
  BY <1>3, <1>4

LEMMA CancelKeepsMap ==
  ASSUME TypeOK, ItemsAreKnown, MapOK, NEW t \in Thread, CancelNotification(t)
  PROVE  MapOK'
<1>1. Local(t)
  BY StepsAreLocal DEF Cancel
<1>2. /\ pc[t] = "cancel" /\ pc'[t] = "erase" /\ Name(t)' = Name(t)
      /\ UNCHANGED <<mapMutex, mapped, kept, replaced, object>>
  BY DEF CancelNotification, Goto, TypeOK, mapVars, threadVars, Name, Item
<1>3. \A x \in Thread \ {t} : pc[x] \notin {"cancel", "erase"}
  BY <1>2, NoneAssumption DEF MapOK, OneCancels
<1>4. \A x \in Thread \ {t} : pc'[x] \notin {"cancel", "erase"}
  BY <1>1, <1>3 DEF Local
<1>5. Name(t) \in Popup
  BY <1>2, ItemIsTyped DEF Active
<1>6. /\ status'[Name(t)] # "shown" \/ Name(t) \in refused'
      /\ \A p \in Popup : p # Name(t) =>
           /\ status'[p] = status[p] /\ panel'[p] = panel[p]
           /\ p \in refused => p \in refused'
  BY <1>5 DEF CancelNotification, TypeOK
<1>7. OneCancels'
  BY <1>2, <1>4 DEF MapOK, OneCancels
<1>8. CancelledIsGone'
  BY <1>2, <1>4, <1>6 DEF CancelledIsGone
<1>9. ASSUME NEW p \in Popup, status'[p] = "shown", ~(Keeping(p)'), p \notin refused'
      PROVE  p \in mapped' /\ (p \in replaced' \/ Serves(kept[p], p)')
  <2>1. p # Name(t)
    BY <1>6, <1>9
  <2>2. status[p] = "shown" /\ panel'[p] = panel[p] /\ p \notin refused
    BY <1>6, <1>9, <2>1
  <2>3. ~Keeping(p)
    BY <1>1, <1>2, <1>9, <2>2, OthersKeep
  <2>4. p \in mapped /\ (p \in replaced \/ Serves(kept[p], p))
    BY <2>2, <2>3 DEF MapOK, ShownIsOwned
  <2>. QED
    BY <1>2, <2>2, <2>4 DEF Serves
<1>10. ShownIsOwned'
  BY <1>9 DEF ShownIsOwned
<1>. QED
  BY <1>7, <1>8, <1>10 DEF MapOK

LEMMA EraseKeepsMap ==
  ASSUME TypeOK, ItemsAreKnown, MapOK, NEW t \in Thread, EraseNotification(t)
  PROVE  MapOK'
<1>1. Local(t)
  BY StepsAreLocal DEF Cancel
<1>2. /\ pc[t] = "erase" /\ mapMutex' = None
      /\ UNCHANGED <<object, panel, status, refused>>
  BY DEF EraseNotification, panelVars
<1>3. pc'[t] \in {"parse", "idle"}
  BY <1>2, NextItemIsLocal DEF EraseNotification, Active
<1>4. \A x \in Thread : pc'[x] \notin {"cancel", "erase"}
  <2>1. \A x \in Thread \ {t} : pc[x] \notin {"cancel", "erase"}
    BY <1>2, NoneAssumption DEF MapOK, OneCancels
  <2>. QED
    BY <1>1, <1>3, <2>1 DEF Local
<1>5. OneCancels' /\ CancelledIsGone'
  BY <1>2, <1>4, NoneAssumption DEF OneCancels, CancelledIsGone
<1>6. Name(t) \in Popup
  BY <1>2, ItemIsTyped DEF Active
<1>7. /\ mapped' = mapped \ {Name(t)} /\ replaced' = replaced \ {Name(t)}
      /\ \A p \in Popup : p # Name(t) => kept'[p] = kept[p]
  BY <1>6 DEF EraseNotification, TypeOK
<1>8. ASSUME NEW p \in Popup, status'[p] = "shown", ~(Keeping(p)'), p \notin refused'
      PROVE  p \in mapped' /\ (p \in replaced' \/ Serves(kept[p], p)')
  <2>1. ~Keeping(p) /\ status[p] = "shown" /\ p \notin refused
    BY <1>1, <1>2, <1>8, OthersKeep
  <2>2. p # Name(t)
    BY <1>2, <2>1 DEF MapOK, CancelledIsGone
  <2>3. p \in mapped /\ (p \in replaced \/ Serves(kept[p], p))
    BY <2>1 DEF MapOK, ShownIsOwned
  <2>. QED
    BY <1>2, <1>7, <2>2, <2>3 DEF Serves
<1>9. ShownIsOwned'
  BY <1>8 DEF ShownIsOwned
<1>. QED
  BY <1>5, <1>9 DEF MapOK

LEMMA SwipeKeepsMap ==
  ASSUME TypeOK, MapOK, NEW p \in Popup, Swipe(p)
  PROVE  MapOK'
<1>1. UNCHANGED <<pc, uevent, next, mapMutex, mapped, kept, replaced, object, refused>>
  BY DEF Swipe, threadVars, mapVars
<1>2. \A q \in Popup : status'[q] = "shown" => status[q] = "shown" /\ panel'[q] = panel[q]
  BY DEF Swipe, TypeOK
<1>3. \A x : Name(x)' = Name(x)
  BY <1>1 DEF Name, Item
<1>4. ASSUME NEW q \in Popup, status'[q] = "shown", Keeping(q) PROVE Keeping(q)'
  <2>1. PICK x \in Thread : pc[x] = "keep" /\ Name(x) = q /\ Serves(object[x], q)
    BY <1>4 DEF Keeping
  <2>2. panel'[q] = panel[q]
    BY <1>2, <1>4
  <2>. QED
    BY <1>1, <1>3, <2>1, <2>2 DEF Keeping, Serves
<1>5. OneCancels'
  BY <1>1, <1>3 DEF MapOK, OneCancels
<1>6. ShownIsOwned'
  BY <1>1, <1>2, <1>4 DEF MapOK, ShownIsOwned, Serves
<1>7. CancelledIsGone'
  <2>1. ASSUME NEW x \in Thread, pc'[x] = "erase", status'[Name(x)'] = "shown"
        PROVE  Keeping(Name(x))' \/ Name(x)' \in refused'
    <3>1. Name(x) \in Popup
      BY <1>1, <2>1 DEF MapOK, OneCancels, TypeOK
    <3>2. Name(x)' = Name(x) /\ status[Name(x)] = "shown" /\ panel'[Name(x)] = panel[Name(x)]
      BY <1>2, <1>3, <2>1, <3>1
    <3>3. Keeping(Name(x)) \/ Name(x) \in refused
      BY <1>1, <2>1, <3>2 DEF MapOK, CancelledIsGone
    <3>. QED
      BY <1>1, <1>3, <3>2, <3>3 DEF Keeping, Serves
  <2>. QED
    BY <2>1 DEF CancelledIsGone
<1>. QED
  BY <1>5, <1>6, <1>7 DEF MapOK

LEMMA MapNext == TypeOK /\ ItemsAreKnown /\ MapOK /\ [Next]_vars => MapOK'
<1> SUFFICES ASSUME TypeOK, ItemsAreKnown, MapOK, [Next]_vars PROVE MapOK'
  OBVIOUS
<1>a. pc \in [Thread -> Label]
  BY DEF TypeOK
<1>1. ASSUME NEW t \in Thread, \E u \in DOMAIN PopupConfig : HandleNotification(t, u)
      PROVE  MapOK'
  <2>1. Local(t)
    BY <1>1, StepsAreLocal
  <2>. QED
    BY <1>a, <1>1, <2>1, QuietKeepsMap DEF HandleNotification, Goto, Quiet
<1>2. ASSUME NEW t \in Thread, Update(t) PROVE MapOK'
  <2>1. Local(t)
    BY <1>2, StepsAreLocal
  <2>2. /\ pc[t] \notin {"keep", "cancel", "erase"}
        /\ pc'[t] \notin {"keep", "cancel", "erase"}
        /\ UNCHANGED <<mapVars, panelVars, object>>
    BY <1>a, <1>2 DEF Update, ParseLocaleCfg, EmptyLanguageMap, FillLanguageMap,
       CompareLocale, StoreBaseName, ChooseLanguage, ClearStrings, ParseStrings, Goto, File, threadVars
  <2>. QED
    BY <2>1, <2>2, QuietKeepsMap DEF Quiet
<1>3. ASSUME NEW t \in Thread, SkipItem(t) PROVE MapOK'
  <2>1. Local(t)
    BY <1>3, StepsAreLocal
  <2>2. pc[t] = "act" /\ UNCHANGED <<mapVars, panelVars, object>> /\ NextItem(t)
    BY <1>3 DEF SkipItem
  <2>3. pc'[t] \in {"parse", "idle"}
    BY <2>2, NextItemIsLocal DEF Active
  <2>. QED
    BY <2>1, <2>2, <2>3, QuietKeepsMap DEF Quiet
<1>4. ASSUME NEW t \in Thread, FillText(t) \/ FillPower(t) \/ FillButtons(t) PROVE MapOK'
  <2>1. Local(t)
    BY <1>4, StepsAreLocal DEF Publish
  <2>. QED
    BY <1>a, <1>4, <2>1, QuietKeepsMap DEF FillText, FillPower, FillButtons, Goto, Quiet
<1>5. ASSUME NEW t \in Thread, Publish(t) PROVE MapOK'
  BY <1>4, <1>5, PublishKeepsMap, KeepKeepsMap DEF Publish
<1>6. ASSUME NEW t \in Thread, Cancel(t) PROVE MapOK'
  BY <1>6, FindKeepsMap, CancelKeepsMap, EraseKeepsMap DEF Cancel
<1>7. ASSUME NEW p \in Popup, Swipe(p) PROVE MapOK'
  BY <1>7, SwipeKeepsMap
<1>8. CASE ChangeLocale \/ UNCHANGED vars
  <2>1. UNCHANGED <<pc, uevent, next, mapMutex, mapped, kept, replaced, object, panel,
                    status, refused>>
    BY <1>8 DEF ChangeLocale, vars, threadVars, mapVars, panelVars
  <2>. QED
    BY <2>1 DEF MapOK, OneCancels, ShownIsOwned, CancelledIsGone, Serves, Keeping, Name,
       Item
<1>. QED
  BY <1>1, <1>2, <1>3, <1>5, <1>6, <1>7, <1>8 DEF Next

-----------------------------------------------------------------------------
(***************************************************************************)
(* What an undisturbed thread publishes.  While it is at work nobody else  *)
(* is, so that the strings it reads are those of the locale, and nobody    *)
(* changes them between its texts and its buttons.                         *)
(***************************************************************************)
ContentOK == AloneIsAlone /\ TextIsFilled /\ TextIsLocalised

LEMMA StringsAreReady ==
  ASSUME LocaleOK, AloneIsAlone, ~torn, NEW t \in Thread, alone = t,
         pc[t] \in {"act", "config", "buttons"}
  PROVE  stringMap = StringsOf(baseName)
<1>1. \A x \in Thread : pc[x] \notin RebuildLabel
  BY DEF AloneIsAlone, Active, RebuildLabel
<1>2. baseName # None
  BY DEF LocaleOK, BaseNameIsSet
<1>. QED
  BY <1>1, <1>2 DEF LocaleOK, StringsAreParsed

LEMMA AloneStays ==
  ASSUME AloneIsAlone, NEW t \in Thread, Active(t), Local(t), alone' = alone
  PROVE  AloneIsAlone' /\ \A x \in Thread \ {t} : alone' = x => pc'[x] = "idle"
BY DEF AloneIsAlone, Active, Local

LEMMA OthersAreIdle ==
  ASSUME AloneIsAlone', NEW t \in Thread,
         \A x \in Thread \ {t} : alone' = x => pc'[x] = "idle",
         pc'[t] \notin {"config", "buttons", "publish"}
  PROVE  ContentOK'
BY DEF ContentOK, TextIsFilled, TextIsLocalised

LEMMA ContentNext ==
  TypeOK /\ ItemsAreKnown /\ LocaleOK /\ ContentOK /\ [Next]_vars => ContentOK'
<1> SUFFICES ASSUME TypeOK, ItemsAreKnown, LocaleOK, ContentOK, [Next]_vars
             PROVE  ContentOK'
  OBVIOUS
<1>a. pc \in [Thread -> Label]
  BY DEF TypeOK
<1>b. AloneIsAlone
  BY DEF ContentOK
<1>1. ASSUME NEW t \in Thread, NEW u \in DOMAIN PopupConfig, HandleNotification(t, u)
      PROVE  ContentOK'
  <2>1. pc'[t] = "parse" /\ \A x \in Thread \ {t} : pc'[x] = pc[x]
    BY <1>a, <1>1 DEF HandleNotification, Goto
  <2>2. alone' = IF \E x \in Thread : Active(x) THEN None ELSE t
    BY <1>1 DEF HandleNotification
  <2>3. AloneIsAlone' /\ \A x \in Thread \ {t} : alone' = x => pc'[x] = "idle"
    BY <2>1, <2>2, NoneAssumption DEF AloneIsAlone, Active
  <2>. QED
    BY <2>1, <2>3, OthersAreIdle
<1>2. ASSUME NEW t \in Thread, Active(t), Local(t), alone' = alone,
             pc'[t] \notin {"config", "buttons", "publish"}
      PROVE  ContentOK'
  BY <1>b, <1>2, AloneStays, OthersAreIdle
<1>3. ASSUME NEW t \in Thread, Update(t) PROVE ContentOK'
  <2>1. Local(t)
    BY <1>3, StepsAreLocal
  <2>2. Active(t) /\ alone' = alone /\ pc'[t] \notin {"config", "buttons", "publish"}
    BY <1>a, <1>3 DEF Update, ParseLocaleCfg, EmptyLanguageMap, FillLanguageMap,
       CompareLocale, StoreBaseName, ChooseLanguage, ClearStrings, ParseStrings, Goto, File, Active
  <2>. QED
    BY <1>2, <2>1, <2>2
<1>4. ASSUME NEW t \in Thread,
             SkipItem(t) \/ KeepNotification(t) \/ EraseNotification(t)
      PROVE  ContentOK'
  <2>1. Local(t)
    BY <1>4, StepsAreLocal DEF Publish, Cancel
  <2>2. Active(t) /\ alone' = alone /\ NextItem(t)
    BY <1>4 DEF SkipItem, KeepNotification, EraseNotification, Active
  <2>3. pc'[t] \in {"parse", "idle"}
    BY <2>2, NextItemIsLocal
  <2>. QED
    BY <1>2, <2>1, <2>2, <2>3
<1>5. ASSUME NEW t \in Thread, PublishNotification(t) \/ CancelNotification(t)
      PROVE  ContentOK'
  <2>1. Local(t)
    BY <1>5, StepsAreLocal DEF Publish, Cancel
  <2>2. Active(t) /\ alone' = alone /\ pc'[t] \notin {"config", "buttons", "publish"}
    BY <1>a, <1>5 DEF PublishNotification, CancelNotification, Goto, Active
  <2>. QED
    BY <1>2, <2>1, <2>2
<1>6. ASSUME NEW t \in Thread, FindNotification(t) PROVE ContentOK'
  <2>1. Local(t)
    BY <1>6, StepsAreLocal DEF Cancel
  <2>2. Active(t) /\ alone' = alone
    BY <1>6 DEF FindNotification, Active
  <2>3. pc'[t] \notin {"config", "buttons", "publish"}
    <3>1. CASE Name(t) \in mapped
      BY <1>a, <1>6, <3>1 DEF FindNotification, Goto
    <3>2. CASE Name(t) \notin mapped
      BY <1>6, <2>2, <3>2, NextItemIsLocal DEF FindNotification
    <3>. QED
      BY <3>1, <3>2
  <2>. QED
    BY <1>2, <2>1, <2>2, <2>3
<1>7. ASSUME NEW t \in Thread, FillText(t) PROVE ContentOK'
  <2> DEFINE key == Conf(Name(t)).text
  <2>1. /\ pc[t] = "act" /\ pc'[t] \in {"config", "buttons"} /\ alone' = alone
        /\ UNCHANGED <<readable, baseName, stringMap, torn>> /\ Name(t)' = Name(t)
    BY <1>a, <1>7 DEF FillText, Goto, systemVars, localeVars, Name, Item
  <2>2. AloneIsAlone' /\ \A x \in Thread \ {t} : alone' = x => pc'[x] = "idle"
    BY <1>b, <1>7, <2>1, StepsAreLocal, AloneStays DEF Publish, Active
  <2>3. StringsOf(baseName)' = StringsOf(baseName)
    BY <2>1 DEF StringsOf, FirstStringsOf, LanguageOf, Listed, Insert
  <2>4. CASE key = "power" /\ stringMap[key] # None
    <3>1. /\ content'[t] = [text |-> stringMap["power"], form |-> "raw", buttons |-> {}]
          /\ pc'[t] = "config"
      BY <1>a, <1>7, <2>4 DEF FillText, Goto, TypeOK
    <3>2. ASSUME alone = t, ~torn PROVE stringMap = StringsOf(baseName)
      BY <1>b, <2>1, <3>2, StringsAreReady
    <3>3. TextIsFilled' /\ TextIsLocalised'
      BY <2>1, <2>2, <2>3, <2>4, <3>1, <3>2 DEF TextIsFilled, TextIsLocalised
    <3>. QED
      BY <2>2, <3>3 DEF ContentOK
  <2>5. CASE ~(key = "power" /\ stringMap[key] # None)
    <3>1. /\ content'[t] = [text |-> stringMap[key], form |-> "plain", buttons |-> {}]
          /\ pc'[t] = "buttons"
      BY <1>a, <1>7, <2>5 DEF FillText, Goto, TypeOK
    <3>2. TextOf(content'[t], Name(t), stringMap)
      BY <2>5, <3>1 DEF TextOf, Texts
    <3>3. ASSUME alone = t, ~torn PROVE TextOf(content'[t], Name(t)', StringsOf(baseName)')
      <4>1. stringMap = StringsOf(baseName)
        BY <1>b, <2>1, <3>3, StringsAreReady
      <4>. QED
        BY <2>1, <2>3, <3>2, <4>1
    <3>4. TextIsFilled' /\ TextIsLocalised'
      BY <2>1, <2>2, <3>1, <3>3 DEF TextIsFilled, TextIsLocalised, TextOf
    <3>. QED
      BY <2>2, <3>4 DEF ContentOK
  <2>. QED
    BY <2>4, <2>5
<1>10. ASSUME NEW t \in Thread, FillPower(t) PROVE ContentOK'
  <2>1. /\ pc[t] = "config" /\ pc'[t] = "buttons" /\ alone' = alone
        /\ UNCHANGED <<readable, baseName, stringMap, torn>> /\ Name(t)' = Name(t)
    BY <1>a, <1>10 DEF FillPower, Goto, systemVars, localeVars, Name, Item
  <2>2. AloneIsAlone' /\ \A x \in Thread \ {t} : alone' = x => pc'[x] = "idle"
    BY <1>b, <1>10, <2>1, StepsAreLocal, AloneStays DEF Publish, Active
  <2>3. StringsOf(baseName)' = StringsOf(baseName)
    BY <2>1 DEF StringsOf, FirstStringsOf, LanguageOf, Listed, Insert
  <2>4. ASSUME alone = t, ~torn PROVE TextOf(content'[t], Name(t)', StringsOf(baseName)')
    <3>1. stringMap = StringsOf(baseName)
      BY <1>b, <2>1, <2>4, StringsAreReady
    <3>2. /\ Conf(Name(t)).text = "power" /\ stringMap["power"] # None
          /\ content[t] = [text |-> stringMap["power"], form |-> "raw", buttons |-> {}]
      BY <2>1, <2>4, <3>1 DEF ContentOK, TextIsFilled
    <3>3. \/ content'[t] = [text |-> stringMap["power"], form |-> "filled", buttons |-> {}]
          \/ /\ stringMap["start"] # None
             /\ content'[t] = [text |-> stringMap["start"], form |-> "start", buttons |-> {}]
          \/ /\ stringMap["start"] = None
             /\ content'[t] = [text |-> stringMap["power"], form |-> "raw", buttons |-> {}]
      <4>1. content \in [Thread -> Content]
        BY DEF TypeOK
      <4>2. CASE content' = [content EXCEPT ![t].form = "filled"]
        <5>1. content'[t] = [content[t] EXCEPT !.form = "filled"]
          BY <4>1, <4>2
        <5>. QED
          BY <3>2, <5>1
      <4>3. CASE /\ stringMap["start"] # None
                 /\ content' = [content EXCEPT ![t] =
                      [text |-> stringMap["start"], form |-> "start", buttons |-> {}]]
        BY <4>1, <4>3
      <4>4. CASE stringMap["start"] = None /\ UNCHANGED content
        BY <3>2, <4>4
      <4>. QED
        BY <1>10, <4>2, <4>3, <4>4 DEF FillPower
    <3>4. TextOf(content'[t], Name(t), stringMap)
      BY <3>2, <3>3 DEF TextOf, Texts
    <3>. QED
      BY <2>1, <2>3, <3>1, <3>4
  <2>5. TextIsFilled' /\ TextIsLocalised'
    BY <2>1, <2>2, <2>4, SMTT(60) DEF TextIsFilled, TextIsLocalised, TextOf
  <2>. QED
    BY <2>2, <2>5 DEF ContentOK
<1>8. ASSUME NEW t \in Thread, FillButtons(t) PROVE ContentOK'
  <2>1. /\ pc[t] = "buttons" /\ pc'[t] = "publish" /\ alone' = alone
        /\ UNCHANGED <<readable, baseName, stringMap, torn>> /\ Name(t)' = Name(t)
    BY <1>a, <1>8 DEF FillButtons, Goto, systemVars, localeVars, Name, Item
  <2>2. AloneIsAlone' /\ \A x \in Thread \ {t} : alone' = x => pc'[x] = "idle"
    BY <1>b, <1>8, <2>1, StepsAreLocal, AloneStays DEF Publish, Active
  <2>3. StringsOf(baseName)' = StringsOf(baseName)
    BY <2>1 DEF StringsOf, FirstStringsOf, LanguageOf, Listed, Insert
  <2>4. /\ content'[t].buttons = ButtonsIn(Name(t), stringMap)
        /\ [content'[t] EXCEPT !.buttons = {}] = [content[t] EXCEPT !.buttons = {}]
    <3>1. content \in [Thread -> Content]
      BY DEF TypeOK
    <3>2. content'[t] = [content[t] EXCEPT !.buttons = ButtonsIn(Name(t), stringMap)]
      BY <1>8, <3>1 DEF FillButtons
    <3>. QED
      BY <3>1, <3>2 DEF Content
  <2>5. ASSUME alone = t, ~torn PROVE Localised(content'[t], Name(t))
    <3>1. TextOf(content[t], Name(t), StringsOf(baseName))
      BY <2>1, <2>5 DEF ContentOK, TextIsFilled
    <3>2. TextOf(content'[t], Name(t), StringsOf(baseName))
      BY <2>4, <3>1 DEF TextOf
    <3>3. stringMap = StringsOf(baseName)
      BY <1>b, <2>1, <2>5, StringsAreReady
    <3>. QED
      BY <2>4, <3>2, <3>3 DEF Localised
  <2>6. TextIsLocalised'
    <3>1. ASSUME NEW x \in Thread, pc'[x] = "publish", alone' = x, ~torn'
          PROVE  Localised(content[x], Name(x))'
      <4>1. x = t
        BY <2>2, <3>1
      <4>2. Localised(content'[t], Name(t)')
        BY <2>1, <2>5, <3>1, <4>1
      <4>. QED
        BY <2>1, <2>3, <4>1, <4>2 DEF Localised, TextOf, ButtonsIn
    <3>. QED
      BY <3>1 DEF TextIsLocalised
  <2>7. TextIsFilled'
    BY <2>1, <2>2 DEF TextIsFilled
  <2>. QED
    BY <2>2, <2>6, <2>7 DEF ContentOK
<1>9. CASE ChangeLocale \/ (\E p \in Popup : Swipe(p)) \/ UNCHANGED vars
  <2>1. UNCHANGED <<pc, uevent, next, content, alone, torn, readable, baseName>>
    BY <1>9 DEF ChangeLocale, Swipe, vars, threadVars, localeVars, systemVars
  <2>2. StringsOf(baseName)' = StringsOf(baseName)
    BY <2>1 DEF StringsOf, FirstStringsOf, LanguageOf, Listed, Insert
  <2>3. \A x : Name(x)' = Name(x)
    BY <2>1 DEF Name, Item
  <2>4. AloneIsAlone'
    BY <1>b, <2>1 DEF AloneIsAlone, Active
  <2>5. TextIsFilled'
    BY <2>1, <2>2, <2>3 DEF ContentOK, TextIsFilled, TextOf
  <2>6. TextIsLocalised'
    BY <2>1, <2>2, <2>3 DEF ContentOK, TextIsLocalised, Localised, TextOf, ButtonsIn
  <2>. QED
    BY <2>4, <2>5, <2>6 DEF ContentOK
<1>. QED
  BY <1>1, <1>3, <1>4, <1>5, <1>6, <1>7, <1>8, <1>9, <1>10 DEF Next, Publish, Cancel

-----------------------------------------------------------------------------
(***************************************************************************)
(* The panel after each item of an undisturbed thread.  No other thread    *)
(* calls the panel; the user may only swipe away.                          *)
(***************************************************************************)
LEMMA NamesAreTyped ==
  ASSUME NEW u \in DOMAIN PopupConfig
  PROVE  /\ DOMAIN Items(u) = 1..Len(Items(u)) /\ Len(Items(u)) \in Nat
         /\ \A i \in DOMAIN Items(u) : Items(u)[i].name \in Popup
<1>1. Items(u) \in Seq([name : Popup, action : Nat, valid : BOOLEAN])
  BY ConfigAssumption
<1>2. \A S : \A q \in Seq(S) : DOMAIN q = 1..Len(q) /\ Len(q) \in Nat
  OBVIOUS
<1>3. \A S : \A q \in Seq(S) : \A i \in DOMAIN q : q[i] \in S
  OBVIOUS
<1>4. \A i \in DOMAIN Items(u) :
        Items(u)[i] \in [name : Popup, action : Nat, valid : BOOLEAN]
  BY <1>1, <1>3
<1>5. \A e \in [name : Popup, action : Nat, valid : BOOLEAN] : e.name \in Popup
  OBVIOUS
<1>. QED
  BY <1>1, <1>2, <1>4, <1>5

(***************************************************************************)
(* A step that neither calls the panel nor deals with an item.             *)
(***************************************************************************)
LEMMA PanelStays ==
  ASSUME PanelFollows, alone' = alone, UNCHANGED panelVars,
         \A t \in Thread : alone = t =>
           /\ uevent'[t] = uevent[t]
           /\ \A i \in DOMAIN Items(uevent[t]) : Handled(t, i)' <=> Handled(t, i)
  PROVE  PanelFollows'
<1> SUFFICES ASSUME NEW t \in Thread, alone = t,
                    NEW i \in DOMAIN Items(uevent[t]), LastHandled(t, i)'
             PROVE  Follows(Items(uevent[t])[i])'
  BY DEF PanelFollows
<1>1. LastHandled(t, i)
  BY DEF LastHandled
<1>2. Follows(Items(uevent[t])[i])
  BY <1>1 DEF PanelFollows
<1>. QED
  BY <1>2 DEF Follows, panelVars

(***************************************************************************)
(* A step that deals with the item a thread is at, as the item says.       *)
(***************************************************************************)
LEMMA ItemIsHandled ==
  ASSUME ItemsAreKnown, AloneIsAlone, PanelFollows, alone' = alone,
         NEW t \in Thread, Active(t),
         alone = t => uevent'[t] = uevent[t],
         ~Handled(t, next[t]),
         \A i \in DOMAIN Items(uevent[t]) : Handled(t, i)' <=> Handled(t, i) \/ i = next[t],
         \A p \in Popup \ {Name(t)} :
           status'[p] = status[p] /\ (p \in refused' <=> p \in refused),
         Name(t) \notin refused' =>
           /\ Item(t).action = 1 => status'[Name(t)] # "shown"
           /\ Item(t).action = 0 /\ Name(t) \in Configured => status'[Name(t)] # "none"
  PROVE  PanelFollows'
<1>1. \A x \in Thread : alone = x => x = t
  BY DEF AloneIsAlone
<1> SUFFICES ASSUME alone = t, NEW i \in DOMAIN Items(uevent[t]), LastHandled(t, i)'
             PROVE  Follows(Items(uevent[t])[i])'
  BY <1>1 DEF PanelFollows
<1> DEFINE item == Items(uevent[t])[i]
<1>2. /\ next[t] \in DOMAIN Items(uevent[t]) /\ uevent[t] \in DOMAIN PopupConfig
      /\ Item(t) = Items(uevent[t])[next[t]]
  BY DEF ItemsAreKnown, Item
<1>3. CASE i = next[t]
  <2>1. item = Item(t) /\ item.name = Name(t)
    BY <1>2, <1>3 DEF Name
  <2>. QED
    BY <1>3, <2>1 DEF Follows
<1>4. CASE i # next[t]
  <2>1. Handled(t, i)
    BY <1>4 DEF LastHandled
  <2>2. i < next[t]
    BY <1>4, <2>1 DEF Handled, Active
  <2>3. item.name # Name(t) /\ item.name \in Popup
    BY <1>2, <2>2, NamesAreTyped DEF LastHandled, Name
  <2>4. LastHandled(t, i)
    BY <2>1 DEF LastHandled
  <2>5. Follows(item)
    BY <2>4 DEF PanelFollows
  <2>. QED
    BY <2>3, <2>5 DEF Follows
<1>. QED
  BY <1>3, <1>4

(***************************************************************************)
(* Going to the next item deals with the one the thread is at.             *)
(***************************************************************************)
LEMMA NextItemHandles ==
  ASSUME TypeOK, ItemsAreKnown, NEW t \in Thread, Active(t), NextItem(t)
  PROVE  /\ alone = t => uevent'[t] = uevent[t]
         /\ \A i \in DOMAIN Items(uevent[t]) : Handled(t, i)' <=> i <= next[t]
<1>1. pc \in [Thread -> Label] /\ next \in [Thread -> Nat] /\ next[t] \in Nat
  BY DEF TypeOK
<1>2. uevent[t] \in DOMAIN PopupConfig
  BY DEF ItemsAreKnown
<1>3. DOMAIN Items(uevent[t]) = 1..Len(Items(uevent[t])) /\ Len(Items(uevent[t])) \in Nat
  BY <1>2, NamesAreTyped
<1>4. CASE next[t] < Len(Items(uevent[t]))
  <2>1. pc'[t] = "parse" /\ uevent' = uevent /\ next'[t] = next[t] + 1
    BY <1>1, <1>4 DEF NextItem, Goto
  <2>. QED
    BY <1>1, <1>3, <2>1 DEF Handled
<1>5. CASE ~(next[t] < Len(Items(uevent[t])))
  <2>1. pc'[t] = "idle" /\ (alone = t => uevent' = uevent)
    BY <1>1, <1>5 DEF NextItem, Goto
  <2>2. \A i \in DOMAIN Items(uevent[t]) : i <= next[t]
    BY <1>1, <1>3, <1>5
  <2>. QED
    BY <2>1, <2>2 DEF Handled
<1>. QED
  BY <1>4, <1>5

LEMMA PanelNext == IInv /\ [Next]_vars => PanelFollows'
<1> SUFFICES ASSUME IInv, [Next]_vars PROVE PanelFollows'
  OBVIOUS
<1>a. /\ pc \in [Thread -> Label] /\ next \in [Thread -> Nat]
      /\ uevent \in [Thread -> DOMAIN PopupConfig \cup {None}]
      /\ status \in [Popup -> {"none", "shown", "swiped"}]
  BY DEF IInv, TypeOK
<1>b. TypeOK /\ ItemsAreKnown /\ AloneIsAlone /\ PanelFollows
  BY DEF IInv
<1>c. ASSUME NEW t \in Thread, Active(t)
      PROVE  \A i \in DOMAIN Items(uevent[t]) : i \in Nat
  BY <1>b, <1>c, NamesAreTyped DEF ItemsAreKnown
<1>1. ASSUME NEW t \in Thread, NEW u \in DOMAIN PopupConfig, HandleNotification(t, u)
      PROVE  PanelFollows'
  <2>1. pc'[t] = "parse" /\ uevent'[t] = u /\ next'[t] = 1
    BY <1>a, <1>1 DEF HandleNotification, Goto
  <2>2. \A x \in Thread : alone' = x => x = t
    BY <1>1, NoneAssumption DEF HandleNotification
  <2>3. \A i \in DOMAIN Items(u) : ~Handled(t, i)'
    BY <2>1, NamesAreTyped DEF Handled
  <2>. QED
    BY <2>1, <2>2, <2>3 DEF PanelFollows, LastHandled
<1>2. ASSUME NEW t \in Thread, Active(t), alone' = alone, UNCHANGED <<uevent, next, panelVars>>,
             pc[t] \notin {"keep", "erase"}, pc'[t] \notin {"keep", "erase", "idle"}
      PROVE  PanelFollows'
  <2>1. \A x \in Thread : alone = x => x = t
    BY <1>b, <1>2 DEF AloneIsAlone
  <2>2. \A i \in DOMAIN Items(uevent[t]) : Handled(t, i)' <=> Handled(t, i)
    BY <1>2 DEF Handled, Active
  <2>. QED
    BY <1>b, <1>2, <2>1, <2>2, PanelStays
<1>3. ASSUME NEW t \in Thread, Update(t) \/ FillText(t) \/ FillPower(t) \/ FillButtons(t) PROVE PanelFollows'
  <2>1. /\ Active(t) /\ alone' = alone /\ UNCHANGED <<uevent, next, panelVars>>
        /\ pc[t] \notin {"keep", "erase"}
    BY <1>3 DEF Update, ParseLocaleCfg, EmptyLanguageMap, FillLanguageMap, CompareLocale, StoreBaseName,
       ChooseLanguage, ClearStrings, ParseStrings, FillText, FillPower, FillButtons, Active, File,
       threadVars
  <2>2. pc'[t] \notin {"keep", "erase", "idle"}
    BY <1>a, <1>3 DEF Update, ParseLocaleCfg, EmptyLanguageMap, FillLanguageMap,
       CompareLocale, StoreBaseName, ChooseLanguage, ClearStrings, ParseStrings, FillText, FillPower, FillButtons,
       Goto, File
  <2>. QED
    BY <1>2, <2>1, <2>2
<1>4. ASSUME NEW t \in Thread, pc[t] = "act", NextItem(t), alone' = alone,
             UNCHANGED panelVars,
             Item(t).action = 1 /\ Name(t) \notin refused => status[Name(t)] # "shown",
             ~Publishes(t)
      PROVE  PanelFollows'
  <2>1. Active(t) /\ next[t] \in DOMAIN Items(uevent[t]) /\ uevent[t] \in DOMAIN PopupConfig
    BY <1>4, <1>b DEF Active, ItemsAreKnown
  <2>2. \A i \in DOMAIN Items(uevent[t]) : Handled(t, i) <=> i < next[t]
    BY <1>4 DEF Handled
  <2>3. /\ alone = t => uevent'[t] = uevent[t]
        /\ \A i \in DOMAIN Items(uevent[t]) : Handled(t, i)' <=> i <= next[t]
    BY <1>4, <1>b, <2>1, NextItemHandles
  <2>4. ~Handled(t, next[t])
    BY <1>a, <2>1, <2>2
  <2>5. \A i \in DOMAIN Items(uevent[t]) : Handled(t, i)' <=> Handled(t, i) \/ i = next[t]
    BY <1>a, <1>c, <2>1, <2>2, <2>3
  <2>. QED
    BY <1>4, <1>b, <2>1, <2>3, <2>4, <2>5, ItemIsHandled DEF panelVars, Publishes
<1>5. ASSUME NEW t \in Thread, pc[t] \in {"keep", "erase"}, NextItem(t), alone' = alone,
             UNCHANGED panelVars
      PROVE  PanelFollows'
  <2>1. Active(t) /\ \A x \in Thread : alone = x => x = t
    BY <1>b, <1>5 DEF AloneIsAlone, Active
  <2>2. \A i \in DOMAIN Items(uevent[t]) : Handled(t, i) <=> i <= next[t]
    BY <1>a, <1>c, <1>5, <2>1 DEF Handled
  <2>3. /\ alone = t => uevent'[t] = uevent[t]
        /\ \A i \in DOMAIN Items(uevent[t]) : Handled(t, i)' <=> i <= next[t]
    BY <1>5, <1>b, <2>1, NextItemHandles
  <2>. QED
    BY <1>b, <1>5, <2>1, <2>2, <2>3, PanelStays
<1>6. ASSUME NEW t \in Thread, SkipItem(t) PROVE PanelFollows'
  BY <1>4, <1>6 DEF SkipItem
<1>7. ASSUME NEW t \in Thread, FindNotification(t) PROVE PanelFollows'
  <2>1. CASE Name(t) \in mapped
    <3>1. pc[t] = "act" /\ pc'[t] = "cancel"
      BY <1>a, <1>7, <2>1 DEF FindNotification, Goto
    <3>. QED
      BY <1>2, <1>7, <2>1, <3>1 DEF FindNotification, Active
  <2>2. CASE Name(t) \notin mapped
    <3>1. pc[t] = "act" /\ NextItem(t) /\ alone' = alone /\ UNCHANGED panelVars
          /\ Item(t).action = 1
      BY <1>7, <2>2 DEF FindNotification
    <3>2. CASE alone = t
      <4>1. ~Keeping(Name(t))
        BY <1>b, <3>1, <3>2 DEF AloneIsAlone, Keeping, Active
      <4>2. Name(t) \in Popup
        BY <1>b, <3>1, ItemIsTyped DEF Active
      <4>3. Name(t) \notin refused => status[Name(t)] # "shown"
        BY <2>2, <4>1, <4>2 DEF IInv, ShownIsOwned
      <4>. QED
        BY <1>4, <3>1, <4>3 DEF Publishes
    <3>3. CASE alone # t
      <4>1. \A x \in Thread : alone # x
        BY <1>b, <3>1, <3>3 DEF AloneIsAlone, Active
      <4>. QED
        BY <3>1, <4>1 DEF PanelFollows
    <3>. QED
      BY <3>2, <3>3
  <2>. QED
    BY <2>1, <2>2
<1>8. ASSUME NEW t \in Thread, KeepNotification(t) \/ EraseNotification(t)
      PROVE  PanelFollows'
  BY <1>5, <1>8 DEF KeepNotification, EraseNotification
<1>9. ASSUME NEW t \in Thread, PublishNotification(t) \/ CancelNotification(t)
      PROVE  PanelFollows'
  <2>1. /\ Active(t) /\ alone' = alone /\ UNCHANGED <<uevent, next>>
        /\ pc[t] \in {"publish", "cancel"} /\ pc'[t] \in {"keep", "erase"}
    BY <1>a, <1>9 DEF PublishNotification, CancelNotification, Goto, Active, threadVars
  <2>2. \A i \in DOMAIN Items(uevent[t]) : Handled(t, i)' <=> Handled(t, i) \/ i = next[t]
    BY <2>1 DEF Handled
  <2>3. ~Handled(t, next[t])
    BY <1>a, <2>1 DEF Handled
  <2>4. Name(t) \in Popup
    BY <1>b, <2>1, ItemIsTyped
  <2>5. \A p \in Popup \ {Name(t)} :
          status'[p] = status[p] /\ (p \in refused' <=> p \in refused)
    BY <1>a, <1>9 DEF PublishNotification, CancelNotification
  <2>6. ASSUME PublishNotification(t), Name(t) \notin refused'
        PROVE  Item(t).action = 0 /\ status'[Name(t)] = "shown"
    <3>1. Publishes(t)
      BY <1>b, <2>6 DEF PublishNotification, ItemsAreKnown
    <3>. QED
      BY <1>a, <2>4, <2>6, <3>1 DEF PublishNotification, Publishes
  <2>7. ASSUME CancelNotification(t), Name(t) \notin refused'
        PROVE  Item(t).action = 1 /\ status'[Name(t)] = "none"
    BY <1>a, <1>b, <2>4, <2>7 DEF CancelNotification, ItemsAreKnown
  <2>. QED
    BY <1>b, <1>9, <2>1, <2>2, <2>3, <2>5, <2>6, <2>7, ItemIsHandled
<1>10. ASSUME NEW p \in Popup, Swipe(p) PROVE PanelFollows'
  <2>1. /\ UNCHANGED <<pc, uevent, next, refused, alone>>
        /\ \A q \in Popup :
             /\ status'[q] = "shown" => status[q] = "shown"
             /\ status'[q] = "none" => status[q] = "none"
    BY <1>a, <1>10 DEF Swipe, threadVars
  <2> SUFFICES ASSUME NEW t \in Thread, alone = t,
                      NEW i \in DOMAIN Items(uevent[t]), LastHandled(t, i)'
               PROVE  Follows(Items(uevent[t])[i])'
    BY <1>b, <2>1 DEF PanelFollows
  <2>2. LastHandled(t, i)
    BY <2>1 DEF LastHandled, Handled
  <2>3. Follows(Items(uevent[t])[i]) /\ Items(uevent[t])[i].name \in Popup
    BY <1>b, <2>2, NamesAreTyped DEF PanelFollows
  <2>4. ASSUME NEW item, item.name \in Popup, Follows(item)
        PROVE  Follows(item)'
    BY <2>1, <2>4 DEF Follows
  <2>5. Items(uevent[t])' = Items(uevent[t])
    BY <2>1
  <2>. QED
    BY <2>3, <2>4, <2>5
<1>11. CASE ChangeLocale \/ UNCHANGED vars
  <2>1. UNCHANGED <<pc, uevent, next, panelVars, alone>>
    BY <1>11 DEF ChangeLocale, vars, threadVars, panelVars
  <2>. QED
    BY <1>b, <2>1, PanelStays DEF Handled
<1>. QED
  BY <1>1, <1>3, <1>6, <1>7, <1>8, <1>9, <1>10, <1>11 DEF Next, Publish, Cancel

-----------------------------------------------------------------------------
(***************************************************************************)
(* The invariant of the runs holds for every set of threads, every         *)
(* configuration and every set of locales, languages and files.            *)
(***************************************************************************)
THEOREM Invariance == Spec => []IInv
<1>1. Init => IInv
  BY InvInit
<1>2. IInv /\ [Next]_vars => IInv'
  <2> SUFFICES ASSUME IInv, [Next]_vars PROVE IInv'
    OBVIOUS
  <2>1. TypeOK /\ ItemsAreKnown /\ MapOK /\ LocaleOK /\ ContentOK
    BY DEF IInv, MapOK, LocaleOK, ContentOK
  <2>2. TypeOK' /\ ItemsAreKnown' /\ MapOK' /\ LocaleOK' /\ ContentOK'
    BY <2>1, TypeNext, ItemsNext, MapNext, LocaleNext, ContentNext
  <2>3. PanelFollows'
    BY PanelNext
  <2>. QED
    BY <2>2, <2>3 DEF IInv, MapOK, LocaleOK, ContentOK
<1>. QED
  BY <1>1, <1>2, PTL DEF Spec

(***************************************************************************)
(* A notification on the panel can be cancelled and its buttons work,      *)
(* however the threads that publish and cancel it interleave.              *)
(***************************************************************************)
THEOREM NobodyIsForgotten == Spec => []ShownIsOwned
<1>1. IInv => ShownIsOwned
  BY DEF IInv
<1>. QED
  BY <1>1, Invariance, PTL

(***************************************************************************)
(* What an undisturbed thread publishes is in the language of the locale,  *)
(* also when the locale, the languages and the strings changed before.     *)
(***************************************************************************)
THEOREM SpeaksTheLocale == Spec => []TextIsLocalised
<1>1. IInv => TextIsLocalised
  BY DEF IInv
<1>. QED
  BY <1>1, Invariance, PTL

(***************************************************************************)
(* When an undisturbed thread is done, the panel is as the last item of    *)
(* its uevent about each notification says, whatever was published,        *)
(* cancelled, refused or swiped away before and between the items.         *)
(***************************************************************************)
THEOREM LastItemDecides == Spec => []LastItemWins
<1>1. IInv => LastItemWins
  <2> SUFFICES ASSUME IInv, NEW t \in Thread, alone = t, pc[t] = "idle",
                      NEW i \in DOMAIN Items(uevent[t]), LastItem(t, i)
               PROVE  Follows(Items(uevent[t])[i])
    BY DEF LastItemWins
  <2>1. LastHandled(t, i)
    BY DEF LastHandled, Handled, LastItem
  <2>. QED
    BY <2>1 DEF IInv, PanelFollows
<1>. QED
  BY <1>1, Invariance, PTL
=============================================================================
