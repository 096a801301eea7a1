--------------------------- MODULE Notifications ---------------------------
(***************************************************************************)
(* The notifications a uevent brings up and takes away: BatteryNotify::    *)
(* HandleNotification and the notification library it loads                *)
(* (services/native/notification).                                         *)
(*                                                                         *)
(* The thread of the battery HDI (a uevent that ends in $sendpopup, or a   *)
(* product type) and any number of IPC threads (HandleNotificationInner)   *)
(* run it at once.  The library has two singletons.  NotificationLocale    *)
(* has no lock: its maps and its base name are shared as they are, which   *)
(* is a data race; a step here is one access to one map, and a reader may  *)
(* find it empty or half filled.  (That a torn unordered_map may also      *)
(* crash the service is left out.)  NotificationManager locks its map to   *)
(* cancel and to keep what was published, but publishes without the lock.  *)
(*                                                                         *)
(* The notification panel and the event service that delivers the buttons  *)
(* are external: each call to them may fail, and the code ignores what     *)
(* they return.  A text is represented by the language it is in.           *)
(***************************************************************************)
EXTENDS Integers, Sequences

CONSTANTS
  Thread,              \* the threads that may handle a uevent
  Popup,               \* the names of notifications
  PopupConfig,         \* the "popup" section of the configuration file
  NotificationConfig,  \* the "notification" section, a sequence
  Locale,              \* the locales the system can be set to
  Path,                \* locale_path.json: the language of some locales
  Match,               \* the listed locale the matcher finds for a locale
  Key,                 \* the keys of texts
  Defines,             \* the keys each of the two string files defines
  Image,               \* the sets of files that may exist and parse
  None                 \* no thread, no locale, no text

VARIABLES
  systemLocale,  \* the locale the system is set to
  readable,      \* the files that exist and parse
  languages,     \* islanguageMapInit_
  languageMap,   \* the locales in languageMap_
  baseName,      \* localeBaseName_
  stringMap,     \* stringMap_: the language of each text in it
  pc,            \* the next step of each thread
  uevent,        \* what each thread handles, or was the last to handle
  next,          \* the popup item it is at
  local,         \* its locale in UpdateStringMap
  language,      \* its language in UpdateStringMap
  content,       \* its request_: text and buttons
  object,        \* its batteryNotification: the events it subscribed to
  mapMutex,      \* the thread that holds mapMutex_
  mapped,        \* the names in notificationMap_
  kept,          \* the objects in notificationMap_
  replaced,      \* history: names under which a later object was dropped
  panel,         \* the buttons that each notification on the panel has
  status,        \* whether it is there, or the user swiped it away
  refused,       \* history: popups whose last call the panel refused
  alone,         \* history: the last thread to start, if it was undisturbed
  torn           \* history: the last rebuild of the strings was disturbed

localeVars == <<languages, languageMap, baseName, stringMap, torn>>
threadVars == <<uevent, next, local, language, content, object>>
mapVars == <<mapMutex, mapped, kept, replaced>>
panelVars == <<panel, status, refused>>
systemVars == <<systemLocale, readable>>
vars == <<systemVars, localeVars, pc, threadVars, mapVars, panelVars, alone>>

File == {"resources", "resourcesExt"}
Language == {Path[l] : l \in DOMAIN Path} \cup {"base"}
LocalePath == <<"any", "locale_path">>
AnyFile == {LocalePath} \cup (Language \X File)

(***************************************************************************)
(* The configuration.  An item of "popup" that lacks a name or an action   *)
(* is left out.  A notification is left out if one of its fields is not    *)
(* valid, but a button whose own fields are not valid ends the parsing;    *)
(* the first notification of a name counts.                                *)
(***************************************************************************)
Items(u) == SelectSeq(PopupConfig[u], LAMBDA item : item.valid)

Parsed(i) ==
  /\ NotificationConfig[i].valid = "yes"
  /\ \A j \in 1..i : NotificationConfig[j].valid # "badButton"

Entries(p) ==
  {i \in DOMAIN NotificationConfig : Parsed(i) /\ NotificationConfig[i].name = p}

Configured == {p \in Popup : Entries(p) # {}}

Conf(p) ==
  NotificationConfig[CHOOSE i \in Entries(p) : \A j \in Entries(p) : i <= j]

Item(t) == Items(uevent[t])[next[t]]
Name(t) == Item(t).name

(***************************************************************************)
(* The actions of the three buttons that ButtonDecorator knows: each sets  *)
(* the battery configuration reverse_super_charge.                         *)
(***************************************************************************)
ReverseSuperCharge == {"open", "close", "changeDirection"}

Action == ReverseSuperCharge \cup {"other"}
Text == Language \cup {None}
Form == {"plain", "filled", "start", "raw"}
Content == [text : Text, form : Form, buttons : SUBSET Action]
Object == [subscribed : SUBSET Action, failed : SUBSET Action]

NoContent == [text |-> None, form |-> "plain", buttons |-> {}]
NoObject == [subscribed |-> {}, failed |-> {}]
NoStrings == [k \in Key |-> None]

RebuildLabel == {"store", "language", "clear", "resources", "resourcesExt"}
BusyLabel == {"empty", "fill"} \cup RebuildLabel
Label == {"idle", "parse", "update", "act", "config", "buttons", "publish",
          "keep", "cancel", "erase"} \cup BusyLabel

Active(t) == pc[t] # "idle"

ASSUME NoneAssumption == None \notin Thread \cup Locale \cup Language

ASSUME LocalesAssumption ==
  /\ DOMAIN Path \subseteq Locale
  /\ Match \in [Locale -> Locale \cup {None}]
  /\ {"power", "start"} \subseteq Key
  /\ DOMAIN Defines = File

ASSUME ConfigAssumption ==
  /\ \A u \in DOMAIN PopupConfig :
       Items(u) \in Seq([name : Popup, action : Nat, valid : BOOLEAN])
  /\ \A p \in Configured :
       /\ Conf(p).text \in Key
       /\ Conf(p).buttons \subseteq [name : Key, action : Action]

Init ==
  /\ systemLocale \in Locale
  /\ readable \in Image
  /\ languages = FALSE
  /\ languageMap = {}
  /\ baseName = None
  /\ stringMap = NoStrings
  /\ torn = FALSE
  /\ pc = [t \in Thread |-> "idle"]
  /\ uevent = [t \in Thread |-> None]
  /\ next = [t \in Thread |-> 1]
  /\ local = [t \in Thread |-> None]
  /\ language = [t \in Thread |-> "base"]
  /\ content = [t \in Thread |-> NoContent]
  /\ object = [t \in Thread |-> NoObject]
  /\ mapMutex = None
  /\ mapped = {}
  /\ kept = [p \in Popup |-> NoObject]
  /\ replaced = {}
  /\ panel = [p \in Popup |-> {}]
  /\ status = [p \in Popup |-> "none"]
  /\ refused = {}
  /\ alone = None

Goto(t, label) == pc' = [pc EXCEPT ![t] = label]

(***************************************************************************)
(* BatteryNotify::HandleNotification: a uevent without a configuration is  *)
(* refused before this; the items of one are handled in their order.       *)
(***************************************************************************)
HandleNotification(t, u) ==
  /\ pc[t] = "idle"
  /\ Len(Items(u)) > 0
  /\ Goto(t, "parse")
  /\ uevent' = [x \in Thread |->
                 IF x = t THEN u ELSE IF Active(x) THEN uevent[x] ELSE None]
  /\ next' = [next EXCEPT ![t] = 1]
  /\ alone' = IF \E x \in Thread : Active(x) THEN None ELSE t
  /\ UNCHANGED <<systemVars, localeVars, local, language, content, object,
                 mapVars, panelVars>>

\* With a bug: the loop returns after the first item.
OnlyFirstItem(t) ==
  /\ Goto(t, "idle")
  /\ next' = [next EXCEPT ![t] = 1]
  /\ uevent' = IF alone = t THEN uevent ELSE [uevent EXCEPT ![t] = None]

NextItem(t) ==
  IF next[t] < Len(Items(uevent[t]))
  THEN /\ Goto(t, "parse")
       /\ next' = [next EXCEPT ![t] = @ + 1]
       /\ UNCHANGED uevent
  ELSE /\ Goto(t, "idle")
       /\ next' = [next EXCEPT ![t] = 1]
       /\ uevent' = IF alone = t THEN uevent ELSE [uevent EXCEPT ![t] = None]

(***************************************************************************)
(* NotificationLocale::ParseLocaleCfg: the languages are parsed until that *)
(* succeeds once.                                                          *)
(***************************************************************************)
Disturbs(t) == \E x \in Thread \ {t} : pc[x] \in BusyLabel

ParseLocaleCfg(t) ==
  /\ pc[t] = "parse"
  /\ IF languages
     THEN Goto(t, "update") /\ UNCHANGED torn
     ELSE Goto(t, "empty") /\ torn' = (torn \/ Disturbs(t))
  /\ UNCHANGED <<systemVars, languages, languageMap, baseName, stringMap,
                 threadVars, mapVars, panelVars, alone>>

EmptyLanguageMap(t) ==
  /\ pc[t] = "empty"
  /\ Goto(t, "fill")
  /\ languageMap' = {}
  /\ UNCHANGED <<systemVars, languages, baseName, stringMap, torn, threadVars,
                 mapVars, panelVars, alone>>

FillLanguageMap(t) ==
  /\ pc[t] = "fill"
  /\ Goto(t, "update")
  /\ IF LocalePath \in readable
     THEN languageMap' = DOMAIN Path /\ languages' = TRUE
     ELSE UNCHANGED <<languageMap, languages>>
  /\ UNCHANGED <<systemVars, baseName, stringMap, torn, threadVars, mapVars,
                 panelVars, alone>>

(***************************************************************************)
(* NotificationLocale::UpdateStringMap: if the locale is not the one of    *)
(* the last call, store its name, look up its language, clear the strings  *)
(* and parse the language's two files; a key of the first file is not      *)
(* overwritten by the second.  Two threads may both find a new locale      *)
(* before either stores it, and then both parse its strings.               *)
(***************************************************************************)
CompareLocale(t) ==
  /\ pc[t] = "update"
  /\ IF baseName = systemLocale
     THEN Goto(t, "act") /\ UNCHANGED <<local, torn>>
     ELSE /\ Goto(t, "store")
          /\ local' = [local EXCEPT ![t] = systemLocale]
          /\ torn' = Disturbs(t)
  /\ UNCHANGED <<systemVars, languages, languageMap, baseName, stringMap,
                 uevent, next, language, content, object, mapVars, panelVars,
                 alone>>

StoreBaseName(t) ==
  /\ pc[t] = "store"
  /\ Goto(t, "language")
  /\ baseName' = local[t]
  /\ UNCHANGED <<systemVars, languages, languageMap, stringMap, torn,
                 threadVars, mapVars, panelVars, alone>>

LanguageFor(name, locale, listed) ==
  IF name \in listed THEN Path[name]
  ELSE IF Match[locale] \in listed THEN Path[Match[locale]]
  ELSE "base"

ChooseLanguage(t) ==
  /\ pc[t] = "language"
  /\ Goto(t, "clear")
  /\ language' =
       [language EXCEPT ![t] = LanguageFor(baseName, local[t], languageMap)]
  /\ local' = [local EXCEPT ![t] = None]
  /\ UNCHANGED <<systemVars, localeVars, uevent, next, content, object,
                 mapVars, panelVars, alone>>

\* With a bug: the strings of the last language are not cleared.
KeepStrings(t) ==
  /\ pc[t] = "clear"
  /\ Goto(t, "resources")
  /\ UNCHANGED <<systemVars, localeVars, threadVars, mapVars, panelVars, alone>>

ClearStrings(t) ==
  /\ pc[t] = "clear"
  /\ Goto(t, "resources")
  /\ stringMap' = NoStrings
  /\ UNCHANGED <<systemVars, languages, languageMap, baseName, torn,
                 threadVars, mapVars, panelVars, alone>>

Insert(strings, lang, file) ==
  [k \in Key |->
     IF strings[k] = None /\ k \in Defines[file] /\ <<lang, file>> \in readable
     THEN lang ELSE strings[k]]

ParseStrings(t) ==
  /\ pc[t] \in File
  /\ stringMap' = Insert(stringMap, language[t], pc[t])
  /\ IF pc[t] = "resources"
     THEN Goto(t, "resourcesExt") /\ UNCHANGED language
     ELSE Goto(t, "act") /\ language' = [language EXCEPT ![t] = "base"]
  /\ UNCHANGED <<systemVars, languages, languageMap, baseName, torn, uevent,
                 next, local, content, object, mapVars, panelVars, alone>>

(***************************************************************************)
(* An item to publish a notification that is not configured, or with an    *)
(* unknown action, does nothing.                                           *)
(***************************************************************************)
Publishes(t) == Item(t).action = 0 /\ Name(t) \in Configured

SkipItem(t) ==
  /\ pc[t] = "act"
  /\ ~Publishes(t) /\ Item(t).action # 1
  /\ NextItem(t)
  /\ UNCHANGED <<systemVars, localeVars, local, language, content,
                 object, mapVars, panelVars, alone>>

(***************************************************************************)
(* FillNotificationCfg.  The text "power" needs two readings of the        *)
(* battery's configuration, each a call of the battery service; if one is  *)
(* missing it becomes the text "start", looked up after those calls, and   *)
(* if that is missing too its placeholders stay.                           *)
(***************************************************************************)
Texts(key, strings) ==
  LET Read(k, form) == [text |-> strings[k], form |-> form, buttons |-> {}] IN
  IF key # "power" \/ strings[key] = None THEN {Read(key, "plain")}
  ELSE {Read(key, "filled"),
        IF strings["start"] # None THEN Read("start", "start")
        ELSE Read(key, "raw")}

ButtonsIn(p, strings) ==
  {b.action : b \in {c \in Conf(p).buttons : strings[c.name] # None}}

FillText(t) ==
  /\ pc[t] = "act"
  /\ Publishes(t)
  /\ LET key == Conf(Name(t)).text
         form == IF key = "power" /\ stringMap[key] # None THEN "raw" ELSE "plain"
     IN  /\ Goto(t, IF form = "raw" THEN "config" ELSE "buttons")
         /\ content' = [content EXCEPT ![t] =
              [text |-> stringMap[key], form |-> form, buttons |-> {}]]
  /\ UNCHANGED <<systemVars, localeVars, uevent, next, local, language,
                 object, mapVars, panelVars, alone>>

FillPower(t) ==
  /\ pc[t] = "config"
  /\ Goto(t, "buttons")
  /\ \/ content' = [content EXCEPT ![t].form = "filled"]
     \/ /\ stringMap["start"] # None
        /\ content' = [content EXCEPT ![t] =
             [text |-> stringMap["start"], form |-> "start", buttons |-> {}]]
     \/ stringMap["start"] = None /\ UNCHANGED content
  /\ UNCHANGED <<systemVars, localeVars, uevent, next, local, language,
                 object, mapVars, panelVars, alone>>

FillButtons(t) ==
  /\ pc[t] = "buttons"
  /\ Goto(t, "publish")
  /\ content' =
       [content EXCEPT ![t].buttons = ButtonsIn(Name(t), stringMap)]
  /\ UNCHANGED <<systemVars, localeVars, uevent, next, local, language,
                 object, mapVars, panelVars, alone>>

(***************************************************************************)
(* NotificationManager::PublishNotification: a decorator for each button   *)
(* that has a text, which subscribes to the button's event (the second one *)
(* also makes the first subscribe to it, which adds nothing here); the     *)
(* panel is called outside the lock; what the map has under the name       *)
(* stays, and then the new object dies with its subscriptions.             *)
(***************************************************************************)
CreateButtons(c, failed) ==
  [subscribed |-> (c.buttons \cap ReverseSuperCharge) \ failed,
   failed |-> failed]

PublishNotification(t) ==
  /\ pc[t] = "publish"
  /\ Goto(t, "keep")
  /\ \E failed \in SUBSET (content[t].buttons \cap ReverseSuperCharge) :
       object' = [object EXCEPT ![t] = CreateButtons(content[t], failed)]
  /\ \/ /\ panel' = [panel EXCEPT ![Name(t)] = content[t].buttons]
        /\ status' = [status EXCEPT ![Name(t)] = "shown"]
        /\ refused' = refused \ {Name(t)}
     \/ /\ refused' = refused \cup {Name(t)}
        /\ UNCHANGED <<panel, status>>
  /\ content' = [content EXCEPT ![t] = NoContent]
  /\ UNCHANGED <<systemVars, localeVars, uevent, next, local, language,
                 mapVars, alone>>

\* With a bug: the object is kept without mapMutex_.
KeepWithoutLock(t) ==
  /\ pc[t] = "keep"
  /\ mapped' = mapped \cup {Name(t)}
  /\ kept' = IF Name(t) \in mapped THEN kept
             ELSE [kept EXCEPT ![Name(t)] = object[t]]
  /\ replaced' = IF Name(t) \in mapped THEN replaced \cup {Name(t)} ELSE replaced
  /\ object' = [object EXCEPT ![t] = NoObject]
  /\ NextItem(t)
  /\ UNCHANGED <<systemVars, localeVars, local, language, content,
                 mapMutex, panelVars, alone>>

KeepNotification(t) ==
  /\ pc[t] = "keep"
  /\ mapMutex = None
  /\ mapped' = mapped \cup {Name(t)}
  /\ kept' = IF Name(t) \in mapped THEN kept
             ELSE [kept EXCEPT ![Name(t)] = object[t]]
  /\ replaced' = IF Name(t) \in mapped THEN replaced \cup {Name(t)} ELSE replaced
  /\ object' = [object EXCEPT ![t] = NoObject]
  /\ NextItem(t)
  /\ UNCHANGED <<systemVars, localeVars, local, language, content,
                 mapMutex, panelVars, alone>>

(***************************************************************************)
(* NotificationManager::CancleNotification: only what is in the map is     *)
(* cancelled, and it leaves the map whatever the panel answers.            *)
(***************************************************************************)
FindNotification(t) ==
  /\ pc[t] = "act"
  /\ Item(t).action = 1
  /\ mapMutex = None
  /\ IF Name(t) \in mapped
     THEN Goto(t, "cancel") /\ mapMutex' = t /\ UNCHANGED <<uevent, next>>
     ELSE NextItem(t) /\ UNCHANGED mapMutex
  /\ UNCHANGED <<systemVars, localeVars, local, language, content,
                 object, mapped, kept, replaced, panelVars, alone>>

\* With a bug: mapMutex_ is let go for the call of the panel.
CancelAndUnlock(t) ==
  /\ pc[t] = "cancel"
  /\ Goto(t, "erase")
  /\ panel' = [panel EXCEPT ![Name(t)] = {}]
  /\ status' = [status EXCEPT ![Name(t)] = "none"]
  /\ refused' = refused \ {Name(t)}
  /\ mapMutex' = None
  /\ UNCHANGED <<systemVars, localeVars, threadVars, mapped, kept, replaced,
                 alone>>

CancelNotification(t) ==
  /\ pc[t] = "cancel"
  /\ Goto(t, "erase")
  /\ \/ /\ panel' = [panel EXCEPT ![Name(t)] = {}]
        /\ status' = [status EXCEPT ![Name(t)] = "none"]
        /\ refused' = refused \ {Name(t)}
     \/ /\ refused' = refused \cup {Name(t)}
        /\ UNCHANGED <<panel, status>>
  /\ UNCHANGED <<systemVars, localeVars, threadVars, mapVars, alone>>

EraseNotification(t) ==
  /\ pc[t] = "erase"
  /\ mapped' = mapped \ {Name(t)}
  /\ kept' = [kept EXCEPT ![Name(t)] = NoObject]
  /\ replaced' = replaced \ {Name(t)}
  /\ mapMutex' = None
  /\ NextItem(t)
  /\ UNCHANGED <<systemVars, localeVars, local, language, content,
                 object, panelVars, alone>>

(***************************************************************************)
(* The user sets another language, or swipes away what is not unremovable. *)
(***************************************************************************)
ChangeLocale ==
  /\ systemLocale' \in Locale \ {systemLocale}
  /\ UNCHANGED <<readable, localeVars, pc, threadVars, mapVars, panelVars,
                 alone>>

Swipe(p) ==
  /\ status[p] = "shown" /\ ~Conf(p).unRemovable
  /\ status' = [status EXCEPT ![p] = "swiped"]
  /\ panel' = [panel EXCEPT ![p] = {}]
  /\ UNCHANGED <<systemVars, localeVars, pc, threadVars, mapVars, refused,
                 alone>>

Update(t) ==
  ParseLocaleCfg(t) \/ EmptyLanguageMap(t) \/ FillLanguageMap(t)
  \/ CompareLocale(t) \/ StoreBaseName(t) \/ ChooseLanguage(t)
  \/ ClearStrings(t) \/ ParseStrings(t)

Publish(t) == FillText(t) \/ FillPower(t) \/ FillButtons(t)
              \/ PublishNotification(t) \/ KeepNotification(t)

Cancel(t) ==
  FindNotification(t) \/ CancelNotification(t) \/ EraseNotification(t)

Next ==
  \/ \E t \in Thread :
       \/ \E u \in DOMAIN PopupConfig : HandleNotification(t, u)
       \/ Update(t) \/ SkipItem(t) \/ Publish(t) \/ Cancel(t)
  \/ ChangeLocale
  \/ \E p \in Popup : Swipe(p)

Spec == Init /\ [][Next]_vars

-----------------------------------------------------------------------------
TypeOK ==
  /\ systemLocale \in Locale
  /\ readable \in Image
  /\ languages \in BOOLEAN /\ torn \in BOOLEAN
  /\ languageMap \subseteq DOMAIN Path
  /\ baseName \in Locale \cup {None}
  /\ stringMap \in [Key -> Text]
  /\ pc \in [Thread -> Label]
  /\ uevent \in [Thread -> DOMAIN PopupConfig \cup {None}]
  /\ next \in [Thread -> Nat]
  /\ local \in [Thread -> Locale \cup {None}]
  /\ language \in [Thread -> Language]
  /\ content \in [Thread -> Content]
  /\ object \in [Thread -> Object]
  /\ mapMutex \in Thread \cup {None}
  /\ mapped \subseteq Popup
  /\ kept \in [Popup -> Object]
  /\ replaced \subseteq Popup
  /\ panel \in [Popup -> SUBSET Action]
  /\ status \in [Popup -> {"none", "shown", "swiped"}]
  /\ refused \subseteq Popup
  /\ alone \in Thread \cup {None}

(***************************************************************************)
(* mapMutex_ is held by the thread that cancels, from the moment it finds  *)
(* the notification until it has erased it, and nobody erases it before.   *)
(***************************************************************************)
OneCancels ==
  /\ \A t \in Thread : (mapMutex = t) <=> (pc[t] \in {"cancel", "erase"})
  /\ \A t \in Thread : pc[t] \in {"cancel", "erase"} => Name(t) \in mapped

(***************************************************************************)
(* Whatever the threads do at once, a notification on the panel can be     *)
(* cancelled: it is in notificationMap_, or a thread that published it is  *)
(* about to put it there, unless the panel itself refused the last call.   *)
(* And the buttons on the panel do something when they are pressed: the    *)
(* object in the map, or the one about to go there, subscribed to their    *)
(* events or was refused that by the event service.  This half is lost     *)
(* when a name is published again before it is cancelled: emplace keeps    *)
(* the older object, and buttons that one did not have (the locale of its  *)
(* time lacked their texts) are dead on the panel.  The rest takes that an *)
(* object is kept after it is published, and erased, under the same lock,  *)
(* after it is cancelled.                                                  *)
(***************************************************************************)
Serves(o, p) == panel[p] \cap ReverseSuperCharge \subseteq o.subscribed \cup o.failed

Keeping(p) ==
  \E t \in Thread : pc[t] = "keep" /\ Name(t) = p /\ Serves(object[t], p)

ShownIsOwned ==
  \A p \in Popup : status[p] = "shown" =>
    \/ Keeping(p) \/ p \in refused
    \/ p \in mapped /\ (p \in replaced \/ Serves(kept[p], p))

CancelledIsGone ==
  \A t \in Thread : (pc[t] = "erase" /\ status[Name(t)] = "shown") =>
    Keeping(Name(t)) \/ Name(t) \in refused

(***************************************************************************)
(* What a thread publishes is in the language of the locale: if nobody     *)
(* else handled a uevent while it did, nor while the strings were last     *)
(* parsed, the texts are exactly those that the files of the language      *)
(* have, also after the system went from one locale to another and back.   *)
(***************************************************************************)
Listed == IF LocalePath \in readable THEN DOMAIN Path ELSE {}
LanguageOf(l) == LanguageFor(l, l, Listed)
FirstStringsOf(l) == Insert(NoStrings, LanguageOf(l), "resources")
StringsOf(l) == Insert(FirstStringsOf(l), LanguageOf(l), "resourcesExt")

TextOf(c, p, strings) ==
  [c EXCEPT !.buttons = {}] \in Texts(Conf(p).text, strings)

Localised(c, p) ==
  /\ TextOf(c, p, StringsOf(baseName))
  /\ c.buttons = ButtonsIn(p, StringsOf(baseName))

TextIsLocalised ==
  \A t \in Thread :
    (pc[t] = "publish" /\ alone = t /\ ~torn) => Localised(content[t], Name(t))

(***************************************************************************)
(* Why that holds.  The items: a thread at work is at one of its uevent's. *)
(***************************************************************************)
ItemsAreKnown ==
  \A t \in Thread :
    /\ Active(t) => /\ uevent[t] \in DOMAIN PopupConfig
                    /\ next[t] \in DOMAIN Items(uevent[t])
    /\ pc[t] \in {"config", "buttons", "publish", "keep"} => Publishes(t)
    /\ pc[t] \in {"cancel", "erase"} => Item(t).action = 1

(***************************************************************************)
(* The languages: once parsed they are known to everybody, but for a       *)
(* thread that still empties and fills the map a second time.              *)
(***************************************************************************)
LanguagesAreParsed ==
  /\ languages => LocalePath \in readable
  /\ languages => languageMap = DOMAIN Path \/ \E t \in Thread : pc[t] = "fill"
  /\ LocalePath \notin readable => languageMap = {}
  /\ \A t \in Thread :
       pc[t] \notin {"idle", "parse", "empty", "fill"}
         => (LocalePath \in readable => languages)

BaseNameIsSet ==
  \A t \in Thread :
    /\ pc[t] = "store" => local[t] # None
    /\ pc[t] \notin {"idle", "parse", "empty", "fill", "update", "store"}
         => baseName # None

(***************************************************************************)
(* The strings: if their last parsing was not disturbed, one thread is at  *)
(* it, each step left what the next one needs, and afterwards they are the *)
(* strings of the locale.                                                  *)
(***************************************************************************)
StringsAreParsed ==
  ~torn =>
    /\ \A t, x \in Thread : {pc[t], pc[x]} \subseteq BusyLabel => t = x
    /\ \A t \in Thread :
         /\ pc[t] = "language" => local[t] = baseName /\ languageMap = Listed
         /\ pc[t] \in {"clear", "resources", "resourcesExt"}
              => language[t] = LanguageOf(baseName)
         /\ pc[t] = "resources" => stringMap = NoStrings
         /\ pc[t] = "resourcesExt" => stringMap = FirstStringsOf(baseName)
    /\ (baseName # None /\ \A t \in Thread : pc[t] \notin RebuildLabel)
         => stringMap = StringsOf(baseName)

AloneIsAlone ==
  \A t \in Thread : alone = t => \A x \in Thread \ {t} : ~Active(x)

TextIsFilled ==
  \A t \in Thread : (alone = t /\ ~torn) =>
    /\ pc[t] = "config" =>
         /\ Conf(Name(t)).text = "power"
         /\ content[t] = [text |-> StringsOf(baseName)["power"], form |-> "raw",
                          buttons |-> {}]
         /\ content[t].text # None
    /\ pc[t] = "buttons" => TextOf(content[t], Name(t), StringsOf(baseName))

(***************************************************************************)
(* Of the items that an undisturbed thread has dealt with so far, the last *)
(* one about each notification is what the panel follows, unless the panel *)
(* refused its last call.                                                  *)
(***************************************************************************)
Handled(t, i) ==
  \/ pc[t] = "idle" \/ i < next[t]
  \/ i = next[t] /\ pc[t] \in {"keep", "erase"}

LastHandled(t, i) ==
  /\ Handled(t, i)
  /\ \A j \in DOMAIN Items(uevent[t]) : j > i /\ Handled(t, j) =>
       Items(uevent[t])[j].name # Items(uevent[t])[i].name

Follows(item) ==
  item.name \notin refused =>
    /\ item.action = 1 => status[item.name] # "shown"
    /\ item.action = 0 /\ item.name \in Configured => status[item.name] # "none"

PanelFollows ==
  \A t \in Thread : alone = t =>
    /\ uevent[t] \in DOMAIN PopupConfig
    /\ \A i \in DOMAIN Items(uevent[t]) :
         LastHandled(t, i) => Follows(Items(uevent[t])[i])

IInv ==
  /\ TypeOK /\ ItemsAreKnown /\ OneCancels
  /\ ShownIsOwned /\ CancelledIsGone
  /\ LanguagesAreParsed /\ BaseNameIsSet /\ StringsAreParsed
  /\ AloneIsAlone /\ TextIsFilled /\ TextIsLocalised
  /\ PanelFollows

(***************************************************************************)
(* A thread that nobody disturbs leaves the panel as its items say, the    *)
(* last item about a notification deciding: what it published is there,    *)
(* or was swiped away; what it cancelled is not.  (Two uevents handled at  *)
(* once may leave a mixture of both.)                                      *)
(***************************************************************************)
LastItem(t, i) ==
  \A j \in DOMAIN Items(uevent[t]) :
    j > i => Items(uevent[t])[j].name # Items(uevent[t])[i].name

LastItemWins ==
  \A t \in Thread : (alone = t /\ pc[t] = "idle") =>
    \A i \in DOMAIN Items(uevent[t]) :
      LastItem(t, i) => Follows(Items(uevent[t])[i])
=============================================================================
