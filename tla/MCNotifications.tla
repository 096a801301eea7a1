-------------------------- MODULE MCNotifications --------------------------
(***************************************************************************)
(* Two threads (the battery HDI's and one of IPC); a uevent that renews a  *)
(* notification, which is to cancel and to publish it, and one that takes  *)
(* it away (the other notification is not configured, because it follows   *)
(* a bad button); a locale with a language of its own and one that falls   *)
(* back to "base".                                                         *)
(***************************************************************************)
EXTENDS Notifications, TLC

CONSTANTS Hdi, Ipc, Zh, Fr

MCThread == {Hdi, Ipc}
MCPopup == {"start", "end"}
Entry(name, action) == [name |-> name, action |-> action, valid |-> TRUE]

MCPopupConfig ==
  [renewed |-> <<[Entry("end", 1) EXCEPT !.valid = FALSE], Entry("start", 1),
                 Entry("start", 0)>>,
   closed |-> <<Entry("end", 0), Entry("start", 1)>>]

MCNotificationConfig ==
  <<[name |-> "start", text |-> "power", valid |-> "yes",
     unRemovable |-> FALSE, buttons |-> {[name |-> "stop", action |-> "close"],
                                   [name |-> "stop", action |-> "other"]}],
    [name |-> "start", text |-> "title", valid |-> "yes",
     unRemovable |-> FALSE, buttons |-> {}],
    [name |-> "end", text |-> "title", valid |-> "badButton",
     unRemovable |-> FALSE, buttons |-> {}],
    [name |-> "end", text |-> "title", valid |-> "yes",
     unRemovable |-> FALSE, buttons |-> {}]>>

MCLocale == {Zh, Fr}
MCPath == [l \in {Zh} |-> "zh"]
MCMatch == [l \in MCLocale |-> IF l = Zh THEN Zh ELSE None]
MCKey == {"power", "start", "title", "stop"}
MCDefines ==
  [resources |-> {"power", "title"}, resourcesExt |-> {"start", "title", "stop"}]

MCImage == {AnyFile \ {LocalePath},
            AnyFile \ {<<"zh", "resourcesExt">>}}

Symmetry == Permutations(MCThread)
=============================================================================
