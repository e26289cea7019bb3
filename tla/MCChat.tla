------------------------------- MODULE MCChat -------------------------------
(* Ana's room, Ben who visits it, the moderator, and three requests. *)
EXTENDS Chat, TLC

CONSTANTS ana, ben, root

Ask(op, by) ==
  [op |-> op, by |-> by, title |-> None, topic |-> None, nsfw |-> None, theme |-> None,
   publicity |-> None, password |-> None, status |-> None, files |-> 0]
MCThemesOwned == {ana} \X {"vaporwave", "fight_club"}
Shown == [title |-> "fine", topic |-> "fine", status |-> "active", nsfw |-> FALSE,
          theme |-> "basement", publicity |-> "public", password |-> None]
MCStartRooms ==
  {Shown, [Shown EXCEPT !.publicity = "private", !.password = "old", !.nsfw = TRUE],
   [Shown EXCEPT !.title = "blocked", !.status = "checkout"]}

Send(A, B, C) == {<<a, b, c>> : a \in A, b \in B, c \in C}
Edit(field, value) == [Ask("edit", ana) EXCEPT ![field] = value]
Create(title, publicity) ==
  [Ask("create", ana) EXCEPT !.title = title, !.topic = "mature", !.nsfw = FALSE,
     !.theme = "vaporwave", !.publicity = publicity, !.password = "old"]
SetStatus(s) == [Ask("setStatus", root) EXCEPT !.status = s]
Enter(password) == [Ask("enter", ben) EXCEPT !.password = password]
Private(password) ==
  [Ask("publicity", ana) EXCEPT !.publicity = "private", !.password = password]
Public == [Ask("publicity", ana) EXCEPT !.publicity = "public"]
Say(by, files) == [Ask("send", by) EXCEPT !.files = files]

Creators == Send({Create(title, "public") : title \in Text} \cup {Create("fine", "private")},
                 {Edit("topic", "blocked"), Say(ben, 0)}, {Ask("approve", root)})
            \cup Send({Create("fine", "public")}, {Ask("ban", ana), Ask("indebt", ana)},
                      {Edit("topic", "mature")})
Editors == Send({Edit("title", "blocked"), Edit("topic", "mature")},
                {Edit("topic", "blocked"), Edit("title", "fine"), Edit("theme", "vaporwave")},
                {Ask(op, root) : op \in {"quarantine", "unquarantine", "reject"}}
                  \cup {SetStatus(s) : s \in {"banned", "active"}})
           \cup Send({Ask("delete", ana)}, {Edit("title", "blocked"), Edit("theme", "fight_club")},
                     {Ask("approve", root)})
Visitors == Send({Enter("old"), Enter("new"), Ask("joinRoom", ben)},
                 {Private("new"), Public, Ask("delete", ana)},
                 {Say(ben, 1), Say(ana, 0)})
Fates == Send({Say(ben, 2)}, {Ask(op, ben) : op \in {"ban", "mute", "indebt", "confirmAge"}},
              {Ask("joinRoom", ben), Ask("deleteMessage", root), Ask("quarantine", root),
               Ask("unban", ben), Ask("forgive", ben)})
Listeners == Send({Ask("joinRoom", ben)}, {Say(ana, 1), Say(ben, 1)},
                  {Ask("deleteMessage", root), Private("new"), Ask("delete", ana)})
MCCrowds == Listeners \cup Creators \cup Editors \cup Visitors \cup Fates
=============================================================================
