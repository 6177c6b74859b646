----------------------------- MODULE RoomProofs ------------------------------
(***************************************************************************)
(* Proofs about a room and its tables, for any users, events, words, trips *)
(* and starts.  An engine knows whom it has read of, however far behind it *)
(* is; a shadow ban that was told is in the table and at the door; the     *)
(* roles of a trip are those that commands granted; the upgrade of an old  *)
(* database loses nothing and opens only what is sound; mail is shown at   *)
(* most once, and the tables of it are true.                               *)
(***************************************************************************)
EXTENDS RoomState, ShadowBans, Identities, SchemaUpgrade, MailDelivery,
        FiniteSetTheorems, SequenceTheorems, WellFoundedInduction, TLAPS

(* The room and the events on their way *)

EventType ==
  [is : {"none", "onlineSet", "onlineAdd", "onlineRemove", "rename", "chat", "whisper"},
   who : Users \union {Nobody}, own : BOOLEAN, users : SUBSET Users,
   says : [is : {"plain", "mention"} \union Commands, of : Nicks \union Tripcodes \union {""}]]

\* No two users of a room have one nick, whatever its case.
OneOfEach(users) == \A u, v \in users : Same(u.name, v.name) => u = v

\* What an engine can know: the users of a room and the bot's nick.
Places == [room : {r \in SUBSET Users : OneOfEach(r)}, nick : Nicks]

\* What a message says of its sender in the room x.
Speaks(x, e) ==
  /\ e.who \in x.room /\ (e.own <=> Same(x.nick, e.who.name))
  /\ e.is = "whisper" => ~e.own

\* The event e leads from the knowledge x to the knowledge y.
Leads(x, e, y) ==
  /\ e \in EventType /\ e.is # "none" /\ (e.is # "onlineSet" => e.who \in Users)
  /\ e.is = "onlineSet" => y.room = e.users /\ y.nick = x.nick
  /\ e.is = "onlineAdd" => /\ y.room = {v \in x.room : v.name # e.who.name} \union {e.who}
                           /\ y.nick = x.nick
  /\ e.is = "onlineRemove" => /\ e.who \in x.room /\ y.room = x.room \ {e.who}
                              /\ y.nick = x.nick
  /\ e.is = "rename" => /\ e.says.of \in Nicks /\ y.room = x.room
                        /\ y.nick = (IF Same(x.nick, e.who.name) THEN e.says.of ELSE x.nick)
  /\ e.is \in {"chat", "whisper"} => y = x /\ Speaks(x, e)

\* The events w lead from x to y, one after the other.
Path(w, x, y, path) ==
  /\ path[1] = x /\ path[Len(w) + 1] = y
  /\ \A i \in 1..Len(w) : Leads(path[i], w[i], path[i + 1])
AllLead(w, x, y) == \E path \in [1..(Len(w) + 1) -> Places] : Path(w, x, y, path)

LEMMA AllLeadOn ==
  ASSUME NEW w \in Seq(EventType), NEW x \in Places, NEW y \in Places, AllLead(w, x, y),
         NEW e \in EventType, NEW z \in Places, Leads(y, e, z)
  PROVE  AllLead(Append(w, e), x, z)
<1>1. PICK path \in [1..(Len(w) + 1) -> Places] : Path(w, x, y, path)
  BY DEF AllLead
<1>2. PICK n \in Nat : n = Len(w)
  OBVIOUS
<1>3. PICK v : v = Append(w, e)
  OBVIOUS
<1>4. Len(v) = n + 1 /\ v[n + 1] = e /\ \A i \in 1..n : v[i] = w[i]
  BY <1>2, <1>3
<1>5. PICK q : q = [i \in 1..(n + 2) |-> IF i = n + 2 THEN z ELSE path[i]]
  OBVIOUS
<1>6. q \in [1..(n + 2) -> Places] /\ q[n + 2] = z /\ \A i \in 1..(n + 1) : q[i] = path[i]
  BY <1>1, <1>2, <1>5
<1>7. q[1] = x /\ q[n + 1] = y
  BY <1>1, <1>2, <1>6 DEF Path
<1>8. ASSUME NEW i \in 1..(n + 1) PROVE Leads(q[i], v[i], q[i + 1])
  <2>1. CASE i = n + 1
    BY <1>4, <1>6, <1>7, <2>1
  <2>2. CASE i # n + 1
    <3>1. i \in 1..n /\ i + 1 \in 1..(n + 1)
      BY <1>2, <2>2
    <3>2. Leads(path[i], w[i], path[i + 1])
      BY <1>1, <1>2, <3>1 DEF Path
    <3> QED BY <1>4, <1>6, <3>1, <3>2
  <2> QED BY <2>1, <2>2
<1>9. Path(v, x, z, q)
  BY <1>4, <1>6, <1>7, <1>8 DEF Path
<1> QED BY <1>3, <1>4, <1>6, <1>9 DEF AllLead

LEMMA FirstLeads ==
  ASSUME NEW w \in Seq(EventType), NEW x \in Places, NEW y \in Places, AllLead(w, x, y), Len(w) > 0
  PROVE  /\ Tail(w) \in Seq(EventType) /\ Head(w) \in EventType
         /\ \E z \in Places : Leads(x, Head(w), z) /\ AllLead(Tail(w), z, y)
<1>1. PICK path \in [1..(Len(w) + 1) -> Places] : Path(w, x, y, path)
  BY DEF AllLead
<1>2. PICK n \in Nat : n + 1 = Len(w)
  <2>1. Len(w) \in Nat /\ Len(w) - 1 \in Nat /\ (Len(w) - 1) + 1 = Len(w)
    OBVIOUS
  <2> QED BY <2>1
<1>3. PICK v : v = Tail(w)
  OBVIOUS
<1>4. /\ v \in Seq(EventType) /\ Len(v) = n /\ Head(w) = w[1] /\ Head(w) \in EventType
      /\ \A i \in 1..n : v[i] = w[i + 1]
  BY <1>2, <1>3
<1>5. PICK q : q = [i \in 1..(n + 1) |-> path[i + 1]]
  OBVIOUS
<1>6. q \in [1..(n + 1) -> Places] /\ \A i \in 1..(n + 1) : q[i] = path[i + 1]
  <2>1. ASSUME NEW i \in 1..(n + 1) PROVE path[i + 1] \in Places
    <3>1. i + 1 \in 1..(Len(w) + 1)
      BY <1>2
    <3> QED BY <1>1, <3>1
  <2> QED BY <1>5, <2>1
<1>7. q[n + 1] = y /\ q[1] = path[2] /\ path[2] \in Places
  BY <1>1, <1>2, <1>6 DEF Path
<1>8. ASSUME NEW i \in 1..n PROVE Leads(q[i], v[i], q[i + 1])
  <2>1. PICK j : j = i + 1
    OBVIOUS
  <2>2. /\ j \in 1..Len(w) /\ i \in 1..(n + 1) /\ j \in 1..(n + 1)
        /\ v[i] = w[j] /\ q[i] = path[j] /\ q[i + 1] = path[j + 1]
    BY <1>2, <1>4, <1>6, <2>1
  <2>3. Leads(path[j], w[j], path[j + 1])
    BY <1>1, <2>2 DEF Path
  <2> QED BY <2>2, <2>3
<1>9. Leads(x, w[1], path[2])
  BY <1>1, <1>2 DEF Path
<1>10. AllLead(v, path[2], y)
  BY <1>4, <1>6, <1>7, <1>8 DEF Path, AllLead
<1> QED BY <1>3, <1>4, <1>7, <1>9, <1>10

LEMMA NothingLeads ==
  ASSUME NEW w \in Seq(EventType), NEW x \in Places, NEW y \in Places, AllLead(w, x, y), w = <<>>
  PROVE  x = y
BY DEF AllLead, Path

-----------------------------------------------------------------------------
Here == [room |-> activeUsers, nick |-> name]
There == [room |-> members, nick |-> self]

\* The engine is behind the server by the events on the wire, and no more.
WireSound ==
  /\ wire \in Seq(EventType) /\ Here \in Places /\ There \in Places /\ Bot \in members
  /\ AllLead(wire, Here, There)

AfkSound ==
  /\ IsFiniteSet(afk)
  /\ afk \subseteq [id : Nat, name : Nicks, trip : Tripcodes \ {NoTripcode}, mention : BOOLEAN]
  /\ \A a, b \in afk : a.id = b.id => a = b
  /\ subscribers \subseteq Tripcodes \ {NoTripcode}
  /\ caller \in {u \in Users : u.trip # NoTripcode} \union {Nobody}

\* The handlers that only messages of others reach.
OfOthers == {"mail", "back", "mentions", "extras", "participation", "dispatch",
             "convert", "auditWhisper", "whisper"}

EventSound ==
  /\ event \in EventType /\ author \in {Nobody, event.who}
  /\ event.is = "none" => handler = "idle" /\ author = Nobody
  /\ event.is # "none" => event.is \in {"chat", "whisper"} /\ event.who \in Users /\ Speaks(Here, event)
  /\ handler \in OfOthers => ~event.own

EffectSound(e) ==
  /\ e.did \in {"moderate", "afk", "turn"} /\ e.as # Nobody => e.as = e.by
  /\ e.did = "ignored" => e.own
  /\ e.did \in {"moderate", "afk", "turn", "back"} => ~e.own

RoomInv == WireSound /\ AfkSound /\ EventSound /\ \A e \in effects : EffectSound(e)

-----------------------------------------------------------------------------
LEMMA NobodyIsNoUser == Nobody \notin Users /\ \A u \in Users : u.name # ""
BY RoomAssumption DEF Nobody, Users

LEMMA TheNamed ==
  ASSUME Here \in Places, NEW u \in activeUsers
  PROVE  ActiveNamed(u.name) = {u}
<1>1. activeUsers \subseteq Users /\ OneOfEach(activeUsers)
  BY DEF Here, Places
<1>2. u.name # "" /\ u.name \in Nicks
  BY <1>1, NobodyIsNoUser DEF Users
<1>3. Same(u.name, u.name)
  BY <1>2 DEF Same
<1> QED BY <1>1, <1>3 DEF ActiveNamed, OneOfEach

\* What the server does reaches the wire in order.
LEMMA ServerKeeps ==
  ASSUME RoomInv, Joins \/ Leaves \/ ChangesNick \/ Says
  PROVE  RoomInv'
<1>1. WireSound /\ Here \in Places /\ There \in Places /\ wire \in Seq(EventType)
  BY DEF RoomInv, WireSound
<1>2. UNCHANGED <<activeUsers, name, afk, subscribers, event, handler, author, effects, caller>>
  BY DEF Joins, Leaves, ChangesNick, Says, Announces, engine, agent
<1>3. AfkSound' /\ EventSound' /\ (\A e \in effects : EffectSound(e))' /\ Here' = Here
  BY <1>2 DEF RoomInv, AfkSound, EventSound, Here, EffectSound, Speaks
<1>4. members \subseteq Users /\ OneOfEach(members) /\ self \in Nicks /\ Bot \in members
      /\ NoEvent \in EventType
  BY <1>1 DEF WireSound, There, Places, NoEvent, EventType, Commands
<1>5. WireSound'
  <2>1. CASE Joins
    <3>1. PICK u \in Users : /\ Free(u.name) /\ members' = members \union {u} /\ self' = self
                             /\ wire' = wire \o <<Event("onlineAdd", u)>>
      BY <2>1 DEF Joins, Announces
    <3>2. PICK e : e = Event("onlineAdd", u)
      OBVIOUS
    <3>3. e \in EventType /\ e.is = "onlineAdd" /\ e.who = u
      BY <1>4, <3>2 DEF Event, EventType
    <3>4. wire' = Append(wire, e)
      BY <1>1, <3>1, <3>2
    <3>5. OneOfEach(members') /\ {v \in members : v.name # u.name} = members
      BY <1>4, <3>1, NobodyIsNoUser DEF OneOfEach, Free, Same
    <3>6. There' \in Places /\ There'.room = members' /\ There'.nick = self
          /\ There.room = members /\ There.nick = self
      BY <1>4, <3>1, <3>5 DEF There, Places
    <3>7. Leads(There, e, There')
      BY <3>1, <3>3, <3>5, <3>6 DEF Leads
    <3>8. AllLead(Append(wire, e), Here, There')
      BY <1>1, <3>3, <3>6, <3>7, AllLeadOn DEF WireSound
    <3>9. Bot' \in members'
      BY <1>4, <3>1 DEF Bot
    <3>10. Append(wire, e) \in Seq(EventType)
      BY <1>1, <3>3
    <3> QED BY <1>1, <1>3, <3>4, <3>6, <3>8, <3>9, <3>10 DEF WireSound
  <2>2. CASE Leaves
    <3>1. PICK u \in members \ {Bot} : /\ members' = members \ {u} /\ self' = self
                             /\ wire' = wire \o <<Event("onlineRemove", u)>>
      BY <2>2 DEF Leaves, Announces
    <3>2. PICK e : e = Event("onlineRemove", u)
      OBVIOUS
    <3>3. e \in EventType /\ e.is = "onlineRemove" /\ e.who = u
      BY <1>4, <3>1, <3>2 DEF Event, EventType
    <3>4. wire' = Append(wire, e)
      BY <1>1, <3>1, <3>2
    <3>5. OneOfEach(members')
      BY <1>4, <3>1 DEF OneOfEach
    <3>6. There' \in Places /\ There'.room = members' /\ There'.nick = self
          /\ There.room = members /\ There.nick = self
      BY <1>4, <3>1, <3>5 DEF There, Places
    <3>7. Leads(There, e, There')
      BY <1>4, <3>1, <3>3, <3>5, <3>6 DEF Leads
    <3>8. AllLead(Append(wire, e), Here, There')
      BY <1>1, <3>3, <3>6, <3>7, AllLeadOn DEF WireSound
    <3>9. Bot' \in members'
      BY <1>4, <3>1 DEF Bot
    <3>10. Append(wire, e) \in Seq(EventType)
      BY <1>1, <3>3
    <3> QED BY <1>1, <1>3, <3>4, <3>6, <3>8, <3>9, <3>10 DEF WireSound
  <2>3. CASE ChangesNick
    <3>0. PICK u \in members, n \in Nicks :
            LET v == [u EXCEPT !.name = n] IN
            /\ \A w \in members \ {u} : ~Same(w.name, n)
            /\ n # u.name
            /\ members' = (members \ {u}) \union {v}
            /\ self' = IF u = Bot THEN n ELSE self
            /\ Announces(<<Event("onlineRemove", u), Event("onlineAdd", v),
                           [Event("rename", u) EXCEPT !.says.of = n]>>)
      BY <2>3 DEF ChangesNick
    <3>1. PICK v : v = [u EXCEPT !.name = n]
      OBVIOUS
    <3>2. PICK e1 : e1 = Event("onlineRemove", u)
      OBVIOUS
    <3>3. PICK e2 : e2 = Event("onlineAdd", v)
      OBVIOUS
    <3>4. PICK e3 : e3 = [Event("rename", u) EXCEPT !.says.of = n]
      OBVIOUS
    <3>5. /\ \A w \in members \ {u} : ~Same(w.name, n)
          /\ members' = (members \ {u}) \union {v}
          /\ self' = (IF u = Bot THEN n ELSE self) /\ wire' = wire \o <<e1, e2, e3>>
      BY <3>0, <3>1, <3>2, <3>3, <3>4 DEF Announces
    <3>6. u \in Users /\ v \in Users /\ v.name = n /\ v.trip = u.trip
      BY <1>4, <3>1 DEF Users
    <3>7. /\ e1 \in EventType /\ e1.is = "onlineRemove" /\ e1.who = u
          /\ e2 \in EventType /\ e2.is = "onlineAdd" /\ e2.who = v
      BY <1>4, <3>2, <3>3, <3>6 DEF Event, EventType
    <3>8. e3 \in EventType /\ e3.is = "rename" /\ e3.who = u /\ e3.says.of = n
      BY <1>4, <3>4, <3>6 DEF Event, EventType, NoEvent
    <3>9. PICK r : r = members \ {u}
      OBVIOUS
    <3>10. /\ r \subseteq Users /\ OneOfEach(r) /\ {w \in r : w.name # n} = r
           /\ members' = r \union {v} /\ OneOfEach(members') /\ members' \subseteq Users
      BY <1>4, <3>5, <3>6, <3>9, NobodyIsNoUser DEF OneOfEach, Same
    <3>11. PICK y \in Places : y.room = r /\ y.nick = self
      <4>1. [room |-> r, nick |-> self] \in Places
        BY <1>4, <3>10 DEF Places
      <4> QED BY <4>1
    <3>12. PICK z \in Places : z.room = members' /\ z.nick = self
      <4>1. [room |-> members', nick |-> self] \in Places
        BY <1>4, <3>10 DEF Places
      <4> QED BY <4>1
    <3>13. There' \in Places /\ There'.room = members' /\ There'.nick = self'
           /\ There.room = members /\ There.nick = self
      BY <1>4, <3>5, <3>10 DEF There, Places
    <3>14. Leads(There, e1, y)
      BY <3>6, <3>7, <3>9, <3>11, <3>13 DEF Leads
    <3>15. Leads(y, e2, z)
      BY <3>6, <3>7, <3>10, <3>11, <3>12 DEF Leads
    <3>16. Same(self, u.name) <=> u = Bot
      <4>1. Bot.name = self /\ Bot \in Users
        BY <1>4 DEF Bot
      <4> QED BY <1>4, <4>1, NobodyIsNoUser DEF OneOfEach, Same
    <3>17. Leads(z, e3, There')
      BY <3>5, <3>6, <3>8, <3>12, <3>13, <3>16 DEF Leads
    <3>18. PICK w1 \in Seq(EventType) : w1 = Append(wire, e1)
      <4>1. Append(wire, e1) \in Seq(EventType)
        BY <1>1, <3>7
      <4> QED BY <4>1
    <3>19. PICK w2 \in Seq(EventType) : w2 = Append(w1, e2)
      <4>1. Append(w1, e2) \in Seq(EventType)
        BY <3>7, <3>18
      <4> QED BY <4>1
    <3>20. PICK w3 \in Seq(EventType) : w3 = Append(w2, e3)
      <4>1. Append(w2, e3) \in Seq(EventType)
        BY <3>8, <3>19
      <4> QED BY <4>1
    <3>21. AllLead(w1, Here, y)
      BY <1>1, <3>7, <3>11, <3>14, <3>18, AllLeadOn DEF WireSound
    <3>22. AllLead(w2, Here, z)
      BY <1>1, <3>7, <3>11, <3>12, <3>15, <3>18, <3>19, <3>21, AllLeadOn
    <3>23. AllLead(w3, Here, There')
      BY <1>1, <3>8, <3>12, <3>13, <3>17, <3>19, <3>20, <3>22, AllLeadOn
    <3>24. wire' = w3
      BY <1>1, <3>5, <3>7, <3>8, <3>18, <3>19, <3>20
    <3>25. Bot' \in members'
      BY <1>4, <3>1, <3>5 DEF Bot
    <3> QED BY <1>1, <1>3, <3>13, <3>20, <3>23, <3>24, <3>25 DEF WireSound
  <2>4. CASE Says
    <3>1. PICK u \in members, s \in Sayings, kind \in {"chat", "whisper"} :
            /\ (u # Bot \/ kind = "chat") /\ members' = members /\ self' = self
            /\ wire' = wire \o <<[Event(kind, u) EXCEPT !.says = s]>>
      BY <2>4 DEF Says, Announces
    <3>2. PICK e : e = [Event(kind, u) EXCEPT !.says = s]
      OBVIOUS
    <3>3. s \in [is : {"plain", "mention"} \union Commands, of : Nicks \union Tripcodes \union {""}]
      BY <3>1, RoomAssumption DEF Sayings
    <3>4. u \in Users
      BY <1>4
    <3>5. e \in EventType /\ e.is = kind /\ e.who = u /\ (e.own <=> u = Bot)
      BY <1>4, <3>2, <3>3, <3>4 DEF Event, EventType
    <3>6. wire' = Append(wire, e)
      BY <1>1, <3>1, <3>2
    <3>7. Same(self, u.name) <=> u = Bot
      <4>1. Bot.name = self /\ Bot \in Users
        BY <1>4 DEF Bot
      <4> QED BY <1>4, <4>1, NobodyIsNoUser DEF OneOfEach, Same
    <3>8. There' = There /\ There.room = members /\ There.nick = self
      BY <3>1 DEF There
    <3>9. Leads(There, e, There)
      BY <3>1, <3>4, <3>5, <3>7, <3>8 DEF Leads, Speaks
    <3>10. AllLead(Append(wire, e), Here, There)
      BY <1>1, <3>5, <3>9, AllLeadOn DEF WireSound
    <3>11. Bot' \in members'
      BY <1>4, <3>1 DEF Bot
    <3>12. Append(wire, e) \in Seq(EventType)
      BY <1>1, <3>5
    <3> QED BY <1>1, <1>3, <3>6, <3>8, <3>10, <3>11, <3>12 DEF WireSound
  <2> QED BY <2>1, <2>2, <2>3, <2>4
<1> QED BY <1>3, <1>5 DEF RoomInv

-----------------------------------------------------------------------------
LEMMA ImageIsFinite ==
  ASSUME NEW S, IsFiniteSet(S), NEW T, NEW f \in [S -> T], T = {f[x] : x \in S}
  PROVE  IsFiniteSet(T) /\ Cardinality(T) <= Cardinality(S)
<1>1. f \in Surjection(S, T)
  BY DEF Surjection
<1> QED BY <1>1, FS_Surjection

\* The listeners.  What they do to the state of the engine is what the event
\* leads to.
LEMMA TakenLeads ==
  ASSUME RoomInv, NEW y \in Places, Len(wire) > 0, wire' = Tail(wire), UNCHANGED <<members, self>>,
         Here' = y, \A z \in Places : Leads(Here, Head(wire), z) => z = y
  PROVE  WireSound'
<1>1. WireSound
  BY DEF RoomInv
<1>2. PICK z \in Places : Leads(Here, Head(wire), z) /\ AllLead(Tail(wire), z, There)
  BY <1>1, FirstLeads DEF WireSound
<1>3. z = y /\ Tail(wire) \in Seq(EventType)
  BY <1>1, <1>2, FirstLeads DEF WireSound
<1>4. There' = There /\ Bot' = Bot
  BY DEF There, Bot
<1> QED BY <1>1, <1>2, <1>3, <1>4 DEF WireSound

LEMMA ListenersKeep ==
  ASSUME RoomInv, OnlineSet \/ UserJoined \/ UserLeft \/ Renamed
  PROVE  RoomInv'
<1>1. WireSound /\ Here \in Places /\ EventSound /\ AfkSound
  BY DEF RoomInv, WireSound
<1>2. /\ event.is = "none" /\ Len(wire) > 0 /\ wire' = Tail(wire)
      /\ UNCHANGED <<members, self, event, handler, author, caller, subscribers>>
  BY DEF OnlineSet, UserJoined, UserLeft, Renamed, Takes, Took, agent
<1>3. PICK h : h = Head(wire)
  OBVIOUS
<1>4. PICK z \in Places : Leads(Here, h, z)
  BY <1>1, <1>2, <1>3, FirstLeads DEF WireSound
<1>5. EventSound'
  BY <1>1, <1>2 DEF EventSound
<1>6. \A e \in effects' : EffectSound(e)'
  BY DEF EffectSound, OnlineSet, UserJoined, UserLeft, Renamed
<1>7. Here.room = activeUsers /\ Here.nick = name /\ Here'.room = activeUsers' /\ Here'.nick = name'
      /\ \A z1, z2 \in Places : z1.room = z2.room /\ z1.nick = z2.nick => z1 = z2
  BY DEF Here, Places
<1>8. ASSUME Here'.room = z.room, Here'.nick = z.nick,
             \A z1 \in Places : Leads(Here, h, z1) => z1.room = z.room /\ z1.nick = z.nick
      PROVE  WireSound'
  <2>1. Here' = [room |-> Here'.room, nick |-> Here'.nick]
    BY DEF Here
  <2>2. z = [room |-> z.room, nick |-> z.nick]
    BY <1>4 DEF Places
  <2>3. Here' = z
    BY <1>8, <2>1, <2>2
  <2> QED BY <1>2, <1>3, <1>4, <1>7, <1>8, <2>3, TakenLeads
<1>9. CASE OnlineSet
  <2>1. h.is = "onlineSet" /\ activeUsers' = h.users /\ name' = name /\ afk' = afk
    BY <1>3, <1>9 DEF OnlineSet, Takes, ReplaceActiveUsers
  <2>2. WireSound'
    BY <1>4, <1>7, <1>8, <2>1 DEF Leads
  <2>3. AfkSound'
    BY <1>1, <1>2, <2>1 DEF AfkSound
  <2> QED BY <1>5, <1>6, <2>2, <2>3 DEF RoomInv
<1>10. CASE UserJoined
  <2>1. /\ h.is = "onlineAdd" /\ name' = name /\ afk' = afk
        /\ activeUsers' = {v \in activeUsers : v.name # h.who.name} \union {h.who}
    BY <1>3, <1>10 DEF UserJoined, Takes, AddActiveUser
  <2>2. WireSound'
    BY <1>4, <1>7, <1>8, <2>1 DEF Leads
  <2>3. AfkSound'
    BY <1>1, <1>2, <2>1 DEF AfkSound
  <2> QED BY <1>5, <1>6, <2>2, <2>3 DEF RoomInv
<1>11. CASE UserLeft
  <2>1. h.is = "onlineRemove" /\ name' = name /\ afk' = afk
    BY <1>3, <1>11 DEF UserLeft, Takes
  <2>2. h.who \in activeUsers
    BY <1>4, <1>7, <2>1 DEF Leads
  <2>3. ActiveNamed(h.who.name) = {h.who}
    BY <1>1, <2>2, TheNamed
  <2>4. activeUsers' = activeUsers \ {h.who}
    BY <1>3, <1>11, <2>3 DEF UserLeft
  <2>5. WireSound'
    BY <1>4, <1>7, <1>8, <2>1, <2>4 DEF Leads
  <2>6. AfkSound'
    BY <1>1, <1>2, <2>1 DEF AfkSound
  <2> QED BY <1>5, <1>6, <2>5, <2>6 DEF RoomInv
<1>12. CASE Renamed
  <2>1. /\ h.is = "rename" /\ name' = (IF Same(name, h.who.name) THEN h.says.of ELSE name)
        /\ activeUsers' = activeUsers /\ RenameAfkUser(h.who.name, h.says.of)
    BY <1>3, <1>12 DEF Renamed, Takes
  <2>2. WireSound'
    BY <1>4, <1>7, <1>8, <2>1 DEF Leads
  <2>3. h.says.of \in Nicks
    BY <1>4, <2>1 DEF Leads
  <2>4. PICK after : after = [a \in afk |-> IF Same(a.name, h.who.name)
                                             THEN [a EXCEPT !.name = h.says.of] ELSE a]
    OBVIOUS
  <2>5. afk' = {after[a] : a \in afk}
    BY <2>1, <2>4 DEF RenameAfkUser
  <2>6. \A a \in afk : /\ after[a].id = a.id
                      /\ after[a] \in [id : Nat, name : Nicks, trip : Tripcodes \ {NoTripcode}, mention : BOOLEAN]
    BY <1>1, <2>3, <2>4 DEF AfkSound
  <2>7. IsFiniteSet(afk')
    <3>1. after \in [afk -> afk'] /\ IsFiniteSet(afk)
      BY <1>1, <2>4, <2>5 DEF AfkSound
    <3> QED BY <2>5, <3>1, ImageIsFinite
  <2>8. AfkSound'
    BY <1>1, <1>2, <2>5, <2>6, <2>7 DEF AfkSound
  <2> QED BY <1>5, <1>6, <2>2, <2>8 DEF RoomInv
<1> QED BY <1>9, <1>10, <1>11, <1>12

-----------------------------------------------------------------------------
\* A new entry of those away has an id of its own.
LEMMA NewIdIsFree ==
  ASSUME AfkSound
  PROVE  NewId \in Nat /\ \A a \in afk : a.id # NewId
<1>1. PICK n \in Nat : n = Cardinality(afk)
  BY FS_CardinalityType DEF AfkSound
<1>2. PICK ids : ids = {a.id : a \in afk}
  OBVIOUS
<1>3. IsFiniteSet(ids) /\ Cardinality(ids) <= n
  <2>1. PICK f : f = [a \in afk |-> a.id]
    OBVIOUS
  <2>2. f \in [afk -> ids] /\ ids = {f[a] : a \in afk}
    BY <1>2, <2>1
  <2> QED BY <1>1, <2>2, ImageIsFinite DEF AfkSound
<1>4. Cardinality(1..(n + 1)) = n + 1
  BY FS_Interval
<1>5. ~(1..(n + 1) \subseteq ids)
  <2>1. SUFFICES ASSUME 1..(n + 1) \subseteq ids PROVE FALSE
    OBVIOUS
  <2>2. Cardinality(1..(n + 1)) <= Cardinality(ids)
    BY <1>3, <2>1, FS_Subset
  <2>3. Cardinality(ids) \in Nat
    BY <1>3, FS_CardinalityType
  <2> QED BY <1>3, <1>4, <2>2, <2>3
<1>6. \E i \in 1..(Cardinality(afk) + 1) : \A a \in afk : a.id # i
  BY <1>1, <1>2, <1>5
<1>7. NewId \in 1..(Cardinality(afk) + 1) /\ \A a \in afk : a.id # NewId
  BY <1>6 DEF NewId
<1> QED BY <1>1, <1>7

LEMMA AddingKeeps ==
  ASSUME AfkSound, NEW u \in Users, u.trip # NoTripcode, AddAfkUser(u),
         subscribers' \subseteq Tripcodes \ {NoTripcode},
         caller' \in {v \in Users : v.trip # NoTripcode} \union {Nobody}
  PROVE  AfkSound'
<1>1. NewId \in Nat /\ \A a \in afk : a.id # NewId
  BY NewIdIsFree
<1>2. PICK k \in Nat : k = NewId
  BY <1>1
<1>3. PICK a : a = [id |-> k, name |-> u.name, trip |-> u.trip, mention |-> FALSE]
  OBVIOUS
<1>4. afk' = {b \in afk : b.name # u.name} \union {a}
  BY <1>2, <1>3 DEF AddAfkUser
<1>5. /\ a.id = k
      /\ a \in [id : Nat, name : Nicks, trip : Tripcodes \ {NoTripcode}, mention : BOOLEAN]
  BY <1>3 DEF Users
<1>6. IsFiniteSet(afk')
  <2>1. IsFiniteSet({b \in afk : b.name # u.name})
    BY FS_Subset DEF AfkSound
  <2> QED BY <1>4, <2>1, FS_AddElement
<1> QED BY <1>1, <1>2, <1>4, <1>5, <1>6 DEF AfkSound

\* The chain of a message.
LEMMA TheAuthor ==
  ASSUME RoomInv, event.is # "none", author # Nobody
  PROVE  author = event.who /\ author \in activeUsers /\ author \in Users
<1>1. event.who \in Here.room /\ author = event.who /\ event.who \in Users
  BY DEF RoomInv, EventSound, Speaks
<1> QED BY <1>1 DEF Here

\* The listeners of a message, each in its turn.
LEMMA ChainKeeps ==
  ASSUME RoomInv, ChatArrives \/ Chain
  PROVE  RoomInv'
<1>1. WireSound /\ AfkSound /\ EventSound /\ \A e \in effects : EffectSound(e)
  BY DEF RoomInv
<1>2. UNCHANGED <<members, self, activeUsers, name, caller>>
  BY DEF ChatArrives, Chain, Interrupted, ResolveUserMetadata, AuditChatMessage, IgnoreBotMessage,
         DeliverPendingMail, RemoveIfAfk, NotifyAfkIfMentioned, Extras, AgentParticipation,
         ConvertWhisper, AuditWhisperCommand, DispatchUserCommand, DispatchWhisperCommand, Audited,
         Executed, Inside, server, agent, engine
<1>3. Here' = Here /\ There' = There /\ Bot' = Bot
  BY <1>2 DEF Here, There, Bot
<1>4. CASE ChatArrives
  <2>1. PICK kind \in {"chat", "whisper"} :
          /\ event.is = "none" /\ Len(wire) > 0 /\ Head(wire).is = kind
          /\ event' = Head(wire) /\ wire' = Tail(wire) /\ effects' = {}
          /\ handler' = IF kind = "chat" THEN "resolve" ELSE "convert"
          /\ UNCHANGED <<afk, subscribers, author>>
    BY <1>4 DEF ChatArrives, Takes, engine
  <2>2. PICK h : h = Head(wire)
    OBVIOUS
  <2>3. PICK z \in Places : Leads(Here, h, z)
    BY <1>1, <2>1, <2>2, FirstLeads DEF WireSound
  <2>4. h \in EventType /\ h.is = kind /\ z = Here /\ Speaks(Here, h) /\ h.who \in Users
    BY <2>1, <2>2, <2>3 DEF Leads
  <2>5. WireSound'
    <3>1. \A z1 \in Places : Leads(Here, h, z1) => z1 = Here
      BY <2>4 DEF Leads
    <3> QED BY <1>1, <1>2, <1>3, <2>1, <2>2, <3>1, TakenLeads DEF WireSound
  <2>6. EventSound'
    <3>1. event' = h /\ author' = Nobody /\ handler' \in {"resolve", "convert"}
          /\ (handler' = "convert" => h.is = "whisper")
      BY <1>1, <2>1, <2>2, <2>4 DEF EventSound
    <3>2. handler' \in OfOthers => ~h.own
      BY <2>4, <3>1 DEF OfOthers, Speaks
    <3>3. Speaks(Here', event')
      BY <1>3, <2>4, <3>1
    <3>4. Speaks(Here, event)'
      BY <3>3 DEF Speaks
    <3> QED BY <2>1, <2>4, <3>1, <3>2, <3>4 DEF EventSound
  <2>7. AfkSound'
    BY <1>1, <1>2, <2>1 DEF AfkSound
  <2> QED BY <2>1, <2>5, <2>6, <2>7 DEF RoomInv
<1>5. CASE Chain
  <2>1. wire' = wire /\ handler # "idle"
    BY <1>5 DEF Chain, Interrupted, ResolveUserMetadata, AuditChatMessage, IgnoreBotMessage,
         DeliverPendingMail, RemoveIfAfk, NotifyAfkIfMentioned, Extras, AgentParticipation,
         ConvertWhisper, AuditWhisperCommand, DispatchUserCommand, DispatchWhisperCommand, Audited,
         Executed, Inside, server, At
  <2>2. WireSound'
    BY <1>1, <1>2, <1>3, <2>1 DEF WireSound
  <2>3. event.is # "none" /\ event.is \in {"chat", "whisper"} /\ event.who \in Users /\ Speaks(Here, event)
        /\ event \in EventType /\ author \in {Nobody, event.who} /\ (handler \in OfOthers => ~event.own)
    BY <1>1, <2>1 DEF EventSound
  <2>4. event.who \in activeUsers /\ (event.own <=> Same(name, event.who.name))
    BY <2>3 DEF Speaks, Here
  <2>5. ActiveNamed(event.who.name) = {event.who}
    BY <1>1, <2>4, TheNamed DEF WireSound
  <2>6. NoEvent \in EventType /\ NoEvent.is = "none"
    BY DEF NoEvent, EventType, Commands
  <2>7. ASSUME Handled PROVE EventSound'
    BY <2>6, <2>7 DEF Handled, EventSound, OfOthers
  <2>8. ASSUME NEW h, Passes(h), h \in OfOthers => ~event.own PROVE EventSound'
    <3>1. Speaks(Here, event)'
      BY <1>3, <2>3, <2>8 DEF Speaks, Passes
    <3> QED BY <2>3, <2>8, <3>1 DEF Passes, EventSound
  <2>9. ASSUME NEW what \in {"ignored", "back", "turn", "moderate", "afk"}, Did(what),
               what = "ignored" => event.own, what # "ignored" => ~event.own
        PROVE  \A e \in effects' : EffectSound(e)'
    <3>1. PICK f : f = [did |-> what, by |-> event.who, own |-> event.own, as |-> author]
      OBVIOUS
    <3>2. EffectSound(f)
      BY <2>3, <2>9, <3>1 DEF EffectSound
    <3>3. effects' = effects \union {f}
      BY <2>9, <3>1 DEF Did
    <3> QED BY <1>1, <3>2, <3>3 DEF EffectSound
  <2>10. ASSUME UNCHANGED effects PROVE \A e \in effects' : EffectSound(e)'
    BY <1>1, <2>10 DEF EffectSound
  <2>11. ASSUME UNCHANGED <<afk, subscribers>> PROVE AfkSound'
    BY <1>1, <1>2, <2>11 DEF AfkSound
  <2>12. CASE Interrupted \/ AuditChatMessage \/ IgnoreBotMessage \/ DeliverPendingMail \/ Extras
              \/ AgentParticipation \/ AuditWhisperCommand
    <3>1. AfkSound'
      BY <2>11, <2>12 DEF Interrupted, AuditChatMessage, IgnoreBotMessage, DeliverPendingMail, Extras,
            AgentParticipation, AuditWhisperCommand, Audited, engine
    <3>2. EventSound'
      BY <2>3, <2>4, <2>7, <2>8, <2>12 DEF Interrupted, AuditChatMessage, IgnoreBotMessage,
            DeliverPendingMail, Extras, AgentParticipation, AuditWhisperCommand, Audited, At, OfOthers
    <3>3. \A e \in effects' : EffectSound(e)'
      BY <2>3, <2>4, <2>9, <2>10, <2>12 DEF Interrupted, AuditChatMessage, IgnoreBotMessage,
            DeliverPendingMail, Extras, AgentParticipation, AuditWhisperCommand, Audited, At, OfOthers, Quiet
    <3> QED BY <2>2, <3>1, <3>2, <3>3 DEF RoomInv
  <2>13. CASE ResolveUserMetadata
    <3>1. handler' = "audit" /\ author' = event.who /\ UNCHANGED <<event, afk, subscribers, effects>>
      BY <2>5, <2>13 DEF ResolveUserMetadata, Quiet, engine
    <3>2. Speaks(Here, event)'
      BY <1>3, <2>3, <3>1 DEF Speaks
    <3>3. EventSound'
      BY <2>3, <3>1, <3>2 DEF EventSound, OfOthers
    <3> QED BY <2>2, <2>10, <2>11, <3>1, <3>3 DEF RoomInv
  <2>14. CASE ConvertWhisper
    <3>1. UNCHANGED <<afk, subscribers, effects>> /\ ~event.own
      BY <2>3, <2>14 DEF ConvertWhisper, Quiet, engine, At, OfOthers
    <3>2. author' = event.who /\ UNCHANGED event
      BY <2>5, <2>14 DEF ConvertWhisper
    <3>3. Speaks(Here, event)'
      BY <1>3, <2>3, <3>2 DEF Speaks
    <3>4. EventSound'
      BY <2>3, <3>1, <3>2, <3>3 DEF EventSound
    <3> QED BY <2>2, <2>10, <2>11, <3>1, <3>4 DEF RoomInv
  <2>15. CASE RemoveIfAfk
    <3>1. EventSound'
      BY <2>3, <2>8, <2>15 DEF RemoveIfAfk, At, OfOthers
    <3>2. \A e \in effects' : EffectSound(e)'
      BY <2>3, <2>9, <2>10, <2>15 DEF RemoveIfAfk, At, OfOthers, Quiet
    <3>3. afk' \subseteq afk /\ subscribers' = subscribers
      BY <2>15 DEF RemoveIfAfk
    <3>4. IsFiniteSet(afk')
      BY <1>1, <3>3, FS_Subset DEF AfkSound
    <3>5. AfkSound'
      BY <1>1, <1>2, <3>3, <3>4 DEF AfkSound
    <3> QED BY <2>2, <3>1, <3>2, <3>5 DEF RoomInv
  <2>16. CASE NotifyAfkIfMentioned
    <3>1. EventSound'
      BY <2>3, <2>8, <2>16 DEF NotifyAfkIfMentioned, At, OfOthers
    <3>2. UNCHANGED <<effects, subscribers>>
      BY <2>16 DEF NotifyAfkIfMentioned, Quiet
    <3>3. PICK after : after = [a \in afk |-> [a EXCEPT !.mention = a.mention \/ Mentions(a)]]
      OBVIOUS
    <3>4. afk' = {after[a] : a \in afk}
      BY <2>16, <3>3 DEF NotifyAfkIfMentioned
    <3>5. \A a \in afk : /\ after[a].id = a.id
                        /\ after[a] \in [id : Nat, name : Nicks, trip : Tripcodes \ {NoTripcode}, mention : BOOLEAN]
      BY <1>1, <3>3 DEF AfkSound
    <3>6. IsFiniteSet(afk')
      <4>1. after \in [afk -> afk'] /\ IsFiniteSet(afk)
        BY <1>1, <3>3, <3>4 DEF AfkSound
      <4> QED BY <3>4, <4>1, ImageIsFinite
    <3>7. AfkSound'
      BY <1>1, <1>2, <3>2, <3>4, <3>5, <3>6 DEF AfkSound
    <3> QED BY <2>2, <2>10, <3>1, <3>2, <3>7 DEF RoomInv
  <2>17. CASE DispatchUserCommand \/ DispatchWhisperCommand
    <3>1. Executed /\ ~event.own
      BY <2>3, <2>17 DEF DispatchUserCommand, DispatchWhisperCommand, At, OfOthers
    <3>2. EventSound'
      BY <2>7, <3>1 DEF Executed
    <3>3. \A e \in effects' : EffectSound(e)'
      BY <2>9, <2>10, <3>1 DEF Executed, Afk, Subscribe, Moderate, Quiet
    <3>4. AfkSound'
      <4>1. CASE UNCHANGED <<afk, subscribers>>
        BY <2>11, <4>1
      <4>2. CASE Authorized /\ Afk
        <5>1. subscribers' = subscribers
          BY <4>2 DEF Afk
        <5>2. CASE TripOfMessage # NoTripcode /\ author.trip = TripOfMessage
          <6>1. author \in Users
            BY <1>1, <2>3, <4>2, TheAuthor DEF RoomInv, Authorized, Known
          <6>2. AddAfkUser(author)
            BY <4>2, <5>2 DEF Afk
          <6>3. subscribers' \subseteq Tripcodes \ {NoTripcode}
                /\ caller' \in {v \in Users : v.trip # NoTripcode} \union {Nobody}
            BY <1>1, <1>2, <5>1 DEF AfkSound
          <6> QED BY <1>1, <5>2, <6>1, <6>2, <6>3, AddingKeeps
        <5>3. CASE ~(TripOfMessage # NoTripcode /\ author.trip = TripOfMessage)
          BY <2>11, <4>2, <5>1, <5>3 DEF Afk
        <5> QED BY <5>2, <5>3
      <4>3. CASE Authorized /\ Subscribe
        <5>1. author \in Users
          BY <1>1, <2>3, <4>3, TheAuthor DEF RoomInv, Authorized, Known
        <5>2. TripOfMessage \in Tripcodes
          BY <2>3, <5>1 DEF TripOfMessage, Users
        <5>3. afk' = afk /\ subscribers' \subseteq Tripcodes \ {NoTripcode}
          BY <1>1, <4>3, <5>2 DEF Subscribe, SubscribeTrip, UnsubscribeTrip, AfkSound
        <5> QED BY <1>1, <1>2, <5>3 DEF AfkSound
      <4> QED BY <3>1, <4>1, <4>2, <4>3 DEF Executed, Moderate
    <3> QED BY <2>2, <3>2, <3>3, <3>4 DEF RoomInv
  <2> QED BY <1>5, <2>12, <2>13, <2>14, <2>15, <2>16, <2>17 DEF Chain
<1> QED BY <1>4, <1>5

LEMMA AgentKeeps ==
  ASSUME RoomInv, AgentVerifies \/ AgentMarks
  PROVE  RoomInv'
<1>1. UNCHANGED <<members, self, wire, activeUsers, name, subscribers, event, handler, author, effects>>
  BY DEF AgentVerifies, AgentMarks, server, engine
<1>2. WireSound' /\ EventSound' /\ \A e \in effects' : EffectSound(e)'
  <2>1. Here' = Here /\ There' = There /\ Bot' = Bot
    BY <1>1 DEF Here, There, Bot
  <2> QED BY <1>1, <2>1 DEF RoomInv, WireSound, EventSound, EffectSound, Speaks
<1>3. AfkSound /\ activeUsers \subseteq Users
  BY DEF RoomInv, WireSound, Here, Places
<1>4. CASE AgentVerifies
  <2>1. afk' = afk /\ caller' \in {u \in activeUsers : u.trip # NoTripcode}
    BY <1>4 DEF AgentVerifies, engine
  <2>2. AfkSound'
    BY <1>1, <1>3, <2>1 DEF AfkSound
  <2> QED BY <1>2, <2>2 DEF RoomInv
<1>5. CASE AgentMarks
  <2>1. /\ caller \in Users /\ caller.trip # NoTripcode /\ AddAfkUser(caller) /\ caller' = Nobody
        /\ subscribers' \subseteq Tripcodes \ {NoTripcode}
    BY <1>1, <1>3, <1>5 DEF AgentMarks, AfkSound
  <2>2. AfkSound'
    BY <1>3, <2>1, AddingKeeps
  <2> QED BY <1>2, <2>2 DEF RoomInv
<1> QED BY <1>4, <1>5

-----------------------------------------------------------------------------
LEMMA RoomInitially == RoomInit => RoomInv
<1> SUFFICES ASSUME RoomInit PROVE RoomInv
  OBVIOUS
<1>1. PICK others \in SUBSET {u \in Users : Fold[u.name] # Fold[BotNick]} :
        /\ \A u, v \in others : u # v => ~Same(u.name, v.name)
        /\ members = others \union {[name |-> BotNick, trip |-> NoTripcode]}
  BY DEF RoomInit
<1>2. /\ self = BotNick /\ activeUsers = {} /\ name = BotNick
      /\ wire = <<[NoEvent EXCEPT !.is = "onlineSet", !.users = members]>>
  BY DEF RoomInit
<1>3. PICK b : b = [name |-> BotNick, trip |-> NoTripcode]
  OBVIOUS
<1>4. b \in Users /\ b.name = BotNick /\ b = Bot /\ BotNick \in Nicks
  BY <1>2, <1>3, RoomAssumption DEF Users, Bot
<1>5. members \subseteq Users /\ OneOfEach(members) /\ Bot \in members
  <2>1. members = others \union {b} /\ others \subseteq Users
    BY <1>1, <1>3
  <2>2. \A u \in others : Fold[u.name] # Fold[b.name]
    BY <1>1, <1>4
  <2>3. OneOfEach(members)
    BY <1>1, <2>1, <2>2 DEF OneOfEach, Same
  <2> QED BY <1>4, <2>1, <2>3
<1>6. Here \in Places /\ There \in Places /\ Here.nick = There.nick /\ There.room = members
  BY <1>2, <1>4, <1>5 DEF Here, There, Places, OneOfEach
<1>7. PICK e : e = [NoEvent EXCEPT !.is = "onlineSet", !.users = members]
  OBVIOUS
<1>8. e \in EventType /\ e.is = "onlineSet" /\ e.users = members
  BY <1>5, <1>7 DEF NoEvent, EventType, Commands
<1>9. Leads(Here, e, There)
  BY <1>6, <1>8 DEF Leads
<1>10. AllLead(<<>>, Here, Here)
  <2>1. PICK path : path = [i \in 1..1 |-> Here]
    OBVIOUS
  <2>2. path \in [1..(Len(<<>>) + 1) -> Places] /\ Path(<<>>, Here, Here, path)
    BY <1>6, <2>1 DEF Path
  <2> QED BY <2>2 DEF AllLead
<1>11. wire = Append(<<>>, e)
  BY <1>2, <1>7
<1>12. AllLead(wire, Here, There)
  <2>1. PICK w \in Seq(EventType) : w = <<>>
    <3>1. <<>> \in Seq(EventType)
      OBVIOUS
    <3> QED BY <3>1
  <2>2. AllLead(w, Here, Here)
    BY <1>10, <2>1
  <2>3. AllLead(Append(w, e), Here, There)
    BY <1>6, <1>8, <1>9, <2>1, <2>2, AllLeadOn
  <2> QED BY <1>11, <2>1, <2>3
<1>13. WireSound
  BY <1>5, <1>6, <1>8, <1>11, <1>12 DEF WireSound
<1>14. AfkSound
  BY FS_EmptySet DEF RoomInit, AfkSound
<1>15. EventSound
  BY DEF RoomInit, EventSound, NoEvent, EventType, Commands, OfOthers
<1> QED BY <1>13, <1>14, <1>15 DEF RoomInit, RoomInv

LEMMA RoomStep == RoomInv /\ [RoomNext]_roomVars => RoomInv'
<1> SUFFICES ASSUME RoomInv, [RoomNext]_roomVars PROVE RoomInv'
  OBVIOUS
<1>1. CASE UNCHANGED roomVars
  <2>1. UNCHANGED <<members, self, wire, activeUsers, name, afk, subscribers, event, handler, author,
                    effects, caller>>
    BY <1>1 DEF roomVars
  <2>2. Here' = Here /\ There' = There /\ Bot' = Bot
    BY <2>1 DEF Here, There, Bot
  <2> QED BY <2>1, <2>2 DEF RoomInv, WireSound, AfkSound, EventSound, EffectSound, Speaks
<1>2. CASE RoomNext
  BY <1>2, ServerKeeps, ListenersKeep, ChainKeeps, AgentKeeps DEF RoomNext, Server, Listeners
<1> QED BY <1>1, <1>2

(* However far the engine is behind the server, and whatever joins, leaves,  *)
(* changes of nick and commands there are: once it has read every event, its *)
(* active users are those in the room; a command and a turn have the         *)
(* authority of the one who sent the message; the bot ignores itself and     *)
(* nobody else (engine_impl.go, user_left_listener.go, info_listener.go,     *)
(* user_chat_listener.go).                                                   *)
THEOREM RoomsAreKnown == RoomSpec => []RoomIsKnown
<1>1. RoomInv => RoomIsKnown
  <2> SUFFICES ASSUME RoomInv PROVE RoomIsKnown
    OBVIOUS
  <2>1. WireSound /\ AfkSound /\ EventSound /\ \A e \in effects : EffectSound(e)
    BY DEF RoomInv
  <2>2. members \subseteq Users /\ activeUsers \subseteq Users /\ name \in Nicks /\ self \in Nicks
    BY <2>1 DEF WireSound, Here, There, Places
  <2>3. author \in activeUsers \union {Nobody}
    <3>1. CASE event.is = "none"
      BY <2>1, <3>1 DEF EventSound
    <3>2. CASE event.is # "none"
      BY <3>2, TheAuthor
    <3> QED BY <3>1, <3>2
  <2>4. RoomTypeOK
    BY <2>1, <2>2, <2>3 DEF RoomTypeOK, AfkSound
  <2>5. RoomIsFollowed
    <3> SUFFICES ASSUME wire = <<>> PROVE activeUsers = members
      BY DEF RoomIsFollowed
    <3>1. Here = There
      BY <2>1, NothingLeads DEF WireSound
    <3> QED BY <3>1 DEF Here, There
  <2>6. CommandsAreTheirs /\ OnlyItselfIsIgnored
    BY <2>1 DEF CommandsAreTheirs, OnlyItselfIsIgnored, EffectSound
  <2> QED BY <2>4, <2>5, <2>6 DEF RoomIsKnown
<1>2. RoomSpec => []RoomInv
  BY RoomInitially, RoomStep, PTL DEF RoomSpec
<1> QED BY <1>1, <1>2, PTL

-----------------------------------------------------------------------------
(* Shadow bans *)

Rows == People \union {[NoPerson EXCEPT !.name = n] : n \in Tokens}

Task == [command : {"none", "shadowban", "kick", "unshadowban"},
         next : {"idle", "save", "kick", "reply", "done"}, todo : Seq(Rows),
         over : BOOLEAN, absent : BOOLEAN, committed : BOOLEAN, meant : SUBSET People,
         changed : SUBSET Rows, kicked : SUBSET Tokens,
         answer : {"none", "success", "failed"}]

\* The users a command still has to work through.
Awaited(t) == {t.todo[i] : i \in DOMAIN t.todo}

\* A command under way: whoever is meant is done or still to do, and the user
\* in hand is recorded before he is kicked.
Underway(t) ==
  /\ t.answer = "none"
  /\ t.next \in {"save", "kick"} => t.todo # <<>>
  /\ \A p \in t.meant : p.name \in t.kicked \/ p \in Awaited(t)
  /\ t.command = "shadowban" => \A p \in t.meant : p \in t.changed \/ p \in Awaited(t)
  /\ t.command = "shadowban" /\ t.next = "kick" => t.todo[1] \in t.changed
  /\ t.next \in {"reply", "done"} => t.todo = <<>> \/ t.meant = {}
  /\ t.command = "unshadowban" => t.next = "reply" /\ t.changed # {}
  /\ t.command = "kick" => t.next \in {"kick", "done"} /\ ~t.absent
  /\ t.absent => t.meant = {}

\* What the properties ask of one command.
Whole(t) ==
  t.answer = "success" =>
      /\ \A p \in t.meant : p.name \in t.kicked
      /\ t.command = "shadowban" => t.meant \subseteq t.changed
      /\ t.command = "unshadowban" => t.changed # {}
Recorded1(t) ==
  t.command = "shadowban" => \A n \in t.kicked : \E b \in t.changed : b.name = n
Told(t) == t.committed <=> t.changed # {}

TaskSound(t) ==
  /\ t \in Task
  /\ t.next # "idle" => Underway(t)
  /\ t.next = "idle" => Whole(t)
  /\ Recorded1(t) /\ Told(t)

Testable(b, p) ==
  \/ b.name = p.name
  \/ b.trip = p.trip /\ p.trip # ""
  \/ b.hash = p.hash /\ p.hash # ""

\* The room: names are apart, and what stood since somebody joined still stands.
DoorSound ==
  /\ roster \subseteq People /\ arriving \in roster \union {NoPerson}
  /\ \A p, q \in roster : p # q => p.name # q.name
  /\ kickRequests \subseteq Names /\ slipped \subseteq roster
  /\ banRecords \subseteq Rows /\ standing \in [People -> SUBSET banRecords]
  /\ \A p \in roster \ {arriving} :
        (\E b \in standing[p] : Testable(b, p)) => p.name \in kickRequests \/ p \in slipped

BansInv ==
  /\ DoorSound
  /\ DOMAIN tasks = Runners /\ \A r \in Runners : TaskSound(tasks[r])

-----------------------------------------------------------------------------
(* Facts about the people and the commands *)

LEMMA NamesAreWords ==
  /\ \A p \in People : p.name \in Tokens /\ p.name # ""
  /\ \A b \in Rows : b.name \in Tokens
  /\ NoPerson \notin People /\ People \subseteq Rows
<1>1. \A p \in People : p.name \in Tokens /\ p.name # ""
  BY BansAssumption DEF Names
<1>2. \A n \in Tokens : [NoPerson EXCEPT !.name = n].name = n
  BY DEF NoPerson
<1>3. NoPerson \notin People
  BY <1>1 DEF NoPerson
<1> QED BY <1>1, <1>2, <1>3 DEF Rows

LEMMA EmptyTail ==
  ASSUME NEW S, NEW s \in Seq(S), s # <<>>
  PROVE  Tail(s) # <<>> <=> Len(s) > 1
<1>1. Tail(s) \in Seq(S) /\ Len(Tail(s)) = Len(s) - 1
  BY HeadTailProperties
<1>2. Len(s) \in Nat
  BY LenProperties
<1>3. CASE Tail(s) = <<>>
  <2>1. Len(Tail(s)) = 0
    BY <1>3, EmptySeq
  <2>2. ~(Len(s) > 1)
    <3>1. PICK n \in Nat : n = Len(s)
      BY <1>2
    <3>2. n - 1 = 0
      BY <1>1, <2>1, <3>1
    <3>3. ~(n > 1)
      BY <3>2
    <3> QED BY <3>1, <3>3
  <2> QED BY <1>3, <2>2
<1>4. CASE Tail(s) # <<>>
  <2>1. Len(Tail(s)) \in Nat \ {0}
    BY <1>1, <1>4, EmptySeq
  <2>2. Len(s) > 1
    BY <1>1, <1>2, <2>1
  <2> QED BY <1>4, <2>2
<1> QED BY <1>3, <1>4

LEMMA IdleIsSound ==
  ASSUME NEW c \in {"shadowban", "kick", "unshadowban"}, NEW a \in {"none", "failed"}
  PROVE  TaskSound([Idle EXCEPT !.command = c, !.answer = a]) /\ TaskSound(Idle)
<1>1. <<>> \in Seq(Rows)
  OBVIOUS
<1> QED BY <1>1 DEF TaskSound, Task, Idle, Whole, Recorded1, Told

\* A command that ends in a failure promises nothing.
LEMMA FailureIsSound ==
  ASSUME NEW r \in Runners, TaskSound(tasks[r])
  PROVE  TaskSound(Answer(r, "failed"))
<1>1. <<>> \in Seq(Rows)
  OBVIOUS
<1> QED BY <1>1 DEF TaskSound, Task, Answer, Whole, Recorded1, Told

LEMMA SuccessIsSound ==
  ASSUME NEW r \in Runners, TaskSound(tasks[r]), tasks[r].next \in {"reply", "done"}
  PROVE  TaskSound(Answer(r, "success"))
<1>1. <<>> \in Seq(Rows)
  OBVIOUS
<1>2. Underway(tasks[r])
  BY DEF TaskSound
<1>3. Awaited(tasks[r]) = {} \/ tasks[r].meant = {}
  BY <1>2 DEF Underway, Awaited
<1>4. Answer(r, "success") \in Task
  BY <1>1 DEF TaskSound, Task, Answer
<1>5. Whole(Answer(r, "success"))
  BY <1>2, <1>3, <1>4 DEF TaskSound, Task, Answer, Whole, Underway
<1> QED BY <1>4, <1>5 DEF TaskSound, Task, Answer, Recorded1, Told

\* The words of a selection mean exactly whom the lookup finds.
LEMMA FoundIsMeant ==
  ASSUME NEW s, s = NotASelection \/ s.mode # "contains" \/ DOMAIN s.words = {1}
  PROVE  Meant(s) = Found(s)
<1>1. CASE s.mode = "contains" /\ DOMAIN s.words = {1}
  BY <1>1 DEF Meant, Found
<1>2. CASE s.mode # "contains"
  <2>1. Found(s) = UNION {ByName(Bare[s.words[i]]) : i \in DOMAIN s.words}
    BY <1>2 DEF Found
  <2>2. \A p \in roster : p \in Found(s) <=>
           \E i \in DOMAIN s.words : SameName(p.name, Bare[s.words[i]])
    BY <2>1 DEF ByName
  <2>3. Found(s) \subseteq roster
    BY <2>1 DEF ByName
  <2> QED BY <2>2, <2>3, <1>2 DEF Meant
<1>3. CASE s = NotASelection
  BY <1>2, <1>3 DEF NotASelection
<1> QED BY <1>1, <1>2, <1>3

LEMMA ParsedIsPlain ==
  ASSUME NEW line \in Lines, NEW command
  PROVE  LET s == Parsed(command, line) IN
           s = NotASelection \/ s.mode # "contains" \/ DOMAIN s.words = {1}
<1>1. line \in Seq(Tokens)
  BY BansAssumption
<1>2. LET s == ParseShadowBan(line) IN
         s = NotASelection \/ s.mode # "contains" \/ DOMAIN s.words = {1}
  <2>1. CASE Len(line) = 1 /\ line[1] # "-c"
    BY <2>1, <1>1 DEF ParseShadowBan, NotASelection
  <2>2. CASE Len(line) = 2 /\ line[1] = "-c" /\ line[2] # "-c"
    BY <2>2, <1>1 DEF ParseShadowBan, NotASelection
  <2>3. CASE ~(Len(line) = 1 /\ line[1] # "-c") /\ ~(Len(line) = 2 /\ line[1] = "-c" /\ line[2] # "-c")
    BY <2>3, <1>1 DEF ParseShadowBan, NotASelection
  <2> QED BY <2>1, <2>2, <2>3
<1>3. LET s == ParseKick(line) IN
         s = NotASelection \/ s.mode # "contains" \/ DOMAIN s.words = {1}
  <2>1. CASE line = <<>>
    BY <2>1 DEF ParseKick, NotASelection
  <2>2. CASE line # <<>> /\ line[1] = "-m"
    BY <2>2 DEF ParseKick, NotASelection
  <2>3. CASE line # <<>> /\ line[1] = "-c"
    <3>1. Tail(line) \in Seq(Tokens) /\ Len(Tail(line)) = Len(line) - 1
      BY <1>1, <2>3, HeadTailProperties
    <3>2. DOMAIN Tail(line) = 1..Len(Tail(line)) /\ Len(line) \in Nat
      BY <1>1, <3>1, LenProperties
    <3>3. ASSUME Len(line) = 2 PROVE DOMAIN Tail(line) = {1}
      <4>1. Len(Tail(line)) = 1
        BY <3>1, <3>3
      <4>2. DOMAIN Tail(line) = 1..1
        BY <3>2, <4>1
      <4> QED BY <4>2
    <3> QED BY <2>3, <3>3 DEF ParseKick, NotASelection
  <2>4. CASE line # <<>> /\ line[1] # "-m" /\ line[1] # "-c"
    BY <2>4 DEF ParseKick, NotASelection
  <2> QED BY <2>1, <2>2, <2>3, <2>4
<1> QED BY <1>2, <1>3 DEF Parsed, Readable

-----------------------------------------------------------------------------
(* The steps *)

LEMMA BansInitially == BansInit => BansInv
<1> SUFFICES ASSUME BansInit PROVE BansInv
  OBVIOUS
<1>1. \A p, q \in roster : p # q => p.name # q.name
  BY DEF BansInit, SameName
<1>2. DoorSound
  BY <1>1, NamesAreWords DEF BansInit, DoorSound, Rows
<1>3. TaskSound(Idle)
  BY IdleIsSound
<1> QED BY <1>2, <1>3 DEF BansInit, BansInv

\* Steps of the commands that leave the room and the records alone.
LEMMA OnlyTasks ==
  ASSUME BansInv, NEW r \in Runners, NEW t, tasks' = [tasks EXCEPT ![r] = t],
         TaskSound(t), UNCHANGED <<roster, arriving, banRecords, kickRequests, standing, slipped>>
  PROVE  BansInv'
<1>1. DoorSound'
  BY DEF BansInv, DoorSound, Testable
<1>2. DOMAIN tasks' = Runners /\ \A q \in Runners : tasks'[q] = IF q = r THEN t ELSE tasks[q]
  BY DEF BansInv
<1>3. ASSUME NEW q \in Runners PROVE TaskSound(tasks'[q])
  BY <1>2 DEF BansInv
<1> QED BY <1>1, <1>2, <1>3 DEF BansInv

LEMMA SelectKeeps ==
  ASSUME BansInv, NEW r \in Runners, NEW line \in Lines, NEW command \in {"shadowban", "kick"},
         Select(r, command, line)
  PROVE  BansInv'
<1> DEFINE users == Found(Parsed(command, line))
<1>1. PICK order \in Orders(users) : tasks' = [tasks EXCEPT ![r] = [Idle EXCEPT
           !.command = command, !.todo = order, !.next = FirstStep(command),
           !.meant = Meant(Parsed(command, line))]]
  BY DEF Select
<1>2. Meant(Parsed(command, line)) = users
  BY FoundIsMeant, ParsedIsPlain
<1>3. users # {} /\ users \subseteq roster
  <2>1. Meant(Parsed(command, line)) \subseteq roster
    BY DEF Meant
  <2> QED BY <1>2, <2>1 DEF Select
<1>4. users \subseteq People /\ IsFiniteSet(users)
  BY <1>3, BansAssumption, FS_Subset DEF BansInv, DoorSound
<1>5. Cardinality(users) \in Nat /\ Cardinality(users) # 0
  BY <1>3, <1>4, FS_CardinalityType, FS_EmptySet
<1>6. order \in Seq(Rows) /\ order # <<>> /\ {order[i] : i \in DOMAIN order} = users
  <2>1. order \in [1..Cardinality(users) -> users] /\ {order[i] : i \in DOMAIN order} = users
    BY DEF Orders
  <2>2. order \in [1..Cardinality(users) -> Rows]
    BY <2>1, <1>4, NamesAreWords
  <2>3. order \in Seq(Rows)
    BY <2>2, <1>5
  <2>4. order # <<>>
    BY <2>1, <1>5
  <2> QED BY <2>1, <2>3, <2>4
<1> HIDE DEF users
<1>7. PICK t : t = [Idle EXCEPT !.command = command, !.todo = order, !.next = FirstStep(command),
                                !.meant = users]
  OBVIOUS
<1>8. t.command = command /\ t.todo = order /\ t.next = FirstStep(command) /\ t.meant = users
      /\ t.changed = {} /\ t.kicked = {} /\ t.answer = "none" /\ ~t.committed /\ ~t.absent
  BY <1>7 DEF Idle
<1>9. t \in Task
  BY <1>4, <1>6, <1>7 DEF Task, Idle, FirstStep
<1>10. Underway(t)
  BY <1>6, <1>8 DEF Underway, Awaited, FirstStep
<1>11. TaskSound(t)
  BY <1>8, <1>9, <1>10 DEF TaskSound, Recorded1, Told, FirstStep
<1> QED BY <1>1, <1>2, <1>7, <1>11, OnlyTasks DEF Select, Starts, users

LEMMA SelectAbsentKeeps ==
  ASSUME BansInv, NEW r \in Runners, NEW line \in Lines, SelectAbsent(r, line)
  PROVE  BansInv'
<1>1. Meant(Parsed("shadowban", line)) = {}
  BY FoundIsMeant, ParsedIsPlain DEF SelectAbsent
<1>2. PICK person : person = [NoPerson EXCEPT !.name = Bare[line[1]]]
  OBVIOUS
<1>3. person \in Rows
  <2>1. line \in Seq(Tokens)
    BY BansAssumption
  <2>2. Parsed("shadowban", line) = ParseShadowBan(line)
    BY DEF SelectAbsent, Parsed, Readable, NotASelection
  <2>3. Len(line) = 1 /\ Parsed("shadowban", line) = [mode |-> "exact", words |-> line]
    <3>1. ParseShadowBan(line).mode = "exact"
      BY <2>2 DEF SelectAbsent
    <3> QED BY <3>1, <2>2 DEF ParseShadowBan, NotASelection
  <2>4. DOMAIN line = {1} /\ line[1] \in Tokens
    <3>1. DOMAIN line = 1..1
      BY <2>1, <2>3, LenProperties
    <3> QED BY <2>1, <3>1, ElementOfSeq, <2>3
  <2>5. ParseShadowBan(line).mode = "exact" /\ ParseShadowBan(line).words = line
    BY <2>2, <2>3
  <2>6. Bare[line[1]] # ""
    <3>1. Parsed("shadowban", line) = Readable(ParseShadowBan(line))
      BY DEF Parsed
    <3>2. ASSUME Bare[line[1]] = "" PROVE FALSE
      <4>1. Readable(ParseShadowBan(line)) = NotASelection
        BY <2>4, <2>5, <3>2 DEF Readable
      <4> QED BY <3>1, <4>1, <2>3 DEF NotASelection
    <3> QED BY <3>2
  <2>7. Bare[line[1]] \in Tokens
    BY <2>4, <2>6, BansAssumption
  <2> QED BY <1>2, <2>7 DEF Rows
<1>4. PICK t : t = [Idle EXCEPT !.command = "shadowban", !.next = "save", !.absent = TRUE,
                                !.todo = <<person>>, !.meant = {}]
  OBVIOUS
<1>5. t.command = "shadowban" /\ t.todo = <<person>> /\ t.next = "save" /\ t.meant = {}
      /\ t.changed = {} /\ t.kicked = {} /\ t.answer = "none" /\ ~t.committed
  BY <1>4 DEF Idle
<1>6. <<person>> \in Seq(Rows) /\ <<person>> # <<>>
  BY <1>3
<1>7. t \in Task
  BY <1>4, <1>6 DEF Task, Idle
<1>8. TaskSound(t)
  BY <1>5, <1>6, <1>7 DEF TaskSound, Underway, Recorded1, Told
<1> QED BY <1>1, <1>2, <1>4, <1>8, OnlyTasks DEF SelectAbsent, Starts

LEMMA SaveKeeps ==
  ASSUME BansInv, NEW r \in Runners, Save(r)
  PROVE  BansInv'
<1> DEFINE t == tasks[r]
<1>1. t \in Task /\ t.next = "save" /\ Underway(t) /\ Recorded1(t)
  BY DEF Save, BansInv, TaskSound
<1>2. PICK user : user = Head(t.todo)
  OBVIOUS
<1>3. t.todo \in Seq(Rows) /\ t.todo # <<>>
  BY <1>1 DEF Task, Underway
<1>4. user \in Rows /\ user = t.todo[1]
  BY <1>2, <1>3, HeadTailProperties
<1>5. banRecords' = banRecords \union {user}
  BY <1>2 DEF Save, Recorded
<1>6. DoorSound'
  <2>1. banRecords' \subseteq Rows /\ banRecords \subseteq banRecords'
    BY <1>4, <1>5 DEF BansInv, DoorSound
  <2>2. standing' \in [People -> SUBSET banRecords']
    BY <2>1 DEF BansInv, DoorSound, Save
  <2> QED BY <2>1, <2>2 DEF BansInv, DoorSound, Save, Testable
<1>7. PICK u : u = AfterSave(t, user)
  OBVIOUS
<1>8. u.command = t.command /\ u.todo = t.todo /\ u.meant = t.meant /\ u.kicked = t.kicked
      /\ u.absent = t.absent /\ u.answer = t.answer /\ u.changed = t.changed \union {user}
      /\ u.next = (IF t.absent THEN "reply" ELSE "kick") /\ u.committed = TRUE
  BY <1>1, <1>7 DEF AfterSave, Committed, Task
<1>9. u \in Task
  BY <1>1, <1>4, <1>7 DEF AfterSave, Committed, Task
<1>10. t.command # "unshadowban"
  BY <1>1 DEF Underway
<1>11. Underway(u)
  BY <1>1, <1>3, <1>4, <1>8, <1>10 DEF Underway, Awaited, Task
<1>12. TaskSound(u)
  BY <1>1, <1>8, <1>9, <1>11 DEF TaskSound, Recorded1, Told
<1>13. tasks' = [tasks EXCEPT ![r] = u]
  BY <1>2, <1>7 DEF Save
<1>14. ASSUME NEW q \in Runners PROVE TaskSound(tasks'[q])
  BY <1>12, <1>13 DEF BansInv
<1> QED BY <1>6, <1>13, <1>14 DEF BansInv

LEMMA KickKeeps ==
  ASSUME BansInv, NEW r \in Runners, Kick(r)
  PROVE  BansInv'
<1> DEFINE t == tasks[r]
<1>1. t \in Task /\ t.next = "kick" /\ Underway(t) /\ Recorded1(t) /\ Told(t)
  BY DEF Kick, BansInv, TaskSound
<1>2. PICK user : user = Head(t.todo)
  OBVIOUS
<1>3. t.todo \in Seq(Rows) /\ t.todo # <<>>
  BY <1>1 DEF Task, Underway
<1>4. user \in Rows /\ user = t.todo[1]
  BY <1>2, <1>3, HeadTailProperties
<1>5. /\ Tail(t.todo) \in Seq(Rows) /\ Len(Tail(t.todo)) = Len(t.todo) - 1
      /\ \A i \in 1..Len(Tail(t.todo)) : Tail(t.todo)[i] = t.todo[i + 1]
  BY <1>3, HeadTailProperties
<1>6. DoorSound'
  <2>1. {p.name : p \in ByExactName(user.name)} \subseteq Names
    BY DEF BansInv, DoorSound, ByExactName, Names
  <2>2. kickRequests' \subseteq Names /\ kickRequests \subseteq kickRequests'
    BY <1>2, <2>1 DEF BansInv, DoorSound, Kick
  <2> QED BY <2>2 DEF BansInv, DoorSound, Kick, Testable
<1>7. PICK u : u = [t EXCEPT !.kicked = @ \union {user.name}, !.todo = Tail(t.todo),
                             !.next = AfterKick(r)]
  OBVIOUS
<1>8. u.command = t.command /\ u.todo = Tail(t.todo) /\ u.meant = t.meant
      /\ u.kicked = t.kicked \union {user.name}
      /\ u.absent = t.absent /\ u.answer = t.answer /\ u.changed = t.changed
      /\ u.next = AfterKick(r) /\ u.committed = t.committed
  BY <1>1, <1>7 DEF Task
<1>9. AfterKick(r) \in {"save", "kick", "reply", "done"}
  BY DEF AfterKick, FirstStep, LastStep
<1>10. user.name \in Tokens
  BY <1>4, NamesAreWords
<1>11. u \in Task
  BY <1>1, <1>5, <1>7, <1>9, <1>10 DEF Task
<1>12. Awaited(t) \subseteq Awaited(u) \union {user}
  <2>1. SUFFICES ASSUME NEW i \in 1..Len(t.todo) PROVE t.todo[i] \in Awaited(u) \union {user}
    BY <1>3 DEF Awaited
  <2>2. CASE i = 1
    BY <2>2, <1>4
  <2>3. CASE i # 1
    <3>1. i - 1 \in 1..Len(Tail(t.todo)) /\ Tail(t.todo)[i - 1] = t.todo[i]
      BY <2>3, <1>3, <1>5
    <3>2. DOMAIN Tail(t.todo) = 1..Len(Tail(t.todo))
      BY <1>5, LenProperties
    <3> QED BY <3>1, <3>2, <1>8 DEF Awaited
  <2> QED BY <2>2, <2>3
<1>13. t.command # "unshadowban" /\ t.command \in {"none", "shadowban", "kick"}
  BY <1>1 DEF Underway, Task
<1>14. user \in People => user.name \in u.kicked
  BY <1>8
<1>15. t.command = "shadowban" => user \in u.changed
  BY <1>1, <1>4, <1>8 DEF Underway
<1>16. u.todo # <<>> <=> Len(t.todo) > 1
  BY <1>3, <1>8, EmptyTail
<1>17. u.command = "shadowban" => u.next # "kick"
  BY <1>8 DEF AfterKick, FirstStep, LastStep
<1>18. u.command = "kick" => u.next \in {"kick", "done"}
  BY <1>8 DEF AfterKick, FirstStep, LastStep
<1>19. u.next \in {"save", "kick"} => u.todo # <<>>
  BY <1>8, <1>16 DEF AfterKick, FirstStep, LastStep
<1>20. u.next \in {"reply", "done"} => u.todo = <<>>
  BY <1>8, <1>16 DEF AfterKick, FirstStep, LastStep
<1>21. Underway(u)
  <2>1. \A p \in u.meant : p.name \in u.kicked \/ p \in Awaited(u)
    BY <1>1, <1>8, <1>12, <1>14 DEF Underway
  <2>2. u.command = "shadowban" => \A p \in u.meant : p \in u.changed \/ p \in Awaited(u)
    BY <1>1, <1>8, <1>12, <1>15 DEF Underway
  <2> QED BY <1>1, <1>8, <1>13, <1>17, <1>18, <1>19, <1>20, <2>1, <2>2 DEF Underway
<1>22. TaskSound(u)
  BY <1>1, <1>8, <1>9, <1>11, <1>15, <1>21 DEF TaskSound, Recorded1, Told
<1>23. tasks' = [tasks EXCEPT ![r] = u]
  BY <1>2, <1>7 DEF Kick
<1>24. ASSUME NEW q \in Runners PROVE TaskSound(tasks'[q])
  BY <1>22, <1>23 DEF BansInv
<1> QED BY <1>6, <1>23, <1>24 DEF BansInv

\* A user that leaves takes what was promised about him along.
LEMMA LeavesKeeps ==
  ASSUME BansInv, NEW p \in People, PersonLeaves(p)
  PROVE  BansInv'
<1>1. /\ roster' = roster \ {p} /\ kickRequests' = kickRequests \ {p.name}
      /\ slipped' = slipped \ {p} /\ standing' = [standing EXCEPT ![p] = {}]
      /\ arriving = NoPerson /\ arriving' = arriving /\ banRecords' = banRecords /\ p \in roster
  BY DEF PersonLeaves, PumpIsFree
<1>2. DoorSound'
  <2>1. \A q \in roster' : q.name # p.name /\ standing'[q] = standing[q]
    BY <1>1 DEF BansInv, DoorSound
  <2>2. standing' \in [People -> SUBSET banRecords']
    BY <1>1 DEF BansInv, DoorSound
  <2>3. kickRequests' \subseteq Names /\ slipped' \subseteq roster' /\ roster' \subseteq People
    BY <1>1 DEF BansInv, DoorSound
  <2>4. \A q \in roster' \ {arriving'} :
          (\E b \in standing'[q] : Testable(b, q)) => q.name \in kickRequests' \/ q \in slipped'
    BY <1>1, <2>1 DEF BansInv, DoorSound
  <2> QED BY <1>1, <2>2, <2>3, <2>4 DEF BansInv, DoorSound
<1>3. tasks' = [r \in Runners |-> [tasks[r] EXCEPT !.meant = @ \ {p}]]
  BY DEF PersonLeaves
<1>4. ASSUME NEW r \in Runners PROVE TaskSound(tasks'[r])
  <2>1. PICK t : t = tasks[r]
    OBVIOUS
  <2>2. TaskSound(t)
    BY <2>1 DEF BansInv
  <2>3. PICK u : u = [t EXCEPT !.meant = @ \ {p}]
    OBVIOUS
  <2>4. /\ u \in Task /\ u.meant = t.meant \ {p} /\ u.command = t.command /\ u.next = t.next
        /\ u.todo = t.todo /\ u.absent = t.absent /\ u.changed = t.changed
        /\ u.kicked = t.kicked /\ u.answer = t.answer /\ u.committed = t.committed
    BY <2>2, <2>3 DEF TaskSound, Task
  <2>5. t.next # "idle" => Underway(u)
    BY <2>2, <2>4 DEF TaskSound, Underway, Awaited
  <2>6. t.next = "idle" => Whole(u)
    BY <2>2, <2>4 DEF TaskSound, Whole
  <2>7. TaskSound(u)
    BY <2>2, <2>4, <2>5, <2>6 DEF TaskSound, Recorded1, Told
  <2>8. tasks'[r] = u
    BY <1>3, <2>1, <2>3
  <2> QED BY <2>7, <2>8
<1> QED BY <1>2, <1>3, <1>4 DEF BansInv

\* Nobody is tested before the listener has him in hand.
LEMMA JoinsKeeps ==
  ASSUME BansInv, NEW p \in People, PersonJoins(p)
  PROVE  BansInv'
<1>1. /\ roster' = roster \union {p} /\ arriving' = p /\ arriving = NoPerson
      /\ standing' = [standing EXCEPT ![p] = banRecords]
      /\ UNCHANGED <<banRecords, kickRequests, tasks, slipped>>
      /\ \A q \in roster : ~SameName(p.name, q.name)
  BY DEF PersonJoins, PumpIsFree
<1>2. \A q \in roster : q.name # p.name
  BY <1>1 DEF SameName
<1>3. NoPerson \notin roster /\ p \notin roster
  BY <1>2, NamesAreWords DEF BansInv, DoorSound
<1>4. \A q \in roster' \ {arriving'} :
        (\E b \in standing'[q] : Testable(b, q)) => q.name \in kickRequests' \/ q \in slipped'
  BY <1>1, <1>3 DEF BansInv, DoorSound
<1>5. standing' \in [People -> SUBSET banRecords']
  BY <1>1 DEF BansInv, DoorSound
<1>6. DoorSound'
  BY <1>1, <1>2, <1>4, <1>5 DEF BansInv, DoorSound
<1> QED BY <1>1, <1>6 DEF BansInv

\* Whoever stood on record when he joined stands on record when he is tested.
LEMMA TestKeeps ==
  ASSUME BansInv, KickIfShadowBanned
  PROVE  BansInv'
<1>1. /\ arriving # NoPerson /\ arriving' = NoPerson /\ arriving \in roster /\ arriving \in People
      /\ UNCHANGED <<roster, banRecords, tasks, standing>>
  BY DEF KickIfShadowBanned, BansInv, DoorSound
<1>2. (\E b \in standing[arriving] : Testable(b, arriving)) =>
        arriving.name \in kickRequests' \/ arriving \in slipped'
  <2>1. (\E b \in standing[arriving] : Testable(b, arriving)) => Matches(arriving)
    BY <1>1 DEF BansInv, DoorSound, Testable, Matches
  <2> QED BY <2>1 DEF KickIfShadowBanned
<1>3. /\ kickRequests \subseteq kickRequests' /\ kickRequests' \subseteq Names
      /\ slipped \subseteq slipped' /\ slipped' \subseteq roster
  BY <1>1 DEF KickIfShadowBanned, BansInv, DoorSound, Names
<1>4. \A q \in roster :
        (\E b \in standing[q] : Testable(b, q)) => q.name \in kickRequests' \/ q \in slipped'
  BY <1>2, <1>3 DEF BansInv, DoorSound
<1>5. DoorSound'
  BY <1>1, <1>3, <1>4 DEF BansInv, DoorSound
<1> QED BY <1>1, <1>5 DEF BansInv

LEMMA UnbanKeeps ==
  ASSUME BansInv, NEW r \in Runners, NEW line \in Lines, Unban(r, line)
  PROVE  BansInv'
<1>1. PICK gone : gone = Removed(line[1])
  OBVIOUS
<1>2. /\ gone # {} /\ gone \subseteq banRecords /\ banRecords' = banRecords \ gone
      /\ standing' = [p \in People |-> standing[p] \ gone]
      /\ UNCHANGED <<roster, arriving, kickRequests, slipped>>
  BY <1>1 DEF Unban, Removed
<1>3. DoorSound'
  <2>1. standing' \in [People -> SUBSET banRecords'] /\ banRecords' \subseteq Rows
    BY <1>2 DEF BansInv, DoorSound
  <2>2. \A p \in People : standing'[p] \subseteq standing[p]
    BY <1>2
  <2> QED BY <1>2, <2>1, <2>2 DEF BansInv, DoorSound
<1>4. PICK t : t = Committed([Idle EXCEPT !.command = "unshadowban", !.next = "reply",
                                          !.changed = gone], TRUE)
  OBVIOUS
<1>5. /\ t.command = "unshadowban" /\ t.next = "reply" /\ t.changed = gone /\ t.committed = TRUE
      /\ t.meant = {} /\ t.todo = <<>> /\ t.answer = "none" /\ ~t.absent
  BY <1>4 DEF Committed, Idle
<1>6. <<>> \in Seq(Rows) /\ gone \subseteq Rows
  BY <1>2 DEF BansInv, DoorSound
<1>7. t \in Task
  BY <1>4, <1>6 DEF Committed, Idle, Task
<1>8. TaskSound(t)
  BY <1>2, <1>5, <1>7 DEF TaskSound, Underway, Recorded1, Told
<1>9. tasks' = [tasks EXCEPT ![r] = t]
  BY <1>1, <1>4 DEF Unban
<1>10. ASSUME NEW q \in Runners PROVE TaskSound(tasks'[q])
  BY <1>8, <1>9 DEF BansInv
<1> QED BY <1>3, <1>9, <1>10 DEF BansInv

\* Answers and an ended context.
LEMMA AnswersKeep ==
  ASSUME BansInv, NEW r \in Runners,
         UnbanFails(r) \/ ContextEnds(r) \/ Fails(r) \/ Succeed(r)
         \/ (\E line \in Lines, c \in {"shadowban", "kick"} : Refuse(r, c, line))
  PROVE  BansInv'
<1>1. TaskSound(tasks[r])
  BY DEF BansInv
<1>2. CASE UnbanFails(r)
  BY <1>2, IdleIsSound, OnlyTasks DEF UnbanFails, Starts
<1>3. CASE ContextEnds(r)
  <2>1. PICK t : t = [tasks[r] EXCEPT !.over = TRUE]
    OBVIOUS
  <2>2. /\ t \in Task /\ t.meant = tasks[r].meant /\ t.command = tasks[r].command
        /\ t.next = tasks[r].next /\ t.todo = tasks[r].todo /\ t.absent = tasks[r].absent
        /\ t.changed = tasks[r].changed /\ t.kicked = tasks[r].kicked
        /\ t.answer = tasks[r].answer /\ t.committed = tasks[r].committed
    BY <1>1, <2>1 DEF TaskSound, Task
  <2>4. TaskSound(t)
    BY <1>1, <2>2 DEF TaskSound, Underway, Awaited, Whole, Recorded1, Told
  <2>3. tasks' = [tasks EXCEPT ![r] = t]
    BY <1>3, <2>1 DEF ContextEnds
  <2> QED BY <1>3, <2>3, <2>4, OnlyTasks DEF ContextEnds
<1>4. CASE Fails(r)
  BY <1>1, <1>4, FailureIsSound, OnlyTasks DEF Fails
<1>5. CASE Succeed(r)
  BY <1>1, <1>5, SuccessIsSound, OnlyTasks DEF Succeed
<1>6. CASE \E line \in Lines, c \in {"shadowban", "kick"} : Refuse(r, c, line)
  BY <1>6, IdleIsSound, OnlyTasks DEF Refuse, Starts
<1> QED BY <1>2, <1>3, <1>4, <1>5, <1>6

LEMMA BansStep == BansInv /\ [BansNext]_banVars => BansInv'
<1> SUFFICES ASSUME BansInv, [BansNext]_banVars PROVE BansInv'
  OBVIOUS
<1>1. CASE \E p \in People : PersonJoins(p)
  BY <1>1, JoinsKeeps
<1>2. CASE \E p \in People : PersonLeaves(p)
  BY <1>2, LeavesKeeps
<1>3. CASE KickIfShadowBanned
  BY <1>3, TestKeeps
<1>4. CASE \E r \in Runners, line \in Lines, c \in {"shadowban", "kick"} : Select(r, c, line)
  BY <1>4, SelectKeeps
<1>5. CASE \E r \in Runners, line \in Lines : SelectAbsent(r, line)
  BY <1>5, SelectAbsentKeeps
<1>6. CASE \E r \in Runners, line \in Lines : Unban(r, line)
  BY <1>6, UnbanKeeps
<1>7. CASE \E r \in Runners : Save(r)
  BY <1>7, SaveKeeps
<1>8. CASE \E r \in Runners : Kick(r)
  BY <1>8, KickKeeps
<1>9. CASE \E r \in Runners :
             UnbanFails(r) \/ ContextEnds(r) \/ Fails(r) \/ Succeed(r)
             \/ (\E line \in Lines, c \in {"shadowban", "kick"} : Refuse(r, c, line))
  BY <1>9, AnswersKeep
<1>10. CASE UNCHANGED banVars
  <2>1. DoorSound'
    BY <1>10 DEF banVars, BansInv, DoorSound, Testable
  <2>2. tasks' = tasks
    BY <1>10 DEF banVars
  <2> QED BY <2>1, <2>2 DEF BansInv
<1> QED BY <1>1, <1>2, <1>3, <1>4, <1>5, <1>6, <1>7, <1>8, <1>9, <1>10 DEF BansNext

LEMMA BansInvIsEnough == BansInv => BansAreWhole
<1> SUFFICES ASSUME BansInv PROVE BansAreWhole
  OBVIOUS
<1>1. BansTypeOK
  BY DEF BansInv, DoorSound, BansTypeOK, TaskSound, Underway, Task
<1>2. SuccessIsWhole
  BY DEF BansInv, SuccessIsWhole, TaskSound, Whole, Underway
<1>3. KicksAreRecorded /\ ChangesAreTold
  BY DEF BansInv, KicksAreRecorded, ChangesAreTold, TaskSound, Recorded1, Told
<1>4. CaughtAtTheDoor
  BY DEF BansInv, DoorSound, CaughtAtTheDoor, Testable
<1> QED BY <1>1, <1>2, <1>3, <1>4 DEF BansAreWhole

(* Whatever commands the pump and a turn run, for any people, words and    *)
(* bounds: a ban or a kick that reports success did all of it, nobody is   *)
(* kicked before he is recorded, the receipts tell every change of the     *)
(* records, and whoever a standing record names is asked to leave when he  *)
(* joins, unless the test or the kick failed (shadow_ban.go,               *)
(* unshadow_ban.go, user_joined_listener.go).                              *)
THEOREM BansHold == BansSpec => []BansAreWhole
<1>1. BansSpec => []BansInv
  BY BansInitially, BansStep, PTL DEF BansSpec
<1> QED BY <1>1, BansInvIsEnough, PTL

-----------------------------------------------------------------------------
(* Registered identities *)

Work == [is : {"none", "register", "remove", "access"},
         step : {"idle", "name", "trip", "Register", "RegisterNameByTrip",
                 "RegisterTripByName", "write", "reply"},
         word : Words \union TripCodes \union {""}, targets : SUBSET TripCodes,
         role : ADMIN..PEST, known : BOOLEAN, checked : Nat, admin : BOOLEAN,
         committed : BOOLEAN, answer : {"none", "success", "failed"}]

Registering == {"trip", "Register", "RegisterNameByTrip", "RegisterTripByName"}

\* A registration that found its name free: whoever has it now came later.
WorkSound(k) ==
  /\ k \in Work
  /\ k.step \in Registering \union {"name"} => k.word \in Words /\ k.is = "register"
  /\ k.step = "write" => k.is \in {"remove", "access"}
  /\ k.is = "access" => k.admin
  /\ k.checked <= writes
  /\ k.step \in {"Register", "RegisterNameByTrip"} => ~k.known
  /\ k.step \in Registering /\ ~k.known =>
        \A s \in nameRows : SameWord(s.name, k.word) => k.checked <= s.at

RolesSound ==
  /\ DOMAIN tripRoles \subseteq TripCodes
  /\ \A t \in DOMAIN tripRoles : tripRoles[t] \in ADMIN..PEST

\* Rows and relations: one row of a name, both ends of a relation, an owner.
TablesSound ==
  /\ nameRows \subseteq [name : Words, at : Nat, checked : Nat]
  /\ \A r \in nameRows : r.checked <= r.at /\ r.at < writes
  /\ \A p \in tripNames : p \in TripCodes \X Words
  /\ \A p \in tripNames : p[1] \in DOMAIN tripRoles /\ \E r \in nameRows : r.name = p[2]
  /\ \A r \in nameRows : \E p \in tripNames : p[2] = r.name
  /\ \A r, s \in nameRows : r.name # s.name /\ SameWord(r.name, s.name) =>
        r.checked <= s.at /\ s.checked <= r.at

IdentityInv ==
  /\ writes \in Nat /\ RolesSound /\ TablesSound
  /\ DOMAIN works = Workers /\ \A w \in Workers : WorkSound(works[w])

-----------------------------------------------------------------------------
LEMMA RegularIsARole == REGULAR \in ADMIN..PEST
  BY DEF REGULAR, ADMIN, PEST

LEMMA IdentityInitially == IdentityInit => IdentityInv
<1> SUFFICES ASSUME IdentityInit PROVE IdentityInv
  OBVIOUS
<1>1. DOMAIN tripRoles = {}
  BY DEF IdentityInit
<1>2. RolesSound /\ TablesSound
  BY <1>1 DEF IdentityInit, RolesSound, TablesSound
<1>3. writes = 0 /\ NoWork \in Work
  BY RegularIsARole DEF IdentityInit, Work, NoWork
<1>4. NoWork.step = "idle" /\ NoWork.is = "none" /\ NoWork.checked = 0
  BY DEF NoWork
<1>5. WorkSound(NoWork)
  BY <1>3, <1>4 DEF WorkSound, Registering
<1> QED BY <1>2, <1>3, <1>5 DEF IdentityInit, IdentityInv

\* Steps that leave the tables alone.
LEMMA OnlyWorks ==
  ASSUME IdentityInv, NEW w \in Workers, NEW k, works' = [works EXCEPT ![w] = k], WorkSound(k),
         UNCHANGED <<nameRows, tripRoles, tripNames, writes>>
  PROVE  IdentityInv'
<1>1. (writes \in Nat /\ RolesSound /\ TablesSound)'
  BY DEF IdentityInv, RolesSound, TablesSound
<1>2. ASSUME NEW v \in Workers PROVE WorkSound(works[v])'
  BY DEF IdentityInv, WorkSound
<1> QED BY <1>1, <1>2 DEF IdentityInv

\* A role that suffices for administrators is that of one.
LEMMA BeginKeeps ==
  ASSUME IdentityInv, NEW w \in Workers, NEW asker \in TripCodes, NEW work,
         work \in Work, Begin(w, asker, work), work.checked = 0,
         \/ work.step = "name" /\ work.is = "register" /\ work.word \in Words
         \/ work.step = "write" /\ work.is \in {"remove", "access"}
  PROVE  IdentityInv'
<1>1. PICK k : k = [work EXCEPT !.admin = asker \in AdminTrips \/ ResolveRole(asker) = ADMIN]
  OBVIOUS
<1>2. /\ k \in Work /\ k.is = work.is /\ k.step = work.step /\ k.word = work.word
      /\ k.checked = 0
  BY <1>1 DEF Work
<1>3. k.admin <=> (asker \in AdminTrips \/ ResolveRole(asker) = ADMIN)
  BY <1>1 DEF Work
<1>4. ResolveRole(asker) \in ADMIN..PEST
  BY DEF IdentityInv, RolesSound, ResolveRole, HasTrip, ADMIN, PEST, REGULAR
<1>5. work.is = "access" => asker \in AdminTrips \/ ResolveRole(asker) <= ADMIN
  BY DEF Begin, IsTripAuthorized, Required
<1>6. work.is = "access" => asker \in AdminTrips \/ ResolveRole(asker) = ADMIN
  BY <1>4, <1>5 DEF ADMIN, PEST
<1>7. WorkSound(k)
  BY <1>2, <1>3, <1>6 DEF WorkSound, Registering, IdentityInv
<1> QED BY <1>1, <1>7, OnlyWorks DEF Begin

LEMMA AsksKeep ==
  ASSUME IdentityInv, NEW w \in Workers, NEW asker \in TripCodes,
         \/ \E word \in Words, t \in TripCodes : AskRegister(w, asker, word, t)
         \/ \E selector \in Words \union TripCodes : AskRemove(w, asker, selector)
         \/ \E targets \in SUBSET TripCodes \ {{}}, role \in Grantable :
                AskAccess(w, asker, targets, role)
  PROVE  IdentityInv'
<1>1. ASSUME NEW word \in Words, NEW t \in TripCodes, AskRegister(w, asker, word, t)
      PROVE  IdentityInv'
  <2>1. PICK k : k = [NoWork EXCEPT !.is = "register", !.step = "name", !.word = word,
                                    !.targets = {t}]
    OBVIOUS
  <2>2. k \in Work /\ k.step = "name" /\ k.is = "register" /\ k.word = word /\ k.checked = 0
    BY <2>1, RegularIsARole DEF NoWork, Work
  <2> QED BY <1>1, <2>1, <2>2, BeginKeeps DEF AskRegister
<1>2. ASSUME NEW selector \in Words \union TripCodes, AskRemove(w, asker, selector)
      PROVE  IdentityInv'
  <2>1. PICK k : k = [NoWork EXCEPT !.is = "remove", !.step = "write", !.word = selector]
    OBVIOUS
  <2>2. k \in Work /\ k.step = "write" /\ k.is = "remove" /\ k.checked = 0
    BY <2>1, RegularIsARole DEF NoWork, Work
  <2> QED BY <1>2, <2>1, <2>2, BeginKeeps DEF AskRemove
<1>3. ASSUME NEW targets \in SUBSET TripCodes \ {{}}, NEW role \in Grantable,
             AskAccess(w, asker, targets, role)
      PROVE  IdentityInv'
  <2>1. PICK k : k = [NoWork EXCEPT !.is = "access", !.step = "write", !.targets = targets,
                                    !.role = role]
    OBVIOUS
  <2>2. role \in ADMIN..PEST
    BY IdentityAssumption
  <2>3. k \in Work /\ k.step = "write" /\ k.is = "access" /\ k.checked = 0
    BY <2>1, <2>2 DEF NoWork, Work
  <2> QED BY <1>3, <2>1, <2>3, BeginKeeps DEF AskAccess
<1> QED BY <1>1, <1>2, <1>3

LEMMA ChecksKeep ==
  ASSUME IdentityInv, NEW w \in Workers,
         \/ IsNameRegistered(w) \/ Acknowledge(w) \/ Cancelled(w)
         \/ \E t \in TripCodes : IsTripRegistered(w, t)
  PROVE  IdentityInv'
<1>1. WorkSound(works[w]) /\ writes \in Nat
  BY DEF IdentityInv
<1>2. CASE IsNameRegistered(w)
  <2>1. CASE Cardinality(RowsNamed(works[w].word)) > 1
    <3>1. PICK k : k = [works[w] EXCEPT !.step = "idle", !.answer = "failed"]
      OBVIOUS
    <3>2. WorkSound(k)
      BY <1>1, <3>1 DEF WorkSound, Work, Registering
    <3>3. works' = [works EXCEPT ![w] = k]
      BY <1>2, <2>1, <3>1 DEF IsNameRegistered
    <3> QED BY <1>2, <3>2, <3>3, OnlyWorks DEF IsNameRegistered
  <2>2. CASE ~(Cardinality(RowsNamed(works[w].word)) > 1)
    <3>1. PICK k : k = [works[w] EXCEPT !.step = "trip", !.checked = writes,
                                        !.known = RowsNamed(works[w].word) # {}]
      OBVIOUS
    <3>2. /\ k \in Work /\ k.step = "trip" /\ k.checked = writes /\ k.word = works[w].word
          /\ k.is = works[w].is /\ k.admin = works[w].admin
      BY <1>1, <3>1 DEF WorkSound, Work
    <3>3. k.known <=> RowsNamed(k.word) # {}
      BY <1>1, <3>1 DEF WorkSound, Work
    <3>4. WorkSound(k)
      BY <1>1, <1>2, <3>2, <3>3 DEF WorkSound, Registering, RowsNamed, IsNameRegistered
    <3>5. works' = [works EXCEPT ![w] = k]
      BY <1>2, <2>2, <3>1 DEF IsNameRegistered
    <3> QED BY <1>2, <3>4, <3>5, OnlyWorks DEF IsNameRegistered
  <2> QED BY <2>1, <2>2
<1>3. ASSUME NEW t \in TripCodes, IsTripRegistered(w, t)
      PROVE  IdentityInv'
  <2>1. PICK to : to = Writing(works[w].known, HasTrip(t))
    OBVIOUS
  <2>2. /\ to \in {"Register", "RegisterNameByTrip", "RegisterTripByName", "refused"}
        /\ to \in {"Register", "RegisterNameByTrip"} => ~works[w].known
    BY <2>1 DEF Writing
  <2>3. CASE to = "refused"
    <3>1. PICK k : k = [works[w] EXCEPT !.step = "reply", !.answer = "failed"]
      OBVIOUS
    <3>2. WorkSound(k)
      BY <1>1, <3>1 DEF WorkSound, Work, Registering
    <3>3. works' = [works EXCEPT ![w] = k]
      BY <1>3, <2>1, <2>3, <3>1 DEF IsTripRegistered
    <3> QED BY <1>3, <3>2, <3>3, OnlyWorks DEF IsTripRegistered
  <2>4. CASE to # "refused"
    <3>1. PICK k : k = [works[w] EXCEPT !.step = to]
      OBVIOUS
    <3>2. WorkSound(k)
      BY <1>1, <1>3, <2>2, <2>4, <3>1 DEF WorkSound, Work, Registering, IsTripRegistered
    <3>3. works' = [works EXCEPT ![w] = k]
      BY <1>3, <2>1, <2>4, <3>1 DEF IsTripRegistered
    <3> QED BY <1>3, <3>2, <3>3, OnlyWorks DEF IsTripRegistered
  <2> QED BY <2>3, <2>4
<1>4. CASE Acknowledge(w)
  <2>1. PICK answer \in {works[w].answer, "failed"} :
           works' = [works EXCEPT ![w].step = "idle", ![w].answer = answer]
    BY <1>4 DEF Acknowledge
  <2>2. PICK k : k = [works[w] EXCEPT !.step = "idle", !.answer = answer]
    OBVIOUS
  <2>3. WorkSound(k)
    BY <1>1, <2>1, <2>2 DEF WorkSound, Work, Registering
  <2>4. works' = [works EXCEPT ![w] = k]
    BY <2>1, <2>2 DEF IdentityInv
  <2> QED BY <1>4, <2>3, <2>4, OnlyWorks DEF Acknowledge
<1>5. CASE Cancelled(w)
  <2>1. PICK k : k = [works[w] EXCEPT !.step = "idle", !.answer = "failed"]
    OBVIOUS
  <2>2. WorkSound(k)
    BY <1>1, <2>1 DEF WorkSound, Work, Registering
  <2>3. works' = [works EXCEPT ![w] = k]
    BY <1>5, <2>1 DEF Cancelled, IdentityInv
  <2> QED BY <1>5, <2>2, <2>3, OnlyWorks DEF Cancelled
<1> QED BY <1>2, <1>3, <1>4, <1>5
\* What a transaction does, whether its effect took place or not.
LEMMA TransactMeans ==
  ASSUME IdentityInv, NEW w \in Workers, NEW changed \in BOOLEAN, NEW answer \in {"success", "failed"},
         \/ works' = [works EXCEPT ![w].step = "reply", ![w].answer = answer,
                                   ![w].committed = changed]
         \/ works' = [works EXCEPT ![w].step = "reply", ![w].answer = answer],
         writes' \in Nat, writes <= writes'
  PROVE  /\ DOMAIN works' = Workers
         /\ \A v \in Workers \ {w} : works'[v] = works[v]
         /\ works'[w] \in Work /\ works'[w].step = "reply" /\ works'[w].is = works[w].is
         /\ works'[w].admin = works[w].admin /\ works'[w].checked <= writes'
<1>1. works[w] \in Work /\ works[w].checked <= writes /\ DOMAIN works = Workers /\ writes \in Nat
  BY DEF IdentityInv, WorkSound
<1>2. works[w].checked \in Nat
  BY <1>1 DEF Work
<1>3. CASE works' = [works EXCEPT ![w].step = "reply", ![w].answer = answer,
                                  ![w].committed = changed]
  <2>1. works'[w] = [works[w] EXCEPT !.step = "reply", !.answer = answer, !.committed = changed]
    BY <1>1, <1>3
  <2>2. /\ works'[w] \in Work /\ works'[w].step = "reply" /\ works'[w].is = works[w].is
        /\ works'[w].admin = works[w].admin /\ works'[w].checked = works[w].checked
    BY <1>1, <2>1 DEF Work
  <2> QED BY <1>1, <1>2, <1>3, <2>2
<1>4. CASE works' = [works EXCEPT ![w].step = "reply", ![w].answer = answer]
  <2>1. works'[w] = [works[w] EXCEPT !.step = "reply", !.answer = answer]
    BY <1>1, <1>4
  <2>2. /\ works'[w] \in Work /\ works'[w].step = "reply" /\ works'[w].is = works[w].is
        /\ works'[w].admin = works[w].admin /\ works'[w].checked = works[w].checked
    BY <1>1, <2>1 DEF Work
  <2> QED BY <1>1, <1>2, <1>4, <2>2
<1> QED BY <1>3, <1>4

\* A transaction keeps what is known of the commands, if rows only appear with
\* the present count of writes.
LEMMA WorksAfterWrite ==
  ASSUME IdentityInv, NEW w \in Workers, DOMAIN works' = Workers,
         \A v \in Workers \ {w} : works'[v] = works[v],
         works'[w] \in Work, works'[w].step = "reply", works'[w].is = works[w].is,
         works'[w].admin = works[w].admin, works'[w].checked <= writes',
         writes' \in Nat, writes <= writes',
         \A s \in nameRows' : s \in nameRows \/ s.at = writes
  PROVE  \A v \in Workers : WorkSound(works[v])'
<1>1. WorkSound(works[w])'
  BY DEF WorkSound, IdentityInv, Registering
<1>2. ASSUME NEW v \in Workers \ {w} PROVE WorkSound(works[v])'
  <2>1. WorkSound(works[v]) /\ works'[v] = works[v]
    BY DEF IdentityInv
  <2>2. works[v].checked \in Nat /\ writes \in Nat
    BY <2>1 DEF IdentityInv, WorkSound, Work
  <2>3. works[v].checked <= writes'
    BY <2>1, <2>2 DEF WorkSound
  <2>4. works[v].step \in Registering /\ ~works[v].known =>
           \A s \in nameRows' : SameWord(s.name, works[v].word) => works[v].checked <= s.at
    BY <2>1, <2>2 DEF WorkSound
  <2> QED BY <2>1, <2>3, <2>4 DEF WorkSound
<1> QED BY <1>1, <1>2

\* A transaction without its effect.
LEMMA NoEffectKeeps ==
  ASSUME IdentityInv, NEW w \in Workers,
         works' = [works EXCEPT ![w].step = "reply", ![w].answer = "failed"],
         UNCHANGED <<nameRows, tripRoles, tripNames, writes>>
  PROVE  IdentityInv'
<1>1. PICK k : k = [works[w] EXCEPT !.step = "reply", !.answer = "failed"]
  OBVIOUS
<1>2. WorkSound(k)
  <2>1. WorkSound(works[w]) /\ works[w] \in Work
    BY DEF IdentityInv, WorkSound
  <2>2. /\ k \in Work /\ k.step = "reply" /\ k.is = works[w].is
        /\ k.admin = works[w].admin /\ k.checked = works[w].checked
    BY <1>1, <2>1 DEF Work
  <2>3. k.step \notin Registering \union {"name"}
    BY <2>2 DEF Registering
  <2> QED BY <2>1, <2>2, <2>3 DEF WorkSound
<1>3. works' = [works EXCEPT ![w] = k]
  BY <1>1 DEF IdentityInv
<1> QED BY <1>2, <1>3, OnlyWorks

\* The writes of each command, on their own.
Registers(w, t) ==
  /\ nameRows' = nameRows \union {NewRow(works[w].word, works[w].checked)}
  /\ tripRoles' = WithTrip(t, REGULAR)
  /\ tripNames' = tripNames \union {<<t, works[w].word>>}
NamesByTrip(w, t) ==
  /\ nameRows' = nameRows \union {NewRow(works[w].word, works[w].checked)}
  /\ tripNames' = tripNames \union {<<t, works[w].word>>} /\ UNCHANGED tripRoles
TripsByName(w, t) ==
  /\ tripRoles' = WithTrip(t, REGULAR)
  /\ tripNames' = tripNames \union {<<t, r.name>> : r \in RowsNamed(works[w].word)}
  /\ UNCHANGED nameRows
Grants(w) ==
  /\ tripRoles' = [t \in DOMAIN tripRoles \union works[w].targets |->
                      IF t \in works[w].targets THEN works[w].role ELSE tripRoles[t]]
  /\ UNCHANGED <<nameRows, tripNames>>
Deletes(p) ==
  /\ tripNames' = Left(p)
  /\ tripRoles' = [t \in DOMAIN tripRoles \ Bereft(p) |-> tripRoles[t]]
  /\ nameRows' = {r \in nameRows : r.name \notin Bereft(p)}

Writes(w) ==
  \/ /\ works[w].step = "Register" /\ NameIsFree(works[w].word)
     /\ \E t \in TripCodes : ~HasTrip(t) /\ Registers(w, t)
  \/ /\ works[w].step = "RegisterNameByTrip" /\ NameIsFree(works[w].word)
     /\ \E t \in TripCodes : HasTrip(t) /\ NamesByTrip(w, t)
  \/ /\ works[w].step = "RegisterTripByName"
     /\ \E t \in TripCodes : ~HasTrip(t) /\ TripsByName(w, t)
  \/ works[w].is = "access" /\ Grants(w)
  \/ works[w].is = "remove" /\ \E p \in tripNames : Deletes(p)

Replies(w) ==
  \E changed \in BOOLEAN, answer \in {"success", "failed"} :
     \/ works' = [works EXCEPT ![w].step = "reply", ![w].answer = answer,
                               ![w].committed = changed]
     \/ works' = [works EXCEPT ![w].step = "reply", ![w].answer = answer]

\* Every transaction of a command is one of these writes, or nothing.
LEMMA TransactionsWrite ==
  ASSUME IdentityInv, NEW w \in Workers,
         \/ \E t \in TripCodes : Register(w, t) \/ RegisterNameByTrip(w, t) \/ RegisterTripByName(w, t)
         \/ GrantTrips(w) \/ DeleteIdentity(w)
  PROVE  \/ Writes(w) /\ writes' = writes + 1 /\ Replies(w)
         \/ works' = [works EXCEPT ![w].step = "reply", ![w].answer = "failed"]
            /\ UNCHANGED <<nameRows, tripRoles, tripNames, writes>>
<1>1. CASE \E t \in TripCodes : Register(w, t)
  BY <1>1 DEF Register, Transact, Writes, Registers, Replies
<1>2. CASE \E t \in TripCodes : RegisterNameByTrip(w, t)
  BY <1>2 DEF RegisterNameByTrip, Transact, Writes, NamesByTrip, Replies
<1>3. CASE \E t \in TripCodes : RegisterTripByName(w, t)
  BY <1>3 DEF RegisterTripByName, Transact, Writes, TripsByName, Replies
<1>4. CASE GrantTrips(w)
  BY <1>4 DEF GrantTrips, Transact, Writes, Grants, Replies
<1>5. CASE DeleteIdentity(w)
  <2>1. Selected(works[w].word) \subseteq tripNames
    BY DEF Selected
  <2> QED BY <1>5, <2>1 DEF DeleteIdentity, Transact, Writes, Deletes, Replies
<1> QED BY <1>1, <1>2, <1>3, <1>4, <1>5
-----------------------------------------------------------------------------
\* Deleting a relation takes only what nothing else holds.
LEMMA DeletesKeep ==
  ASSUME IdentityInv, NEW p \in tripNames, Deletes(p), writes' = writes + 1
  PROVE  RolesSound' /\ TablesSound' /\ nameRows' \subseteq nameRows
<1>1. p[1] \in TripCodes /\ p[2] \in Words /\ TripCodes \intersect Words = {}
  BY IdentityAssumption DEF IdentityInv, TablesSound
<1>2. ASSUME NEW q \in tripNames' PROVE q \in tripNames /\ q[1] \notin Bereft(p) /\ q[2] \notin Bereft(p)
  <2>1. q \in Left(p) /\ q \in tripNames
    BY DEF Deletes, Left
  <2>2. q[1] \in TripCodes /\ q[2] \in Words
    BY <2>1 DEF IdentityInv, TablesSound
  <2> QED BY <1>1, <2>1, <2>2 DEF Bereft
<1>3. DOMAIN tripRoles' = DOMAIN tripRoles \ Bereft(p)
      /\ \A t \in DOMAIN tripRoles' : tripRoles'[t] = tripRoles[t]
  BY DEF Deletes
<1>4. RolesSound'
  BY <1>3 DEF IdentityInv, RolesSound
<1>5. nameRows' \subseteq nameRows /\ \A r \in nameRows' : r.name \notin Bereft(p)
  BY DEF Deletes
<1>6. writes \in Nat /\ writes' \in Nat
  BY DEF IdentityInv
<1>7. nameRows' \subseteq [name : Words, at : Nat, checked : Nat]
      /\ \A r \in nameRows' : r.checked <= r.at /\ r.at < writes'
  <2>1. ASSUME NEW r \in nameRows' PROVE r.checked <= r.at /\ r.at < writes'
    <3>1. r.at \in Nat /\ r.at < writes /\ r.checked <= r.at
      BY <1>5 DEF IdentityInv, TablesSound
    <3> QED BY <3>1, <1>6
  <2> QED BY <1>5, <2>1 DEF IdentityInv, TablesSound
<1>8. \A q \in tripNames' : q \in TripCodes \X Words
  BY <1>2 DEF IdentityInv, TablesSound
<1>9. ASSUME NEW q \in tripNames'
      PROVE  q[1] \in DOMAIN tripRoles' /\ \E r \in nameRows' : r.name = q[2]
  <2>1. q[1] \in DOMAIN tripRoles'
    BY <1>2, <1>3 DEF IdentityInv, TablesSound
  <2>2. PICK r \in nameRows : r.name = q[2]
    BY <1>2 DEF IdentityInv, TablesSound
  <2>3. r \in nameRows'
    BY <1>2, <2>2 DEF Deletes
  <2> QED BY <2>1, <2>2, <2>3
<1>10. ASSUME NEW r \in nameRows' PROVE \E q \in tripNames' : q[2] = r.name
  <2>1. PICK q \in tripNames : q[2] = r.name
    BY <1>5 DEF IdentityInv, TablesSound
  <2>2. CASE q # p
    BY <2>1, <2>2 DEF Deletes, Left
  <2>3. CASE q = p
    <3>1. p[2] \notin Bereft(p)
      BY <1>5, <2>1, <2>3
    <3>2. PICK o \in Left(p) : o[2] = p[2]
      BY <3>1 DEF Bereft
    <3> QED BY <2>1, <2>3, <3>2 DEF Deletes
  <2> QED BY <2>2, <2>3
<1>11. \A r, s \in nameRows' : r.name # s.name /\ SameWord(r.name, s.name) =>
          r.checked <= s.at /\ s.checked <= r.at
  BY <1>5 DEF IdentityInv, TablesSound
<1> QED BY <1>4, <1>5, <1>7, <1>8, <1>9, <1>10, <1>11 DEF TablesSound

\* A new row is younger than the check that led to it, and than every other row
\* that the check did not see.
LEMMA NewRowsKeep ==
  ASSUME IdentityInv, NEW w \in Workers, NEW t \in TripCodes,
         works[w].step \in {"Register", "RegisterNameByTrip"}, NameIsFree(works[w].word),
         nameRows' = nameRows \union {NewRow(works[w].word, works[w].checked)},
         tripNames' = tripNames \union {<<t, works[w].word>>},
         t \in DOMAIN tripRoles', DOMAIN tripRoles \subseteq DOMAIN tripRoles',
         writes' = writes + 1
  PROVE  TablesSound' /\ \A s \in nameRows' : s \in nameRows \/ s.at = writes
<1>1. PICK k : k = works[w]
  OBVIOUS
<1>2. PICK new : new = NewRow(k.word, k.checked)
  OBVIOUS
<1>3. /\ k \in Work /\ k.word \in Words /\ k.checked <= writes /\ writes \in Nat
      /\ \A s \in nameRows : SameWord(s.name, k.word) => k.checked <= s.at
  BY <1>1 DEF IdentityInv, WorkSound, Registering
<1>4. /\ new.name = k.word /\ new.at = writes /\ new.checked = k.checked
      /\ new \in [name : Words, at : Nat, checked : Nat]
  BY <1>2, <1>3 DEF NewRow, Work
<1>5. nameRows' = nameRows \union {new}
  BY <1>1, <1>2
<1>6. \A s \in nameRows : s.at \in Nat /\ s.checked \in Nat /\ s.checked <= s.at /\ s.at < writes
  BY DEF IdentityInv, TablesSound
<1>7. k.checked \in Nat /\ writes' \in Nat
  <2>1. k.checked \in Nat
    BY <1>3 DEF Work
  <2>2. writes' \in Nat
    BY <1>3
  <2> QED BY <2>1, <2>2
<1>8. \A r \in nameRows' : r.checked <= r.at /\ r.at < writes'
  <2>1. new.checked <= new.at /\ new.at < writes'
    BY <1>3, <1>4, <1>7
  <2>2. ASSUME NEW r \in nameRows PROVE r.checked <= r.at /\ r.at < writes'
    BY <1>3, <1>6
  <2> QED BY <1>5, <2>1, <2>2
<1>9. \A q \in tripNames' : q \in TripCodes \X Words
  BY <1>1, <1>3 DEF IdentityInv, TablesSound
<1>10. ASSUME NEW q \in tripNames'
       PROVE  q[1] \in DOMAIN tripRoles' /\ \E r \in nameRows' : r.name = q[2]
  <2>1. CASE q \in tripNames
    BY <1>5, <2>1 DEF IdentityInv, TablesSound
  <2>2. CASE q = <<t, k.word>>
    BY <1>4, <1>5, <2>2
  <2> QED BY <1>1, <2>1, <2>2
<1>11. ASSUME NEW r \in nameRows' PROVE \E q \in tripNames' : q[2] = r.name
  <2>1. CASE r \in nameRows
    BY <2>1 DEF IdentityInv, TablesSound
  <2>2. CASE r = new
    <3>1. <<t, k.word>> \in tripNames' /\ <<t, k.word>>[2] = k.word
      BY <1>1
    <3> QED BY <3>1, <1>4, <2>2
  <2> QED BY <1>5, <2>1, <2>2
<1>12. ASSUME NEW r \in nameRows', NEW s \in nameRows', r.name # s.name, SameWord(r.name, s.name)
       PROVE  r.checked <= s.at /\ s.checked <= r.at
  <2>1. CASE r \in nameRows /\ s \in nameRows
    BY <1>12, <2>1 DEF IdentityInv, TablesSound
  <2>2. CASE r = new /\ s \in nameRows
    <3>1. SameWord(s.name, k.word)
      BY <1>4, <1>12, <2>2 DEF SameWord
    <3>2. k.checked <= s.at
      BY <1>3, <2>2, <3>1
    <3>3. s.checked <= writes
      BY <1>3, <1>6, <2>2
    <3> QED BY <1>4, <2>2, <3>2, <3>3
  <2>3. CASE s = new /\ r \in nameRows
    <3>1. SameWord(r.name, k.word)
      BY <1>4, <1>12, <2>3 DEF SameWord
    <3>2. k.checked <= r.at
      BY <1>3, <2>3, <3>1
    <3>3. r.checked <= writes
      BY <1>3, <1>6, <2>3
    <3> QED BY <1>4, <2>3, <3>2, <3>3
  <2>4. CASE r = new /\ s = new
    BY <2>4, <1>12
  <2> QED BY <1>5, <2>1, <2>2, <2>3, <2>4
<1>13. nameRows' \subseteq [name : Words, at : Nat, checked : Nat]
  BY <1>4, <1>5 DEF IdentityInv, TablesSound
<1>14. \A s \in nameRows' : s \in nameRows \/ s.at = writes
  BY <1>4, <1>5
<1> QED BY <1>8, <1>9, <1>10, <1>11, <1>12, <1>13, <1>14 DEF TablesSound

\* The writes of a command keep the tables sound, and change only the roles
\* that they may.
LEMMA WritesKeep ==
  ASSUME IdentityInv, NEW w \in Workers, Writes(w), writes' = writes + 1
  PROVE  /\ RolesSound' /\ TablesSound' /\ \A s \in nameRows' : s \in nameRows \/ s.at = writes
         /\ \A t \in TripCodes : ResolveRole(t)' # ResolveRole(t) =>
              \/ works[w].is = "access" /\ t \in works[w].targets /\ works[w].admin
              \/ works[w].is = "remove" /\ ~HasTrip(t)' /\ \E p \in tripNames : p[1] = t
<1>0. writes \in Nat /\ writes' \in Nat /\ WorkSound(works[w])
  BY DEF IdentityInv
<1>1. ASSUME NEW t \in TripCodes, ~HasTrip(t), tripRoles' = WithTrip(t, REGULAR)
      PROVE  /\ RolesSound' /\ t \in DOMAIN tripRoles' /\ DOMAIN tripRoles \subseteq DOMAIN tripRoles'
             /\ \A u \in TripCodes : ResolveRole(u)' = ResolveRole(u)
  <2>1. DOMAIN tripRoles' = DOMAIN tripRoles \union {t}
        /\ \A u \in DOMAIN tripRoles' : tripRoles'[u] = IF u = t THEN REGULAR ELSE tripRoles[u]
    BY <1>1 DEF WithTrip
  <2>2. RolesSound'
    BY <2>1, RegularIsARole DEF IdentityInv, RolesSound
  <2>3. \A u \in TripCodes : ResolveRole(u)' = ResolveRole(u)
    BY <1>1, <2>1 DEF ResolveRole, HasTrip
  <2> QED BY <2>1, <2>2, <2>3
<1>2. \A s \in nameRows : s.at \in Nat /\ s.at < writes'
  <2>1. \A s \in nameRows : s.at \in Nat /\ s.at < writes
    BY DEF IdentityInv, TablesSound
  <2> QED BY <1>0, <2>1
<1>3. CASE works[w].step = "Register" /\ NameIsFree(works[w].word)
           /\ \E t \in TripCodes : ~HasTrip(t) /\ Registers(w, t)
  <2>1. PICK t \in TripCodes : ~HasTrip(t) /\ Registers(w, t)
    BY <1>3
  <2> QED BY <1>1, <1>3, <2>1, NewRowsKeep DEF Registers
<1>4. CASE works[w].step = "RegisterNameByTrip" /\ NameIsFree(works[w].word)
           /\ \E t \in TripCodes : HasTrip(t) /\ NamesByTrip(w, t)
  <2>1. PICK t \in TripCodes : HasTrip(t) /\ NamesByTrip(w, t)
    BY <1>4
  <2>2. RolesSound' /\ \A u \in TripCodes : ResolveRole(u)' = ResolveRole(u)
    BY <2>1 DEF IdentityInv, RolesSound, NamesByTrip, ResolveRole, HasTrip
  <2> QED BY <1>4, <2>1, <2>2, NewRowsKeep DEF NamesByTrip, HasTrip
<1>5. CASE works[w].step = "RegisterTripByName"
           /\ \E t \in TripCodes : ~HasTrip(t) /\ TripsByName(w, t)
  <2>1. PICK t \in TripCodes : ~HasTrip(t) /\ TripsByName(w, t)
    BY <1>5
  <2>2. nameRows' = nameRows /\ t \in DOMAIN tripRoles' /\ DOMAIN tripRoles \subseteq DOMAIN tripRoles'
    BY <1>1, <2>1 DEF TripsByName
  <2>3. ASSUME NEW q \in tripNames'
        PROVE  q \in TripCodes \X Words /\ q[1] \in DOMAIN tripRoles' /\ \E r \in nameRows' : r.name = q[2]
    <3>1. CASE q \in tripNames
      BY <2>2, <3>1 DEF IdentityInv, TablesSound
    <3>2. CASE q \notin tripNames
      <4>1. PICK r \in RowsNamed(works[w].word) : q = <<t, r.name>>
        BY <2>1, <3>2 DEF TripsByName
      <4>2. r \in nameRows /\ r.name \in Words
        BY DEF RowsNamed, IdentityInv, TablesSound
      <4> QED BY <2>2, <4>1, <4>2
    <3> QED BY <3>1, <3>2
  <2>4. tripNames \subseteq tripNames'
    BY <2>1 DEF TripsByName
  <2>5. TablesSound'
    BY <1>2, <2>2, <2>3, <2>4 DEF IdentityInv, TablesSound
  <2> QED BY <1>1, <2>1, <2>2, <2>5 DEF TripsByName
<1>6. CASE works[w].is = "access" /\ Grants(w)
  <2>1. works[w].targets \subseteq TripCodes /\ works[w].role \in ADMIN..PEST /\ works[w].admin
    BY <1>0, <1>6 DEF WorkSound, Work
  <2>2. /\ DOMAIN tripRoles' = DOMAIN tripRoles \union works[w].targets
        /\ \A t \in DOMAIN tripRoles' : tripRoles'[t] =
              IF t \in works[w].targets THEN works[w].role ELSE tripRoles[t]
        /\ UNCHANGED <<nameRows, tripNames>>
    BY <1>6 DEF Grants
  <2>3. RolesSound'
    BY <2>1, <2>2 DEF IdentityInv, RolesSound
  <2>4. TablesSound'
    BY <1>2, <2>2 DEF IdentityInv, TablesSound
  <2>5. \A t \in TripCodes : ResolveRole(t)' # ResolveRole(t) => t \in works[w].targets
    BY <2>2 DEF ResolveRole, HasTrip
  <2> QED BY <1>6, <2>1, <2>2, <2>3, <2>4, <2>5
<1>7. CASE works[w].is = "remove" /\ \E p \in tripNames : Deletes(p)
  <2>1. PICK p \in tripNames : Deletes(p)
    BY <1>7
  <2>2. RolesSound' /\ TablesSound' /\ nameRows' \subseteq nameRows
    BY <2>1, DeletesKeep
  <2>3. ASSUME NEW t \in TripCodes, ResolveRole(t)' # ResolveRole(t)
        PROVE  ~HasTrip(t)' /\ p[1] = t
    <3>1. DOMAIN tripRoles' = DOMAIN tripRoles \ Bereft(p)
          /\ \A u \in DOMAIN tripRoles' : tripRoles'[u] = tripRoles[u]
      BY <2>1 DEF Deletes
    <3>2. t \in Bereft(p) /\ t \notin DOMAIN tripRoles'
      BY <2>3, <3>1 DEF ResolveRole, HasTrip
    <3>3. p[2] \in Words /\ TripCodes \intersect Words = {}
      BY IdentityAssumption DEF IdentityInv, TablesSound
    <3> QED BY <3>2, <3>3 DEF Bereft, HasTrip
  <2> QED BY <1>7, <2>2, <2>3
<1> QED BY <1>3, <1>4, <1>5, <1>6, <1>7 DEF Writes

-----------------------------------------------------------------------------
LEMMA IdentityStep == IdentityInv /\ [IdentityNext]_identityVars => IdentityInv'
<1> SUFFICES ASSUME IdentityInv, [IdentityNext]_identityVars PROVE IdentityInv'
  OBVIOUS
<1>1. CASE UNCHANGED identityVars
  BY <1>1 DEF identityVars, IdentityInv, RolesSound, TablesSound, WorkSound
<1>2. CASE IdentityNext
  <2>1. PICK w \in Workers :
      \/ \E asker \in TripCodes :
           \/ \E word \in Words, t \in TripCodes : AskRegister(w, asker, word, t)
           \/ \E selector \in Words \union TripCodes : AskRemove(w, asker, selector)
           \/ \E targets \in SUBSET TripCodes \ {{}}, role \in Grantable :
                  AskAccess(w, asker, targets, role)
      \/ IsNameRegistered(w) \/ Acknowledge(w) \/ Cancelled(w)
      \/ \E t \in TripCodes : IsTripRegistered(w, t)
      \/ \E t \in TripCodes : Register(w, t) \/ RegisterNameByTrip(w, t) \/ RegisterTripByName(w, t)
      \/ GrantTrips(w) \/ DeleteIdentity(w)
    BY <1>2 DEF IdentityNext
  <2>2. CASE \E asker \in TripCodes :
           \/ \E word \in Words, t \in TripCodes : AskRegister(w, asker, word, t)
           \/ \E selector \in Words \union TripCodes : AskRemove(w, asker, selector)
           \/ \E targets \in SUBSET TripCodes \ {{}}, role \in Grantable :
                  AskAccess(w, asker, targets, role)
    BY <2>2, AsksKeep
  <2>3. CASE \/ IsNameRegistered(w) \/ Acknowledge(w) \/ Cancelled(w)
             \/ \E t \in TripCodes : IsTripRegistered(w, t)
    BY <2>3, ChecksKeep
  <2>4. CASE Writes(w) /\ writes' = writes + 1 /\ Replies(w)
    <3>1. RolesSound' /\ TablesSound' /\ \A s \in nameRows' : s \in nameRows \/ s.at = writes
      BY <2>4, WritesKeep
    <3>2. writes \in Nat /\ writes' \in Nat /\ writes <= writes'
      BY <2>4 DEF IdentityInv
    <3>3. /\ DOMAIN works' = Workers
          /\ \A v \in Workers \ {w} : works'[v] = works[v]
          /\ works'[w] \in Work /\ works'[w].step = "reply" /\ works'[w].is = works[w].is
          /\ works'[w].admin = works[w].admin /\ works'[w].checked <= writes'
      <4>1. PICK changed \in BOOLEAN, answer \in {"success", "failed"} :
              \/ works' = [works EXCEPT ![w].step = "reply", ![w].answer = answer,
                                        ![w].committed = changed]
              \/ works' = [works EXCEPT ![w].step = "reply", ![w].answer = answer]
        BY <2>4 DEF Replies
      <4> QED BY <3>2, <4>1, TransactMeans
    <3>4. \A v \in Workers : WorkSound(works[v])'
      BY <3>1, <3>2, <3>3, WorksAfterWrite
    <3> QED BY <3>1, <3>2, <3>3, <3>4 DEF IdentityInv
  <2>5. CASE \/ \E t \in TripCodes : Register(w, t) \/ RegisterNameByTrip(w, t)
                                     \/ RegisterTripByName(w, t)
             \/ GrantTrips(w) \/ DeleteIdentity(w)
    BY <2>4, <2>5, TransactionsWrite, NoEffectKeeps
  <2> QED BY <2>1, <2>2, <2>3, <2>5
<1> QED BY <1>1, <1>2

LEMMA RolesStep ==
  IdentityInv /\ [IdentityNext]_identityVars =>
    [\A t \in TripCodes : ResolveRole(t)' # ResolveRole(t) =>
        \E w \in Workers :
            \/ works[w].is = "access" /\ t \in works[w].targets /\ works[w].admin
            \/ works[w].is = "remove" /\ ~HasTrip(t)' /\ \E p \in tripNames : p[1] = t
      ]_identityVars
<1> SUFFICES ASSUME IdentityInv, IdentityNext, NEW t \in TripCodes, ResolveRole(t)' # ResolveRole(t)
             PROVE  \E w \in Workers :
                      \/ works[w].is = "access" /\ t \in works[w].targets /\ works[w].admin
                      \/ works[w].is = "remove" /\ ~HasTrip(t)' /\ \E p \in tripNames : p[1] = t
  OBVIOUS
<1>1. tripRoles' # tripRoles
  BY DEF ResolveRole, HasTrip
<1>2. PICK w \in Workers :
        \/ \E u \in TripCodes : Register(w, u) \/ RegisterNameByTrip(w, u) \/ RegisterTripByName(w, u)
        \/ GrantTrips(w) \/ DeleteIdentity(w)
  BY <1>1 DEF IdentityNext, AskRegister, AskRemove, AskAccess, Begin, IsNameRegistered,
              IsTripRegistered, Acknowledge, Cancelled
<1>3. Writes(w) /\ writes' = writes + 1
  BY <1>1, <1>2, TransactionsWrite
<1> QED BY <1>3, WritesKeep

(* For any commands, names, trips and failures of the database: a registered *)
(* name has an owner, two names that differ in case only come from           *)
(* registrations that overlapped, and a stored role changes only by a grant  *)
(* of an administrator or with the last name of its trip (identity.go,       *)
(* authorization.go, sql_util_group_b.go).                                   *)
THEOREM IdentitiesHold == IdentitySpec => IdentitiesAreKept
<1>1. IdentityInv => IdentityTypeOK /\ NamesHaveOwners /\ TwinsOverlapped
  <2> SUFFICES ASSUME IdentityInv PROVE IdentityTypeOK /\ NamesHaveOwners /\ TwinsOverlapped
    OBVIOUS
  <2>1. IdentityTypeOK
    BY DEF IdentityInv, RolesSound, TablesSound, IdentityTypeOK, HasTrip, NameIsFree
  <2>2. NamesHaveOwners /\ TwinsOverlapped
    BY DEF IdentityInv, TablesSound, NamesHaveOwners, TwinsOverlapped
  <2> QED BY <2>1, <2>2
<1>2. IdentitySpec => []IdentityInv
  BY IdentityInitially, IdentityStep, PTL DEF IdentitySpec
<1>3. IdentitySpec => RolesAreOnlyGranted
  BY <1>2, RolesStep, PTL DEF IdentitySpec, RolesAreOnlyGranted
<1> QED BY <1>1, <1>2, <1>3, PTL DEF IdentitiesAreKept

-----------------------------------------------------------------------------
(* The upgrade of the database *)

FileType ==
  [version : 0..6, messages : Shapes, mail : Shapes, blanks : BOOLEAN, trips : Shapes,
   rows : SUBSET OldTrips, highest : 0..MaxTrip, indexes : SUBSET {"index"},
   links : SUBSET OldTrips, summary : Shapes, nulls : BOOLEAN, notes : SUBSET {"summary"}]

Opener ==
  [step : Steps \union {"closed", "failed", "rolled back", "open", "refused"},
   draft : FileType, keys : BOOLEAN, found : 0..6, faulted : BOOLEAN]

\* The steps inside the transaction, and those after each of its changes.
SinceCheck == {"checked", "recorded"}
SinceSummary == SinceCheck \union {"summary"}
SinceTrips == SinceSummary \union {"trips"}
SinceFill == SinceTrips \union {"filled"}
SinceInstall == SinceFill \union {"installed"}
SinceWiden == SinceInstall \union {"widened"}
SinceVersion == SinceWiden \union {"known"}
InTx == SinceVersion \union {"begun"}

\* The draft holds what the file holds, in the shape reached so far.
DraftSound(step, d, found) ==
  /\ d.rows = file.rows /\ d.links = file.links /\ d.notes = file.notes
  /\ d.indexes = file.indexes /\ d.highest = file.highest /\ d.nulls = file.nulls
  /\ d.version = (IF step = "recorded" THEN currentSchemaVersion ELSE file.version)
  /\ step \in SinceVersion => file.version <= currentSchemaVersion /\ found = file.version
  /\ step \in SinceWiden => d.messages # "old" /\ d.mail # "old"
  /\ step \in SinceInstall => d.trips # "none" /\ d.summary # "none"
  /\ step \in SinceInstall \/ d.summary = file.summary
  /\ step \in SinceFill => ~d.blanks
  /\ (d.trips = "custom") <=> (file.trips = "custom")
  /\ step \in SinceTrips => d.trips = "current"
  /\ (d.summary = "custom") <=> (file.summary = "custom")
  /\ d.summary = "current" => ~file.nulls
  /\ step \in SinceSummary => d.summary = "current"
  /\ step \in SinceCheck => file.links \subseteq file.rows

OpenerSound(s, o) ==
  /\ o \in Opener
  /\ o.step \in InTx => DraftSound(o.step, o.draft, o.found) /\ locked = {s}
  /\ o.step \in InTx \union {"suspended"} => ~o.keys
  /\ s \in locked => o.step \in InTx \union {"failed"}
  /\ o.step \in {"committed", "open"} => Current(file)
  /\ o.step = "open" => o.keys
  /\ o.step \in {"failed", "rolled back", "refused"} => Unsupported(file) \/ o.faulted

FileSound ==
  /\ file \in FileType /\ file.rows \subseteq 1..file.highest
  /\ file.nulls => file.summary \in {"old", "custom"}
  /\ kept = Kept(file)

SchemaInv ==
  /\ FileSound /\ (locked = {} \/ \E s \in Openers : locked = {s})
  /\ diskFaults \in 0..MaxDiskFaults
  /\ DOMAIN opening = Openers /\ \A s \in Openers : OpenerSound(s, opening[s])

-----------------------------------------------------------------------------
LEMMA NoFileIsAFile == NoFile \in FileType
<1>1. 0 \in 0..6 /\ 0 \in 0..MaxTrip /\ {} \in SUBSET OldTrips
  BY SchemaAssumption
<1> QED BY <1>1 DEF NoFile, FileType, Shapes

LEMMA ClosedIsSound ==
  ASSUME NEW s \in Openers, s \notin locked
  PROVE  OpenerSound(s, Closed)
<1>1. Closed \in Opener
  BY NoFileIsAFile DEF Closed, Opener
<1>2. Closed.step = "closed"
  BY DEF Closed
<1> QED BY <1>1, <1>2 DEF OpenerSound, InTx, SinceVersion, SinceWiden, SinceInstall, SinceFill,
                          SinceTrips, SinceSummary, SinceCheck

LEMMA SchemaInitially == SchemaInit => SchemaInv
<1> SUFFICES ASSUME SchemaInit PROVE SchemaInv
  OBVIOUS
<1>1. FileSound
  BY NoFileIsAFile DEF SchemaInit, FileSound, NoFile
<1>2. diskFaults \in 0..MaxDiskFaults
  BY SchemaAssumption DEF SchemaInit
<1> QED BY <1>1, <1>2, ClosedIsSound DEF SchemaInit, SchemaInv

\* The rows of a file never pass its mark.
LEMMA TheMarkIsHighest ==
  ASSUME NEW h \in Nat, NEW rows, rows \subseteq 1..h
  PROVE  Max({h} \union rows) = h
<1>1. h \in {h} \union rows /\ \A y \in {h} \union rows : h >= y
  OBVIOUS
<1>2. \A x \in {h} \union rows : (\A y \in {h} \union rows : x >= y) => x = h
  OBVIOUS
<1> QED BY <1>1, <1>2 DEF Max

\* A start that did not move stays sound while the file and its lock stay.
LEMMA OpenerStaysSound ==
  ASSUME NEW r \in Openers, OpenerSound(r, opening[r]), opening'[r] = opening[r], file' = file,
         opening[r].step \in InTx => locked' = {r}, r \in locked' => r \in locked
  PROVE  OpenerSound(r, opening[r])'
<1>1. PICK o : o = opening[r]
  OBVIOUS
<1>2. o.step \in InTx => DraftSound(o.step, o.draft, o.found)'
  <2>1. o.step \in InTx => DraftSound(o.step, o.draft, o.found)
    BY <1>1 DEF OpenerSound
  <2> QED BY <2>1 DEF DraftSound
<1>3. o.step \in {"committed", "open"} => Current(file)'
  BY <1>1 DEF OpenerSound, Current
<1>4. o.step \in {"failed", "rolled back", "refused"} => Unsupported(file)' \/ o.faulted
  BY <1>1 DEF OpenerSound, Unsupported
<1>5. r \in locked' => o.step \in InTx \union {"failed"}
  BY <1>1 DEF OpenerSound
<1>6. /\ o \in Opener
      /\ o.step \in InTx \union {"suspended"} => ~o.keys
      /\ o.step = "open" => o.keys
  BY <1>1 DEF OpenerSound
<1> QED BY <1>1, <1>2, <1>3, <1>4, <1>5, <1>6 DEF OpenerSound

\* Steps of one start that leave the file alone.
LEMMA OnlyOpening ==
  ASSUME SchemaInv, NEW s \in Openers, NEW o, opening' = [opening EXCEPT ![s] = o],
         OpenerSound(s, o), UNCHANGED <<file, locked, kept, diskFaults>>
  PROVE  SchemaInv'
<1>1. (FileSound /\ (locked = {} \/ \E r \in Openers : locked = {r})
       /\ diskFaults \in 0..MaxDiskFaults)'
  BY DEF SchemaInv, FileSound
<1>2. ASSUME NEW r \in Openers PROVE OpenerSound(r, opening[r])'
  <2>1. PICK q : q = opening'[r]
    OBVIOUS
  <2>2. OpenerSound(r, q)
    BY <2>1 DEF SchemaInv
  <2>3. OpenerSound(r, q)'
    <3>1. q.step \in InTx => DraftSound(q.step, q.draft, q.found)'
      BY <2>2 DEF OpenerSound, DraftSound
    <3> QED BY <2>2, <3>1 DEF OpenerSound
  <2> QED BY <2>1, <2>3
<1> QED BY <1>1, <1>2 DEF SchemaInv

LEMMA DeployKeeps == ASSUME SchemaInv, Deploy PROVE SchemaInv'
<1>1. PICK version \in {0, 4, 5, 6}, table \in {"old", "current", "custom"},
           highest \in 0..(MaxTrip - 1), summary \in Shapes, nulls \in BOOLEAN,
           indexes \in SUBSET {"index"} :
        \E rows \in SUBSET (1..highest) : \E links \in SUBSET (1..highest) :
        /\ nulls => summary \in {"old", "custom"}
        /\ file' = LeftRow(version, table, highest, rows, links, indexes, summary, nulls)
        /\ kept' = Kept(file')
  BY DEF Deploy
<1>8. PICK rows \in SUBSET (1..highest), links \in SUBSET (1..highest) :
        /\ nulls => summary \in {"old", "custom"}
        /\ file' = LeftRow(version, table, highest, rows, links, indexes, summary, nulls)
        /\ kept' = Kept(file')
  BY <1>1
<1>2. highest \in 0..MaxTrip /\ rows \subseteq OldTrips /\ links \subseteq OldTrips
  BY SchemaAssumption DEF OldTrips
<1>3. file' \in FileType
  <2>1. version \in 0..6 /\ table \in Shapes
    BY DEF Shapes
  <2> QED BY <1>2, <1>8, <2>1 DEF LeftRow, FileType
<1>4. FileSound'
  BY <1>3, <1>8 DEF LeftRow, FileSound
<1>5. \A s \in Openers : opening[s] = Closed
  BY DEF Deploy
<1>6. \A s \in Openers : s \notin locked
  <2>1. Closed.step = "closed"
    BY DEF Closed
  <2> QED BY <1>5, <2>1 DEF SchemaInv, OpenerSound, InTx, SinceVersion, SinceWiden, SinceInstall,
              SinceFill, SinceTrips, SinceSummary, SinceCheck
<1>7. ASSUME NEW s \in Openers PROVE OpenerSound(s, opening[s])'
  <2>1. Closed \in Opener /\ Closed.step = "closed"
    BY NoFileIsAFile DEF Closed, Opener
  <2>2. opening'[s] = Closed /\ s \notin locked'
    BY <1>5, <1>6 DEF Deploy
  <2> QED BY <2>1, <2>2 DEF OpenerSound, InTx, SinceVersion, SinceWiden, SinceInstall, SinceFill,
                            SinceTrips, SinceSummary, SinceCheck
<1> QED BY <1>4, <1>7 DEF SchemaInv, Deploy

\* Faults, and the steps outside the transaction.
LEMMA OutsideKeeps ==
  ASSUME SchemaInv, NEW s \in Openers,
         Ping(s) \/ SuspendKeys(s) \/ BeginTx(s) \/ Rollback(s) \/ RestoreKeys(s) \/ Fail(s) \/ Die(s)
  PROVE  SchemaInv'
<1> USE DEF InTx, SinceVersion, SinceWiden, SinceInstall, SinceFill, SinceTrips, SinceSummary, SinceCheck
<1>0. OpenerSound(s, opening[s]) /\ FileSound /\ DOMAIN opening = Openers
  BY DEF SchemaInv
<1>1. CASE Ping(s)
  <2>1. PICK o : o = [opening[s] EXCEPT !.step = "connected"]
    OBVIOUS
  <2>2. OpenerSound(s, o)
    BY <1>0, <1>1, <2>1 DEF OpenerSound, Opener, Steps, Ping, AtPoint
  <2>3. opening' = [opening EXCEPT ![s] = o]
    BY <1>0, <1>1, <2>1 DEF Ping, Move
  <2> QED BY <1>1, <2>2, <2>3, OnlyOpening DEF Ping, Elsewhere
<1>2. CASE SuspendKeys(s)
  <2>1. PICK o : o = [opening[s] EXCEPT !.step = "suspended", !.keys = FALSE]
    OBVIOUS
  <2>2. OpenerSound(s, o)
    BY <1>0, <1>2, <2>1 DEF OpenerSound, Opener, Steps, SuspendKeys, AtPoint
  <2>3. opening' = [opening EXCEPT ![s] = o]
    BY <1>0, <1>2, <2>1 DEF SuspendKeys
  <2> QED BY <1>2, <2>2, <2>3, OnlyOpening DEF SuspendKeys, Elsewhere
<1>3. CASE BeginTx(s)
  <2>1. PICK o : o = [opening[s] EXCEPT !.step = "begun", !.draft = file]
    OBVIOUS
  <2>2. o \in Opener /\ o.step = "begun" /\ o.draft = file /\ o.keys = opening[s].keys
    BY <1>0, <2>1 DEF OpenerSound, Opener, Steps, FileSound
  <2>3. DraftSound(o.step, o.draft, o.found)
    BY <1>0, <2>2 DEF DraftSound, FileSound
  <2>4. opening' = [opening EXCEPT ![s] = o] /\ locked = {} /\ locked' = {s}
        /\ UNCHANGED <<file, kept, diskFaults>>
    BY <1>0, <1>3, <2>1 DEF BeginTx
  <2>5. ~o.keys
    BY <1>0, <1>3, <2>2 DEF OpenerSound, BeginTx, AtPoint
  <2>6. OpenerSound(s, opening[s])'
    <3>1. DraftSound(o.step, o.draft, o.found)'
      BY <2>3, <2>4 DEF DraftSound
    <3>2. opening'[s] = o
      BY <1>0, <2>4
    <3> QED BY <2>2, <2>4, <2>5, <3>1, <3>2 DEF OpenerSound, DraftSound
  <2>7. ASSUME NEW r \in Openers \ {s} PROVE OpenerSound(r, opening[r])'
    <3>1. OpenerSound(r, opening[r]) /\ opening'[r] = opening[r]
      BY <2>4 DEF SchemaInv
    <3>2. opening[r].step \notin InTx
      BY <2>4, <3>1 DEF OpenerSound
    <3> QED BY <2>4, <3>1, <3>2 DEF OpenerSound
  <2>8. FileSound' /\ diskFaults' \in 0..MaxDiskFaults
    BY <1>0, <2>4 DEF FileSound, SchemaInv
  <2> QED BY <1>0, <2>4, <2>6, <2>7, <2>8 DEF SchemaInv
<1>4. CASE Rollback(s)
  <2>1. PICK o : o = [opening[s] EXCEPT !.step = "rolled back"]
    OBVIOUS
  <2>2. o \in Opener /\ o.step = "rolled back" /\ o.faulted = opening[s].faulted
    BY <1>0, <2>1 DEF OpenerSound, Opener
  <2>3. opening' = [opening EXCEPT ![s] = o] /\ locked' = locked \ {s}
        /\ UNCHANGED <<file, kept, diskFaults>>
    BY <1>0, <1>4, <2>1 DEF Rollback, Move
  <2>4. opening[s].step = "failed"
    BY <1>4 DEF Rollback, AtPoint
  <2>5. OpenerSound(s, o)'
    BY <1>0, <2>2, <2>3, <2>4 DEF OpenerSound, Unsupported
  <2>6. ASSUME NEW r \in Openers PROVE OpenerSound(r, opening[r])'
    <3>1. CASE r = s
      BY <1>0, <2>3, <2>5, <3>1
    <3>2. CASE r # s
      <4>1. OpenerSound(r, opening[r]) /\ opening'[r] = opening[r]
        BY <2>3, <3>2 DEF SchemaInv
      <4>2. opening[r].step \in InTx => locked' = {r}
        BY <2>3, <3>2, <4>1 DEF OpenerSound
      <4> QED BY <2>3, <4>1, <4>2, OpenerStaysSound
    <3> QED BY <3>1, <3>2
  <2>7. FileSound' /\ diskFaults' \in 0..MaxDiskFaults
        /\ (locked' = {} \/ \E r \in Openers : locked' = {r})
    BY <1>0, <2>3 DEF FileSound, SchemaInv
  <2> QED BY <1>0, <2>3, <2>6, <2>7 DEF SchemaInv
<1>5. CASE RestoreKeys(s)
  <2>1. PICK o : o = [opening[s] EXCEPT !.keys = opening[s].keys \/ s \notin locked,
                       !.step = IF opening[s].step = "committed" THEN "open" ELSE "refused"]
    OBVIOUS
  <2>2. s \notin locked
    BY <1>0, <1>5 DEF OpenerSound, RestoreKeys
  <2>3. /\ o \in Opener /\ o.faulted = opening[s].faulted /\ o.keys
        /\ o.step = IF opening[s].step = "committed" THEN "open" ELSE "refused"
    BY <1>0, <2>1, <2>2 DEF OpenerSound, Opener
  <2>4. OpenerSound(s, o)
    BY <1>0, <1>5, <2>2, <2>3 DEF OpenerSound, RestoreKeys
  <2>5. opening' = [opening EXCEPT ![s] = o]
    BY <1>0, <1>5, <2>1 DEF RestoreKeys
  <2> QED BY <1>5, <2>4, <2>5, OnlyOpening DEF RestoreKeys, Elsewhere
<1>6. CASE Fail(s)
  <2>1. PICK o : o = [opening[s] EXCEPT !.step = "failed", !.faulted = TRUE]
    OBVIOUS
  <2>2. o \in Opener /\ o.step = "failed" /\ o.faulted = TRUE
    BY <1>0, <2>1 DEF OpenerSound, Opener
  <2>3. opening' = [opening EXCEPT ![s] = o] /\ UNCHANGED <<file, locked, kept>>
    BY <1>0, <1>6, <2>1 DEF Fail
  <2>4. diskFaults' \in 0..MaxDiskFaults
    BY <1>6, SchemaAssumption DEF Fail, SchemaInv
  <2>5. ASSUME NEW r \in Openers PROVE OpenerSound(r, opening[r])'
    <3>1. OpenerSound(r, opening'[r])
      BY <1>0, <2>2, <2>3 DEF OpenerSound, SchemaInv
    <3> QED BY <2>3, <3>1 DEF OpenerSound, DraftSound
  <2>6. FileSound' /\ (locked' = {} \/ \E r \in Openers : locked' = {r})
    BY <1>0, <2>3 DEF FileSound, SchemaInv
  <2> QED BY <1>0, <2>3, <2>4, <2>5, <2>6 DEF SchemaInv
<1>7. CASE Die(s)
  <2>1. /\ opening' = [opening EXCEPT ![s] = Closed] /\ locked' = locked \ {s}
        /\ UNCHANGED <<file, kept>> /\ diskFaults' \in 0..MaxDiskFaults
    BY <1>7, SchemaAssumption DEF Die, SchemaInv
  <2>2. ASSUME NEW r \in Openers PROVE OpenerSound(r, opening[r])'
    <3>1. CASE r = s
      <4>1. Closed \in Opener /\ Closed.step = "closed"
        BY NoFileIsAFile DEF Closed, Opener
      <4> QED BY <1>0, <2>1, <3>1, <4>1 DEF OpenerSound
    <3>2. CASE r # s
      <4>1. OpenerSound(r, opening[r]) /\ opening'[r] = opening[r]
        BY <2>1, <3>2 DEF SchemaInv
      <4>2. opening[r].step \in InTx => locked' = {r}
        BY <2>1, <3>2, <4>1 DEF OpenerSound
      <4> QED BY <2>1, <4>1, <4>2, OpenerStaysSound
    <3> QED BY <3>1, <3>2
  <2>3. FileSound' /\ (locked' = {} \/ \E r \in Openers : locked' = {r})
    BY <1>0, <2>1 DEF FileSound, SchemaInv
  <2> QED BY <1>0, <2>1, <2>2, <2>3 DEF SchemaInv
<1> QED BY <1>1, <1>2, <1>3, <1>4, <1>5, <1>6, <1>7
\* A refusal is deserved, and every change of the draft brings it closer to the
\* schema without touching what it holds.
LEMMA UpgradeKeeps ==
  ASSUME SchemaInv, NEW s \in Openers,
         CheckVersion(s) \/ EnsureColumns(s) \/ InstallSchema(s) \/ FillVisibility(s)
         \/ UpgradeTrips(s) \/ UpgradeSummary(s) \/ CheckKeys(s) \/ RecordVersion(s)
  PROVE  SchemaInv'
<1> USE DEF InTx, SinceVersion, SinceWiden, SinceInstall, SinceFill, SinceTrips, SinceSummary, SinceCheck
<1>0. OpenerSound(s, opening[s]) /\ FileSound /\ DOMAIN opening = Openers
  BY DEF SchemaInv
<1>1. PICK p : p = opening[s]
  OBVIOUS
<1>2. /\ p.step \in InTx /\ p \in Opener /\ p.draft \in FileType /\ locked = {s} /\ ~p.keys
      /\ DraftSound(p.step, p.draft, p.found) /\ UNCHANGED <<file, locked, kept, diskFaults>>
  BY <1>0, <1>1 DEF CheckVersion, EnsureColumns, InstallSchema, FillVisibility, UpgradeTrips,
                    UpgradeSummary, CheckKeys, RecordVersion, AtPoint, OpenerSound, Opener, Elsewhere
<1>3. PICK d : d = p.draft
  OBVIOUS
<1>4. d \in FileType
  BY <1>2, <1>3
<1>5. ASSUME Unsupported(file), opening' = [opening EXCEPT ![s].step = "failed"]
      PROVE  SchemaInv'
  <2>1. PICK o : o = [p EXCEPT !.step = "failed"]
    OBVIOUS
  <2>2. o \in Opener /\ o.step = "failed"
    BY <1>2, <2>1 DEF Opener
  <2>3. OpenerSound(s, o)
    BY <1>2, <1>5, <2>2 DEF OpenerSound
  <2>4. opening' = [opening EXCEPT ![s] = o]
    BY <1>0, <1>1, <1>5, <2>1
  <2> QED BY <1>2, <2>3, <2>4, OnlyOpening
<1>6. ASSUME NEW step \in InTx, NEW e \in FileType, NEW found \in 0..6,
             opening' = [opening EXCEPT ![s] = [p EXCEPT !.step = step, !.draft = e, !.found = found]],
             DraftSound(step, e, found)
      PROVE  SchemaInv'
  <2>1. PICK o : o = [p EXCEPT !.step = step, !.draft = e, !.found = found]
    OBVIOUS
  <2>2. o \in Opener /\ o.step = step /\ o.draft = e /\ o.found = found /\ ~o.keys
    BY <1>2, <2>1 DEF Opener, Steps
  <2>3. DraftSound(o.step, o.draft, o.found)
    BY <1>6, <2>2
  <2>4. OpenerSound(s, o)
    BY <1>2, <2>2, <2>3 DEF OpenerSound
  <2> QED BY <1>2, <1>6, <2>1, <2>4, OnlyOpening
<1>7. ASSUME NEW step, NEW e, opening' = [opening EXCEPT ![s].step = step, ![s].draft = e]
      PROVE  opening' = [opening EXCEPT ![s] = [p EXCEPT !.step = step, !.draft = e, !.found = p.found]]
  <2>1. [p EXCEPT !.step = step, !.draft = e] = [p EXCEPT !.step = step, !.draft = e, !.found = p.found]
    BY <1>2 DEF Opener
  <2> QED BY <1>0, <1>1, <1>7, <2>1
<1>8. ASSUME NEW step, opening' = [opening EXCEPT ![s].step = step]
      PROVE  opening' = [opening EXCEPT ![s] = [p EXCEPT !.step = step, !.draft = d, !.found = p.found]]
  <2>1. [p EXCEPT !.step = step] = [p EXCEPT !.step = step, !.draft = d, !.found = p.found]
    BY <1>2, <1>3 DEF Opener
  <2> QED BY <1>0, <1>1, <1>8, <2>1
<1>9. p.found \in 0..6
  BY <1>2 DEF Opener
<1>10. CASE CheckVersion(s)
  <2>1. p.step = "begun" /\ d.version = file.version
    BY <1>1, <1>2, <1>3, <1>10 DEF CheckVersion, AtPoint, DraftSound
  <2>2. CASE d.version > currentSchemaVersion
    <3>1. Unsupported(file)
      BY <2>1, <2>2 DEF Unsupported
    <3>2. opening' = [opening EXCEPT ![s].step = "failed"]
      BY <1>1, <1>3, <1>10, <2>2 DEF CheckVersion, Draft, RefuseStart, Move
    <3> QED BY <1>5, <3>1, <3>2
  <2>3. CASE ~(d.version > currentSchemaVersion)
    <3>1. opening' = [opening EXCEPT ![s].step = "known", ![s].found = d.version]
      BY <1>1, <1>3, <1>10, <2>3 DEF CheckVersion, Draft
    <3>2. [p EXCEPT !.step = "known", !.found = d.version] =
             [p EXCEPT !.step = "known", !.draft = d, !.found = d.version]
      BY <1>2, <1>3 DEF Opener
    <3>3. opening' = [opening EXCEPT ![s] = [p EXCEPT !.step = "known", !.draft = d, !.found = d.version]]
      BY <1>0, <1>1, <3>1, <3>2
    <3>4. file.version <= currentSchemaVersion
      BY <1>4, <2>1, <2>3 DEF FileType, currentSchemaVersion
    <3>5. DraftSound("known", d, d.version)
      BY <1>2, <1>3, <2>1, <3>4 DEF DraftSound
    <3>6. d.version \in 0..6
      BY <1>4 DEF FileType
    <3> QED BY <1>4, <1>6, <3>3, <3>5, <3>6
  <2> QED BY <2>2, <2>3
<1>11. CASE EnsureColumns(s)
  <2>1. PICK e : e = [d EXCEPT !.messages = Widened(@), !.mail = Widened(@),
                               !.blanks = @ \/ d.messages = "old"]
    OBVIOUS
  <2>2. p.step = "known" /\ opening' = [opening EXCEPT ![s].step = "widened", ![s].draft = e]
    BY <1>1, <1>3, <1>11, <2>1 DEF EnsureColumns, Draft, Write, AtPoint
  <2>3. /\ e \in FileType /\ e.rows = d.rows /\ e.links = d.links /\ e.notes = d.notes
        /\ e.indexes = d.indexes /\ e.highest = d.highest /\ e.nulls = d.nulls
        /\ e.version = d.version /\ e.trips = d.trips /\ e.summary = d.summary
        /\ e.messages # "old" /\ e.mail # "old"
    BY <1>4, <2>1 DEF FileType, Widened, Shapes
  <2>4. DraftSound("widened", e, p.found)
    BY <1>2, <1>3, <2>2, <2>3 DEF DraftSound
  <2> QED BY <1>6, <1>7, <1>9, <2>2, <2>3, <2>4
<1>12. CASE InstallSchema(s)
  <2>1. PICK e : e = [d EXCEPT !.messages = Installed(@), !.mail = Installed(@),
                               !.trips = Installed(@), !.summary = Installed(@)]
    OBVIOUS
  <2>2. p.step = "widened" /\ opening' = [opening EXCEPT ![s].step = "installed", ![s].draft = e]
    BY <1>1, <1>3, <1>12, <2>1 DEF InstallSchema, Draft, Write, AtPoint
  <2>3. /\ e \in FileType /\ e.rows = d.rows /\ e.links = d.links /\ e.notes = d.notes
        /\ e.indexes = d.indexes /\ e.highest = d.highest /\ e.nulls = d.nulls
        /\ e.version = d.version /\ e.messages = Installed(d.messages) /\ e.mail = Installed(d.mail)
        /\ e.trips = Installed(d.trips) /\ e.summary = Installed(d.summary)
    <3>1. \A shape \in Shapes : Installed(shape) \in Shapes
      BY DEF Installed, Shapes
    <3>2. e = [d EXCEPT !.messages = Installed(d.messages), !.mail = Installed(d.mail),
                        !.trips = Installed(d.trips), !.summary = Installed(d.summary)]
      BY <1>4, <2>1 DEF FileType
    <3> QED BY <1>4, <3>1, <3>2 DEF FileType
  <2>4. e.summary = "current" => ~file.nulls
    BY <1>0, <1>2, <1>3, <2>3 DEF DraftSound, Installed, FileSound
  <2>5. DraftSound("installed", e, p.found)
    BY <1>2, <1>3, <2>2, <2>3, <2>4 DEF DraftSound, Installed
  <2> QED BY <1>6, <1>7, <1>9, <2>2, <2>3, <2>5
<1>13. CASE FillVisibility(s)
  <2>1. PICK e : e = [d EXCEPT !.blanks = FALSE]
    OBVIOUS
  <2>2. p.step = "installed" /\ opening' = [opening EXCEPT ![s].step = "filled", ![s].draft = e]
    BY <1>1, <1>3, <1>13, <2>1 DEF FillVisibility, Draft, Write, AtPoint
  <2>3. /\ e \in FileType /\ e.rows = d.rows /\ e.links = d.links /\ e.notes = d.notes
        /\ e.indexes = d.indexes /\ e.highest = d.highest /\ e.nulls = d.nulls
        /\ e.version = d.version /\ e.messages = d.messages /\ e.mail = d.mail
        /\ e.trips = d.trips /\ e.summary = d.summary /\ e.blanks = FALSE
    BY <1>4, <2>1 DEF FileType
  <2>4. DraftSound("filled", e, p.found)
    BY <1>2, <1>3, <2>2, <2>3 DEF DraftSound
  <2> QED BY <1>6, <1>7, <1>9, <2>2, <2>3, <2>4
<1>14. CASE UpgradeTrips(s)
  <2>1. p.step = "filled"
    BY <1>1, <1>14 DEF UpgradeTrips, AtPoint
  <2>2. DropIsAllowed(s)
    BY <1>1, <1>2 DEF DropIsAllowed
  <2>3. CASE d.trips = "current"
    <3>1. opening' = [opening EXCEPT ![s].step = "trips"]
      BY <1>1, <1>3, <1>14, <2>3 DEF UpgradeTrips, Draft, Move
    <3>2. DraftSound("trips", d, p.found)
      BY <1>2, <1>3, <2>1, <2>3 DEF DraftSound
    <3> QED BY <1>4, <1>6, <1>8, <1>9, <3>1, <3>2
  <2>4. CASE d.trips = "custom"
    <3>1. Unsupported(file)
      BY <1>2, <1>3, <2>4 DEF DraftSound, Unsupported
    <3>2. opening' = [opening EXCEPT ![s].step = "failed"]
      BY <1>1, <1>3, <1>14, <2>4 DEF UpgradeTrips, Draft, RefuseStart, Move
    <3> QED BY <1>5, <3>1, <3>2
  <2>5. CASE d.trips # "current" /\ d.trips # "custom"
    <3>1. PICK e : e = [d EXCEPT !.trips = "current", !.highest = RestoredMark(d.highest, d.rows)]
      OBVIOUS
    <3>2. RestoredMark(d.highest, d.rows) = d.highest
      <4>1. d.highest = file.highest /\ d.rows = file.rows /\ d.highest \in Nat
        BY <1>2, <1>3, <1>4, SchemaAssumption DEF DraftSound, FileType
      <4> QED BY <1>0, <4>1, TheMarkIsHighest DEF RestoredMark, FileSound
    <3>3. opening' = [opening EXCEPT ![s].step = "trips", ![s].draft = e]
      BY <1>1, <1>3, <1>14, <2>2, <2>5, <3>1 DEF UpgradeTrips, Draft, Write
    <3>4. /\ e \in FileType /\ e.rows = d.rows /\ e.links = d.links /\ e.notes = d.notes
          /\ e.indexes = d.indexes /\ e.highest = d.highest /\ e.nulls = d.nulls
          /\ e.version = d.version /\ e.messages = d.messages /\ e.mail = d.mail
          /\ e.trips = "current" /\ e.summary = d.summary /\ e.blanks = d.blanks
      BY <1>4, <3>1, <3>2 DEF FileType, Shapes
    <3>5. file.trips # "custom"
      BY <1>2, <1>3, <2>5 DEF DraftSound
    <3>6. DraftSound("trips", e, p.found)
      BY <1>2, <1>3, <2>1, <3>4, <3>5 DEF DraftSound
    <3> QED BY <1>6, <1>7, <1>9, <3>3, <3>4, <3>6
  <2> QED BY <2>3, <2>4, <2>5
<1>15. CASE UpgradeSummary(s)
  <2>1. p.step = "trips"
    BY <1>1, <1>15 DEF UpgradeSummary, AtPoint
  <2>2. CASE d.summary = "current"
    <3>1. opening' = [opening EXCEPT ![s].step = "summary"]
      BY <1>1, <1>3, <1>15, <2>2 DEF UpgradeSummary, Draft, Move
    <3>2. DraftSound("summary", d, p.found)
      BY <1>2, <1>3, <2>1, <2>2 DEF DraftSound
    <3> QED BY <1>4, <1>6, <1>8, <1>9, <3>1, <3>2
  <2>3. CASE d.summary # "current" /\ (d.summary = "custom" \/ d.nulls)
    <3>1. Unsupported(file)
      BY <1>2, <1>3, <2>3 DEF DraftSound, Unsupported
    <3>2. opening' = [opening EXCEPT ![s].step = "failed"]
      BY <1>1, <1>3, <1>15, <2>3 DEF UpgradeSummary, Draft, RefuseStart, Move
    <3> QED BY <1>5, <3>1, <3>2
  <2>4. CASE d.summary # "current" /\ ~(d.summary = "custom" \/ d.nulls)
    <3>1. PICK e : e = [d EXCEPT !.summary = "current"]
      OBVIOUS
    <3>3. opening' = [opening EXCEPT ![s].step = "summary", ![s].draft = e]
      BY <1>1, <1>3, <1>15, <2>4, <3>1 DEF UpgradeSummary, Draft, Write
    <3>4. /\ e \in FileType /\ e.rows = d.rows /\ e.links = d.links /\ e.notes = d.notes
          /\ e.indexes = d.indexes /\ e.highest = d.highest /\ e.nulls = d.nulls
          /\ e.version = d.version /\ e.messages = d.messages /\ e.mail = d.mail
          /\ e.trips = d.trips /\ e.summary = "current" /\ e.blanks = d.blanks
      BY <1>4, <3>1 DEF FileType, Shapes
    <3>5. file.summary # "custom" /\ ~file.nulls
      BY <1>2, <1>3, <2>4 DEF DraftSound
    <3>6. DraftSound("summary", e, p.found)
      BY <1>2, <1>3, <2>1, <3>4, <3>5 DEF DraftSound
    <3> QED BY <1>6, <1>7, <1>9, <3>3, <3>4, <3>6
  <2> QED BY <2>2, <2>3, <2>4
<1>16. CASE CheckKeys(s)
  <2>1. p.step = "summary"
    BY <1>1, <1>16 DEF CheckKeys, AtPoint
  <2>2. CASE d.links \subseteq d.rows
    <3>1. opening' = [opening EXCEPT ![s].step = "checked"]
      BY <1>1, <1>3, <1>16, <2>2 DEF CheckKeys, Draft, Move
    <3>2. DraftSound("checked", d, p.found)
      BY <1>2, <1>3, <2>1, <2>2 DEF DraftSound
    <3> QED BY <1>4, <1>6, <1>8, <1>9, <3>1, <3>2
  <2>3. CASE ~(d.links \subseteq d.rows)
    <3>1. Unsupported(file)
      BY <1>2, <1>3, <2>3 DEF DraftSound, Unsupported
    <3>2. opening' = [opening EXCEPT ![s].step = "failed"]
      BY <1>1, <1>3, <1>16, <2>3 DEF CheckKeys, Draft, RefuseStart, Move
    <3> QED BY <1>5, <3>1, <3>2
  <2> QED BY <2>2, <2>3
<1>17. CASE RecordVersion(s)
  <2>1. p.step = "checked" /\ p.found = file.version /\ d.version = file.version
        /\ file.version <= currentSchemaVersion
    BY <1>1, <1>2, <1>3, <1>17 DEF RecordVersion, AtPoint, DraftSound
  <2>2. PICK e : e = IF p.found < currentSchemaVersion
                     THEN [d EXCEPT !.version = currentSchemaVersion] ELSE d
    OBVIOUS
  <2>3. opening' = [opening EXCEPT ![s].step = "recorded", ![s].draft = e]
    BY <1>1, <1>3, <1>17, <2>2 DEF RecordVersion, Draft, Write
  <2>4. e.version = currentSchemaVersion
    BY <1>4, <2>1, <2>2 DEF FileType, currentSchemaVersion
  <2>5. /\ e \in FileType /\ e.rows = d.rows /\ e.links = d.links /\ e.notes = d.notes
        /\ e.indexes = d.indexes /\ e.highest = d.highest /\ e.nulls = d.nulls
        /\ e.messages = d.messages /\ e.mail = d.mail
        /\ e.trips = d.trips /\ e.summary = d.summary /\ e.blanks = d.blanks
    BY <1>4, <2>2 DEF FileType, currentSchemaVersion
  <2>6. DraftSound("recorded", e, p.found)
    BY <1>2, <1>3, <2>1, <2>4, <2>5 DEF DraftSound
  <2> QED BY <1>6, <1>7, <1>9, <2>3, <2>5, <2>6
<1> QED BY <1>10, <1>11, <1>12, <1>13, <1>14, <1>15, <1>16, <1>17

-----------------------------------------------------------------------------
\* A start that was refused for the file's sake stays refused: nobody opens a
\* file that cannot be upgraded.
LEMMA CurrentIsSupported ==
  ASSUME FileSound, Current(file)
  PROVE  ~Unsupported(file)
<1>1. file.summary = "current" /\ file.trips = "current"
  BY DEF Current
<1>2. ~file.nulls
  BY <1>1 DEF FileSound
<1> QED BY <1>1, <1>2 DEF Current, Unsupported, currentSchemaVersion

LEMMA CommitKeeps ==
  ASSUME SchemaInv, NEW s \in Openers, Commit(s)
  PROVE  SchemaInv'
<1> USE DEF InTx, SinceVersion, SinceWiden, SinceInstall, SinceFill, SinceTrips, SinceSummary, SinceCheck
<1>0. OpenerSound(s, opening[s]) /\ FileSound /\ DOMAIN opening = Openers
  BY DEF SchemaInv
<1>1. PICK p : p = opening[s]
  OBVIOUS
<1>2. /\ p.step = "recorded" /\ p \in Opener /\ p.draft \in FileType /\ locked = {s} /\ DraftSound(p.step, p.draft, p.found)
      /\ file' = p.draft /\ locked' = {} /\ UNCHANGED <<kept, diskFaults>>
      /\ opening' = [opening EXCEPT ![s].step = "committed"]
  BY <1>0, <1>1 DEF Commit, AtPoint, OpenerSound, Opener, Draft, Move
<1>3. Kept(file') = Kept(file) /\ file'.highest = file.highest /\ file'.rows = file.rows
      /\ file'.nulls = file.nulls
  BY <1>2 DEF DraftSound, Kept
<1>4. Current(file') /\ ~Unsupported(file)
  <2>1. Current(file')
    BY <1>2 DEF DraftSound, Current
  <2>2. file.trips # "custom" /\ file.summary # "custom" /\ ~file.nulls
        /\ file.version <= currentSchemaVersion /\ file.links \subseteq file.rows
    BY <1>2 DEF DraftSound
  <2>3. ~(file.version > currentSchemaVersion)
    BY <1>0, <2>2 DEF FileSound, FileType, currentSchemaVersion
  <2> QED BY <2>1, <2>2, <2>3 DEF Unsupported
<1>5. FileSound'
  BY <1>0, <1>2, <1>3, <1>4 DEF FileSound, Current, DraftSound
<1>6. ASSUME NEW r \in Openers PROVE OpenerSound(r, opening[r])'
  <2>1. CASE r = s
    <3>1. PICK o : o = [p EXCEPT !.step = "committed"]
      OBVIOUS
    <3>2. o \in Opener /\ o.step = "committed"
      BY <1>2, <3>1 DEF Opener, Steps
    <3>3. opening'[r] = o
      BY <1>0, <1>1, <1>2, <2>1, <3>1
    <3> QED BY <1>2, <1>4, <3>2, <3>3 DEF OpenerSound
  <2>2. CASE r # s
    <3>1. OpenerSound(r, opening[r]) /\ opening'[r] = opening[r]
      BY <1>2, <2>2 DEF SchemaInv
    <3>2. opening[r].step \notin InTx
      BY <1>2, <2>2, <3>1 DEF OpenerSound
    <3>3. opening[r].step \in {"failed", "rolled back", "refused"} => opening[r].faulted
      BY <1>4, <3>1 DEF OpenerSound
    <3> QED BY <1>2, <1>4, <3>1, <3>2, <3>3 DEF OpenerSound
  <2> QED BY <2>1, <2>2
<1> QED BY <1>0, <1>2, <1>5, <1>6 DEF SchemaInv

LEMMA WorkKeeps ==
  ASSUME SchemaInv, NEW s \in Openers, AddTrip(s) \/ LinkTrip(s) \/ RemoveTrip(s)
  PROVE  SchemaInv'
<1> USE DEF InTx, SinceVersion, SinceWiden, SinceInstall, SinceFill, SinceTrips, SinceSummary, SinceCheck
<1>0. /\ OpenerSound(s, opening[s]) /\ FileSound /\ DOMAIN opening = Openers
      /\ file \in FileType /\ kept = Kept(file)
  BY DEF SchemaInv, FileSound
<1>1. Unlocked(s) /\ UNCHANGED <<opening, locked, diskFaults>>
  BY DEF AddTrip, LinkTrip, RemoveTrip
<1>2. locked = {} /\ Current(file) /\ ~Unsupported(file)
  BY <1>0, <1>1, CurrentIsSupported DEF Unlocked, AtPoint, OpenerSound
<1>3. file.highest \in Nat /\ file.rows \subseteq 1..file.highest
      /\ file.rows \subseteq OldTrips /\ file.links \subseteq OldTrips /\ file.highest \in 0..MaxTrip
  BY <1>0, SchemaAssumption DEF FileSound, FileType
<1>4. /\ file' \in FileType /\ file'.rows \subseteq 1..file'.highest /\ kept' = Kept(file')
      /\ Current(file') /\ file'.nulls = file.nulls
  <2>1. CASE AddTrip(s)
    <3>1. NextNumber = file.highest + 1
      <4>1. Max({file.highest} \union file.rows) = file.highest
        BY <1>3, TheMarkIsHighest
      <4> QED BY <1>3, <4>1 DEF NextNumber
    <3>2. PICK n : n = file.highest + 1
      OBVIOUS
    <3>3. /\ n <= MaxTrip /\ file' = [file EXCEPT !.rows = @ \union {n}, !.highest = n]
          /\ kept' = [kept EXCEPT !.rows = @ \union {n}, !.given = @ \union {n}]
      BY <2>1, <3>1, <3>2 DEF AddTrip
    <3>4. n \in 0..MaxTrip /\ n \in OldTrips /\ 1..n = (1..file.highest) \union {n}
          /\ file.rows \union {n} \subseteq 1..n
      BY <1>3, <3>2, <3>3, SchemaAssumption DEF OldTrips
    <3>5. /\ file' \in FileType /\ file'.rows = file.rows \union {n} /\ file'.highest = n
          /\ file'.links = file.links /\ file'.indexes = file.indexes /\ file'.notes = file.notes
          /\ file'.nulls = file.nulls /\ file'.trips = file.trips /\ file'.summary = file.summary
          /\ file'.messages = file.messages /\ file'.mail = file.mail
          /\ file'.version = file.version /\ file'.blanks = file.blanks
      BY <1>0, <1>3, <3>3, <3>4 DEF FileType
    <3>6. kept' = Kept(file')
      BY <1>0, <3>3, <3>4, <3>5 DEF Kept
    <3>7. Current(file')
      BY <1>2, <3>5 DEF Current
    <3> QED BY <3>4, <3>5, <3>6, <3>7
  <2>2. CASE LinkTrip(s)
    <3>1. PICK t \in file.rows : file' = [file EXCEPT !.links = @ \union {t}]
                              /\ kept' = [kept EXCEPT !.links = @ \union {t}]
      BY <2>2 DEF LinkTrip
    <3>2. /\ file' \in FileType /\ file'.rows = file.rows /\ file'.highest = file.highest
          /\ file'.links = file.links \union {t} /\ file'.indexes = file.indexes
          /\ file'.notes = file.notes
          /\ file'.nulls = file.nulls /\ file'.trips = file.trips /\ file'.summary = file.summary
          /\ file'.messages = file.messages /\ file'.mail = file.mail
          /\ file'.version = file.version /\ file'.blanks = file.blanks
      BY <1>0, <1>3, <3>1 DEF FileType
    <3>3. kept' = Kept(file')
      BY <1>0, <3>1, <3>2 DEF Kept
    <3>4. Current(file')
      BY <1>2, <3>2 DEF Current
    <3> QED BY <1>3, <3>2, <3>3, <3>4
  <2>3. CASE RemoveTrip(s)
    <3>1. PICK t \in file.rows : file' = [file EXCEPT !.rows = @ \ {t}, !.links = @ \ {t}]
                              /\ kept' = [kept EXCEPT !.rows = @ \ {t}, !.links = @ \ {t}]
      BY <2>3 DEF RemoveTrip
    <3>2. /\ file' \in FileType /\ file'.rows = file.rows \ {t} /\ file'.highest = file.highest
          /\ file'.links = file.links \ {t} /\ file'.indexes = file.indexes
          /\ file'.notes = file.notes
          /\ file'.nulls = file.nulls /\ file'.trips = file.trips /\ file'.summary = file.summary
          /\ file'.messages = file.messages /\ file'.mail = file.mail
          /\ file'.version = file.version /\ file'.blanks = file.blanks
      BY <1>0, <1>3, <3>1 DEF FileType
    <3>3. kept' = Kept(file')
      BY <1>0, <3>1, <3>2 DEF Kept
    <3>4. Current(file')
      BY <1>2, <3>2 DEF Current
    <3> QED BY <1>3, <3>2, <3>3, <3>4
  <2> QED BY <2>1, <2>2, <2>3
<1>5. FileSound'
  BY <1>0, <1>2, <1>4 DEF FileSound, Current
<1>6. ASSUME NEW r \in Openers PROVE OpenerSound(r, opening[r])'
  <2>1. OpenerSound(r, opening[r]) /\ opening[r].step \notin InTx
    BY <1>2 DEF SchemaInv, OpenerSound
  <2>2. opening[r].step \in {"failed", "rolled back", "refused"} => opening[r].faulted
    BY <1>2, <2>1 DEF OpenerSound
  <2> QED BY <1>1, <1>4, <2>1, <2>2 DEF OpenerSound
<1> QED BY <1>0, <1>1, <1>5, <1>6 DEF SchemaInv

LEMMA SchemaStep == SchemaInv /\ [SchemaNext]_schemaVars => SchemaInv'
<1> SUFFICES ASSUME SchemaInv, [SchemaNext]_schemaVars PROVE SchemaInv'
  OBVIOUS
<1>1. CASE UNCHANGED schemaVars
  <2>1. UNCHANGED <<file, opening, locked, kept, diskFaults>>
    BY <1>1 DEF schemaVars
  <2>2. ASSUME NEW s \in Openers PROVE OpenerSound(s, opening[s])'
    BY <2>1 DEF SchemaInv, OpenerSound, DraftSound
  <2> QED BY <2>1, <2>2 DEF SchemaInv, FileSound
<1>2. CASE Deploy
  BY <1>2, DeployKeeps
<1>3. ASSUME NEW s \in Openers,
             Ping(s) \/ Bootstrap(s) \/ Fail(s) \/ Die(s) \/ AddTrip(s) \/ LinkTrip(s) \/ RemoveTrip(s)
      PROVE  SchemaInv'
  BY <1>3, OutsideKeeps, UpgradeKeeps, CommitKeeps, WorkKeeps DEF Bootstrap
<1> QED BY <1>1, <1>2, <1>3 DEF SchemaNext

(* Whatever starts, failures and crashes there are, on any file an earlier   *)
(* release left: no row, link, index or note is lost, no number of a trip is *)
(* given twice, a database that was opened has the current schema and        *)
(* enforces its keys, and one that was refused for no failure cannot be      *)
(* upgraded (sqlite/database.go).                                            *)
THEOREM UpgradesAreSafe == SchemaSpec => []UpgradeIsSafe
<1>1. SchemaInv => UpgradeIsSafe
  <2> SUFFICES ASSUME SchemaInv PROVE UpgradeIsSafe
    OBVIOUS
  <2>1. locked \subseteq Openers /\ Cardinality(locked) <= 1
    <3>1. CASE locked = {}
      BY <3>1, FS_EmptySet
    <3>2. CASE locked # {}
      <4>1. PICK s \in Openers : locked = {s}
        BY <3>2 DEF SchemaInv
      <4> QED BY <4>1, FS_Singleton
    <3> QED BY <3>1, <3>2
  <2>2. file \in FileType /\ diskFaults \in 0..MaxDiskFaults
    BY DEF SchemaInv, FileSound
  <2>3. SchemaTypeOK
    <3>1. \A s \in Openers : opening[s] \in Opener
      BY DEF SchemaInv, OpenerSound
    <3>2. \A s \in Openers : opening[s].step \in Steps \union {"closed", "failed", "rolled back", "open", "refused"}
      BY <3>1 DEF Opener
    <3> QED BY <2>1, <2>2, <3>2 DEF SchemaTypeOK, FileType
  <2>4. NothingIsLost
    <3>1. kept = Kept(file) /\ file.highest \in Nat
      BY <2>2, SchemaAssumption DEF SchemaInv, FileSound, FileType
    <3> QED BY <3>1 DEF NothingIsLost, Kept
  <2>5. OpenIsSound
    BY DEF SchemaInv, OpenerSound, OpenIsSound, AtPoint
  <2> QED BY <2>3, <2>4, <2>5 DEF UpgradeIsSafe
<1>2. SchemaSpec => []SchemaInv
  BY SchemaInitially, SchemaStep, PTL DEF SchemaSpec
<1> QED BY <1>1, <1>2, PTL

-----------------------------------------------------------------------------
(* Offline mail *)

\* A call at work has a mail in hand; from its claim on it has an attempt.
Working ==
    \A d \in Deliveries :
      /\ pc[d] # "idle" => todo[d] # {} /\ trip[d] \in Trips
      /\ pc[d] \in {"claimed", "sending", "finalize", "mark"} <=> attempt[d] # NoAttempt
      /\ pc[d] = "finalize" => verdict[d] # "none"

\* Two calls never hold the same attempt of the same pair.
Distinct ==
    \A d, e \in Deliveries :
      d # e /\ attempt[d] # NoAttempt /\ attempt[e] = attempt[d] => Pair(d) # Pair(e)

\* Between its claim and its receipt a call owns its row; what it has sent.
Owning ==
    \A d \in Deliveries :
      /\ pc[d] \in {"claimed", "sending", "finalize"} => Owns(d)
      /\ pc[d] \in {"claimed", "sending"} => sends[Pair(d)] = 0
      /\ pc[d] = "finalize" /\ verdict[d] = "PENDING" => sends[Pair(d)] = 0
      /\ pc[d] = "finalize" /\ verdict[d] = "ACCEPTED" => Pair(d) \in accepted

\* Rows belong to recipients of queued mail and to an attempt.
RowsAddressed ==
    \A m \in Mails, t \in Trips :
      row[<<m, t>>].state # "none" => t \in receivers[m] /\ row[<<m, t>>].attempt # NoAttempt

MInv == /\ MTypeOK /\ Working /\ Distinct /\ Owning /\ RowsAddressed
        /\ SentAtMostOnce /\ RowsAreTrue /\ StuckMailIsReported

(* A nonempty set of mails has a least element, and Min picks it.          *)
LEMMA MinIsMember ==
    ASSUME NEW S \in SUBSET Mails, S # {}
    PROVE  Min(S) \in S
  <1>1. S \subseteq Nat
    BY MailAssumption DEF Mails
  <1> DEFINE Less == {ss \in Nat \X Nat : ss[1] < ss[2]}
  <1>2. IsWellFoundedOn(Less, Nat)
    BY NatLessThanWellFounded, Zenon DEF OpToRel
  <1>3. PICK x \in S : \A y \in S : ~ (<<y, x>> \in Less)
    <2> HIDE DEF Less
    <2> QED
      BY <1>1, <1>2, WFMin
  <1>4. \A y \in S : x =< y
    <2> SUFFICES ASSUME NEW y \in S PROVE x =< y
      OBVIOUS
    <2>1. x \in Nat /\ y \in Nat /\ ~ (<<y, x>> \in Less)
      BY <1>1, <1>3
    <2>2. y < x => <<y, x>> \in Less
      BY <2>1
    <2> QED
      BY <2>1, <2>2
  <1> QED
    BY <1>4 DEF Min

(* A call at work is about a pair of the table.                            *)
LEMMA PairIsInTable ==
    ASSUME MTypeOK, Working, NEW d \in Deliveries, pc[d] # "idle"
    PROVE  Mail(d) \in Mails /\ Mail(d) \in todo[d] /\ Pair(d) \in Mails \X Trips
  <1>1. todo[d] \in SUBSET Mails /\ todo[d] # {} /\ trip[d] \in Trips
    BY DEF MTypeOK, Working
  <1>2. Mail(d) \in todo[d]
    BY <1>1, MinIsMember DEF Mail
  <1> QED
    BY <1>1, <1>2 DEF Pair

(* A new attempt is not used by any row or call of the pair.               *)
LEMMA NewAttemptIsFresh ==
    ASSUME NEW p, Attempts \ Used(p) # {}
    PROVE  NewAttempt(p) \in Attempts /\ NewAttempt(p) \notin Used(p)
  BY DEF NewAttempt

(* No mail and no call: the invariant holds.                               *)
LEMMA InitIsTrue == MInit => MInv
  <1> SUFFICES ASSUME MInit PROVE MInv
    OBVIOUS
  <1> USE DEF MInit
  <1>1. MTypeOK
    <2>1. cancelled \in [Deliveries -> BOOLEAN]
      BY ZenonT(20)
    <2> QED
      BY <2>1 DEF MTypeOK
  <1>2. Working /\ Distinct /\ Owning
    BY DEF Working, Distinct, Owning
  <1>3. RowsAddressed /\ SentAtMostOnce
    BY DEF RowsAddressed, SentAtMostOnce
  <1>4. RowsAreTrue /\ StuckMailIsReported
    BY DEF RowsAreTrue, StuckMailIsReported, Stuck
  <1> QED
    BY <1>1, <1>2, <1>3, <1>4 DEF MInv

-----------------------------------------------------------------------------
\* What a step of call d leaves alone: the other calls, other pairs, and a row
\* that is not d's unless the row is free.
Apart(d) ==
    /\ \A e \in Deliveries \ {d} :
         /\ pc'[e] = pc[e] /\ trip'[e] = trip[e] /\ todo'[e] = todo[e]
         /\ attempt'[e] = attempt[e] /\ verdict'[e] = verdict[e]
    /\ \A q \in (Mails \X Trips) \ {Pair(d)} : row'[q] = row[q] /\ sends'[q] = sends[q]
    /\ row'[Pair(d)] # row[Pair(d)] =>
         \/ Owns(d) /\ attempt[d] # NoAttempt
         \/ row[Pair(d)].state \in {"none", "PENDING"}
    /\ sends'[Pair(d)] # sends[Pair(d)] => Owns(d) /\ attempt[d] # NoAttempt
    /\ accepted \subseteq accepted' /\ explained \subseteq explained'

(* The other calls keep their pair, their row and what they know of it.    *)
LEMMA OthersKeep ==
    ASSUME MInv, NEW d \in Deliveries, pc[d] # "idle", Apart(d),
           NEW e \in Deliveries \ {d}
    PROVE  /\ Pair(e)' = Pair(e)
           /\ pc[e] \in {"claimed", "sending", "finalize"} =>
                Owns(e)' /\ sends'[Pair(e)] = sends[Pair(e)]
  <1>1. Pair(e)' = Pair(e)
    BY DEF Pair, Mail, Apart
  <1>2. ASSUME pc[e] \in {"claimed", "sending", "finalize"}
        PROVE  Owns(e)' /\ sends'[Pair(e)] = sends[Pair(e)]
    <2>1. Owns(e) /\ attempt[e] # NoAttempt /\ Pair(e) \in Mails \X Trips
      BY <1>2, PairIsInTable DEF MInv, Owning, Working
    <2>2. row'[Pair(e)] = row[Pair(e)] /\ sends'[Pair(e)] = sends[Pair(e)]
      <3>1. CASE Pair(e) # Pair(d)
        BY <2>1, <3>1 DEF Apart
      <3>2. CASE Pair(e) = Pair(d)
        <4>1. ~ (Owns(d) /\ attempt[d] # NoAttempt)
          BY <2>1, <3>2 DEF MInv, Distinct, Owns
        <4>2. row[Pair(d)].state = "ATTEMPTING"
          BY <2>1, <3>2 DEF Owns
        <4> QED
          BY <3>2, <4>1, <4>2 DEF Apart
      <3> QED
        BY <3>1, <3>2
    <2> QED
      BY <1>1, <2>1, <2>2 DEF Owns, Apart
  <1> QED
    BY <1>1, <1>2

(* Facts about each call: the others keep theirs, so d's are left to show. *)
LEMMA CallsKeep ==
    ASSUME MInv, NEW d \in Deliveries, pc[d] # "idle", Apart(d),
           pc'[d] # "idle" => todo'[d] # {} /\ trip'[d] \in Trips,
           pc'[d] \in {"claimed", "sending", "finalize", "mark"} <=> attempt'[d] # NoAttempt,
           pc'[d] = "finalize" => verdict'[d] # "none",
           \/ attempt'[d] = NoAttempt
           \/ attempt'[d] = attempt[d] /\ Pair(d)' = Pair(d)
           \/ attempt'[d] \notin Used(Pair(d)) /\ Pair(d)' = Pair(d),
           pc'[d] \in {"claimed", "sending", "finalize"} => Owns(d)',
           pc'[d] \in {"claimed", "sending"} => sends'[Pair(d)'] = 0,
           pc'[d] = "finalize" /\ verdict'[d] = "PENDING" => sends'[Pair(d)'] = 0,
           pc'[d] = "finalize" /\ verdict'[d] = "ACCEPTED" => Pair(d)' \in accepted'
    PROVE  Working' /\ Distinct' /\ Owning'
  <1>1. Working'
    BY DEF MInv, Working, Apart
  <1>2. Owning'
    <2> SUFFICES ASSUME NEW e \in Deliveries, e # d
                 PROVE  /\ pc'[e] \in {"claimed", "sending", "finalize"} => Owns(e)'
                        /\ pc'[e] \in {"claimed", "sending"} => sends'[Pair(e)'] = 0
                        /\ pc'[e] = "finalize" /\ verdict'[e] = "PENDING" => sends'[Pair(e)'] = 0
                        /\ pc'[e] = "finalize" /\ verdict'[e] = "ACCEPTED" => Pair(e)' \in accepted'
      BY DEF Owning
    <2> QED
      BY OthersKeep DEF MInv, Owning, Apart
  <1>3. Distinct'
    <2>1. ASSUME NEW e \in Deliveries \ {d}, attempt[e] # NoAttempt, attempt'[d] = attempt[e],
                 Pair(d)' = Pair(e), attempt'[d] # NoAttempt
          PROVE  FALSE
      <3>1. pc[e] # "idle"
        BY <2>1 DEF MInv, Working
      <3>2. Pair(d)' = Pair(d) => attempt[e] \in Used(Pair(d))
        BY <2>1, <3>1 DEF Used
      <3> QED
        BY <2>1, <3>2 DEF MInv, Distinct
    <2>2. \A e \in Deliveries \ {d} : Pair(e)' = Pair(e) /\ attempt'[e] = attempt[e]
      BY OthersKeep DEF Apart
    <2> SUFFICES ASSUME NEW e \in Deliveries, NEW f \in Deliveries, e # f,
                        attempt'[e] # NoAttempt, attempt'[f] = attempt'[e], Pair(e)' = Pair(f)'
                 PROVE  FALSE
      BY DEF Distinct
    <2>3. CASE e # d /\ f # d
      BY <2>2, <2>3 DEF MInv, Distinct
    <2>4. CASE e = d
      BY <2>1, <2>2, <2>4
    <2>5. CASE f = d
      BY <2>1, <2>2, <2>5
    <2> QED
      BY <2>3, <2>4, <2>5
  <1> QED
    BY <1>1, <1>2, <1>3

(* A stuck row keeps its explanation or its call.                          *)
LEMMA StuckKeeps ==
    ASSUME MInv, NEW d \in Deliveries, pc[d] # "idle", Apart(d),
           \/ row'[Pair(d)].state \notin Stuck
           \/ Pair(d) \in explained'
           \/ pc'[d] # "idle" /\ Pair(d)' = Pair(d) /\ attempt'[d] = row'[Pair(d)].attempt
           \/ row'[Pair(d)] = row[Pair(d)] /\ attempt[d] # row[Pair(d)].attempt
    PROVE  StuckMailIsReported'
  <1> SUFFICES ASSUME NEW p \in Mails \X Trips, row'[p].state \in Stuck, p \notin explained'
               PROVE  \E e \in Deliveries : pc'[e] # "idle" /\ Pair(e)' = p /\ attempt'[e] = row'[p].attempt
    BY DEF StuckMailIsReported
  <1>1. CASE row'[p] = row[p] /\ (p = Pair(d) => attempt[d] # row[p].attempt)
    <2>1. p \notin explained
      BY DEF Apart
    <2>2. PICK e \in Deliveries : pc[e] # "idle" /\ Pair(e) = p /\ attempt[e] = row[p].attempt
      BY <1>1, <2>1 DEF MInv, StuckMailIsReported
    <2>3. e # d
      BY <1>1, <2>2
    <2>4. Pair(e)' = Pair(e)
      BY <2>3, OthersKeep
    <2> QED
      BY <1>1, <2>2, <2>3, <2>4 DEF Apart
  <1>2. CASE p = Pair(d)
    BY <1>1, <1>2
  <1> QED
    BY <1>1, <1>2 DEF Apart

(* A row that is not accepted before or after disturbs no mail's status.   *)
LEMMA TablesKeep ==
    ASSUME MInv, NEW d \in Deliveries, pc[d] # "idle", Apart(d),
           UNCHANGED <<status, receivers>>,
           row'[Pair(d)] = row[Pair(d)] \/
             (row[Pair(d)].state # "ACCEPTED" /\ row'[Pair(d)].state # "ACCEPTED"),
           row'[Pair(d)].state # "none" =>
             trip[d] \in receivers[Mail(d)] /\ row'[Pair(d)].attempt # NoAttempt,
           row'[Pair(d)].state \in {"none", "PENDING"} => sends'[Pair(d)] = 0,
           sends'[Pair(d)] <= 1
    PROVE  RowsAddressed' /\ SentAtMostOnce' /\ RowsAreTrue'
  <1>0. Pair(d) = <<Mail(d), trip[d]>> /\ Pair(d) \in Mails \X Trips
    BY PairIsInTable DEF MInv, Pair
  <1>1. RowsAddressed'
    <2> SUFFICES ASSUME NEW m \in Mails, NEW t \in Trips, row'[<<m, t>>].state # "none"
                 PROVE  t \in receivers[m] /\ row'[<<m, t>>].attempt # NoAttempt
      BY DEF RowsAddressed
    <2>1. CASE <<m, t>> = Pair(d)
      BY <1>0, <2>1
    <2>2. CASE <<m, t>> # Pair(d)
      BY <2>2 DEF Apart, MInv, RowsAddressed
    <2> QED
      BY <2>1, <2>2
  <1>2. SentAtMostOnce'
    BY DEF SentAtMostOnce, MInv, Apart
  <1>3. \A p \in Mails \X Trips : row'[p].state = "ACCEPTED" <=> row[p].state = "ACCEPTED"
    BY DEF Apart
  <1>4. RowsAreTrue'
    <2>1. ASSUME NEW p \in Mails \X Trips
          PROVE  /\ row'[p].state = "ACCEPTED" => p \in accepted'
                 /\ row'[p].state \in {"none", "PENDING"} => sends'[p] = 0
      BY <1>3 DEF Apart, MInv, RowsAreTrue
    <2>2. ASSUME NEW m \in Mails
          PROVE  status'[m] = "DELIVERED" <=>
                   receivers'[m] # {} /\ \A t \in receivers'[m] : row'[<<m, t>>].state = "ACCEPTED"
      <3>1. \A t \in receivers[m] : <<m, t>> \in Mails \X Trips
        BY DEF MInv, MTypeOK
      <3>2. status[m] = "DELIVERED" <=>
              receivers[m] # {} /\ \A t \in receivers[m] : row[<<m, t>>].state = "ACCEPTED"
        BY DEF MInv, RowsAreTrue
      <3> QED
        BY <1>3, <3>1, <3>2
    <2> QED
      BY <2>1, <2>2 DEF RowsAreTrue
  <1> QED
    BY <1>1, <1>2, <1>4

CallsTyped ==
    /\ pc \in [Deliveries -> {"idle", "claim", "claimed", "sending", "finalize", "mark"}]
    /\ trip \in [Deliveries -> Trips \cup {NoTrip}]
    /\ todo \in [Deliveries -> SUBSET Mails]
    /\ attempt \in [Deliveries -> Attempts \cup {NoAttempt}]
    /\ cancelled \in [Deliveries -> BOOLEAN]
    /\ verdict \in [Deliveries -> {"none", "PENDING", "ACCEPTED", "UNKNOWN"}]
    /\ explained \subseteq Mails \X Trips

\* A call that returns or turns to its next mail holds no attempt.
Departs(d) ==
    /\ CallsTyped'
    /\ \A e \in Deliveries \ {d} :
         /\ pc'[e] = pc[e] /\ trip'[e] = trip[e] /\ todo'[e] = todo[e]
         /\ attempt'[e] = attempt[e] /\ verdict'[e] = verdict[e]
    /\ attempt'[d] = NoAttempt /\ pc'[d] \in {"idle", "claim"}
    /\ pc'[d] # "idle" => todo'[d] # {} /\ trip'[d] \in Trips
    /\ explained \subseteq explained'

LEMMA ReturnLeaves ==
    ASSUME MInv, NEW d \in Deliveries, NEW ps \in SUBSET (Mails \X Trips), Return(d, ps)
    PROVE  Departs(d) /\ \A p \in ps : row'[p].state \in Stuck => p \in explained'
  <1>1. cancelled' \in [Deliveries -> BOOLEAN]
    BY ZenonT(20) DEF Return, MInv, MTypeOK
  <1> QED
    BY <1>1 DEF Return, MInv, MTypeOK, CallsTyped, Departs

LEMMA ReturnInSilenceLeaves ==
    ASSUME MInv, NEW d \in Deliveries, Return(d, {})
    PROVE  Departs(d)
  <1> DEFINE ps == {}
  <1>1. ps \in SUBSET (Mails \X Trips) /\ Return(d, ps)
    OBVIOUS
  <1> HIDE DEF ps
  <1> QED
    BY <1>1, ReturnLeaves

LEMMA ReportLeaves ==
    ASSUME MInv, NEW d \in Deliveries, pc[d] # "idle", Return(d, {Pair(d)})
    PROVE  Departs(d) /\ (row'[Pair(d)].state \in Stuck => Pair(d) \in explained')
  <1> DEFINE ps == {Pair(d)}
  <1>1. ps \in SUBSET (Mails \X Trips) /\ Return(d, ps) /\ Pair(d) \in ps
    BY PairIsInTable DEF MInv
  <1> HIDE DEF ps
  <1> QED
    BY <1>1, ReturnLeaves

LEMMA AdvanceLeaves ==
    ASSUME MInv, NEW d \in Deliveries, pc[d] # "idle", Advance(d)
    PROVE  Departs(d)
  <1>1. CASE todo[d] = {Mail(d)}
    BY <1>1, ReturnInSilenceLeaves DEF Advance
  <1>2. CASE todo[d] # {Mail(d)}
    <2>0. /\ pc' = [pc EXCEPT ![d] = "claim"]
          /\ todo' = [todo EXCEPT ![d] = @ \ {Mail(d)}]
          /\ attempt' = [attempt EXCEPT ![d] = NoAttempt]
          /\ verdict' = [verdict EXCEPT ![d] = "none"]
          /\ UNCHANGED <<trip, cancelled, explained>>
      BY <1>2 DEF Advance
    <2>1. trip[d] \in Trips /\ todo[d] # {}
      BY DEF MInv, Working
    <2>2. todo'[d] # {}
      BY <1>2, <2>0, <2>1 DEF MInv, MTypeOK
    <2>3. CallsTyped'
      BY <2>0 DEF MInv, MTypeOK, CallsTyped
    <2> QED
      BY <2>0, <2>1, <2>2, <2>3 DEF MInv, MTypeOK, Departs
  <1> QED
    BY <1>1, <1>2

RowType == [state : {"none", "PENDING", "ATTEMPTING", "ACCEPTED", "UNKNOWN"},
            attempt : Attempts \cup {NoAttempt}]

(* Leaving a pair is safe when the row is not left stuck in silence.       *)
LEMMA LeavingKeepsInvariant ==
    ASSUME MInv, NEW d \in Deliveries, pc[d] # "idle", Departs(d),
           UNCHANGED <<receivers, sends, accepted>>,
           row' \in [Mails \X Trips -> RowType],
           status' \in [Mails -> {"absent", "PENDING", "DELIVERED"}],
           \A m \in Mails : status'[m] = "absent" <=> receivers[m] = {},
           \A q \in (Mails \X Trips) \ {Pair(d)} : row'[q] = row[q],
           row'[Pair(d)] # row[Pair(d)] =>
             \/ Owns(d) /\ attempt[d] # NoAttempt
             \/ row[Pair(d)].state \in {"none", "PENDING"},
           \/ row'[Pair(d)].state \notin Stuck
           \/ Pair(d) \in explained'
           \/ row'[Pair(d)] = row[Pair(d)] /\ attempt[d] # row[Pair(d)].attempt,
           RowsAddressed', SentAtMostOnce', RowsAreTrue'
    PROVE  MInv'
  <1>1. MTypeOK'
    BY DEF MTypeOK, MInv, CallsTyped, RowType, Departs
  <1>2. Apart(d)
    BY DEF Apart, Departs
  <1>3. Working' /\ Distinct' /\ Owning'
    BY <1>2, CallsKeep DEF Departs
  <1>4. StuckMailIsReported'
    BY <1>2, StuckKeeps
  <1> QED
    BY <1>1, <1>3, <1>4 DEF MInv

(* A row nobody touches keeps the tables true.                             *)
LEMMA SameRowsSameTables ==
    ASSUME MInv, UNCHANGED <<tables, sends, accepted>>
    PROVE  RowsAddressed' /\ SentAtMostOnce' /\ RowsAreTrue'
  BY DEF MInv, RowsAddressed, SentAtMostOnce, RowsAreTrue, tables

LEMMA GiveUpKeeps ==
    ASSUME MInv, NEW d \in Deliveries, GiveUp(d)
    PROVE  MInv'
  <1>1. pc[d] = "claim" /\ Return(d, {}) /\ UNCHANGED <<tables, sends, accepted>>
    BY DEF GiveUp
  <1>2. Pair(d) = <<Mail(d), trip[d]>> /\ Pair(d) \in Mails \X Trips /\ attempt[d] = NoAttempt
    BY <1>1, PairIsInTable DEF MInv, Working, Pair
  <1>3. row[Pair(d)].state \in Stuck => row[Pair(d)].attempt # NoAttempt
    BY <1>2 DEF MInv, RowsAddressed, Stuck
  <1>4. RowsAddressed' /\ SentAtMostOnce' /\ RowsAreTrue'
    BY <1>1, SameRowsSameTables
  <1>5. row' \in [Mails \X Trips -> RowType]
    BY <1>1 DEF tables, MInv, MTypeOK, RowType
  <1>6. /\ status' \in [Mails -> {"absent", "PENDING", "DELIVERED"}]
        /\ \A m \in Mails : status'[m] = "absent" <=> receivers[m] = {}
        /\ UNCHANGED <<status, receivers, row, sends, accepted>>
    BY <1>1 DEF tables, MInv, MTypeOK
  <1>7. Departs(d) /\ pc[d] # "idle" /\ row'[Pair(d)] = row[Pair(d)]
    BY <1>1, <1>6, ReturnInSilenceLeaves
  <1>8. \A q \in (Mails \X Trips) \ {Pair(d)} : row'[q] = row[q]
    BY <1>6
  <1>9. row'[Pair(d)].state \notin Stuck \/ attempt[d] # row[Pair(d)].attempt
    BY <1>2, <1>3, <1>7
  <1> QED
    BY <1>1, <1>4, <1>5, <1>6, <1>7, <1>8, <1>9, LeavingKeepsInvariant

(* markMailUnknown: the row is the call's own or stays as it is.           *)
LEMMA MarkKeeps ==
    ASSUME MInv, NEW d \in Deliveries, NEW done \in BOOLEAN, Mark(d, done)
    PROVE  MInv'
  <1> DEFINE mine == Owns(d) /\ done
  <1>1. /\ pc[d] = "mark" /\ Return(d, {Pair(d)}) /\ UNCHANGED <<status, receivers, sends, accepted>>
        /\ row' = [row EXCEPT ![Pair(d)].state = IF mine THEN "UNKNOWN" ELSE @]
    BY DEF Mark, MarkWhen
  <1>2. Pair(d) = <<Mail(d), trip[d]>> /\ Pair(d) \in Mails \X Trips /\ attempt[d] # NoAttempt
    BY <1>1, PairIsInTable DEF MInv, Working, Pair
  <1>3. /\ row \in [Mails \X Trips -> RowType]
        /\ row' \in [Mails \X Trips -> RowType]
        /\ \A q \in (Mails \X Trips) \ {Pair(d)} : row'[q] = row[q]
        /\ row'[Pair(d)] = IF mine THEN [row[Pair(d)] EXCEPT !.state = "UNKNOWN"] ELSE row[Pair(d)]
    <2>1. row \in [Mails \X Trips -> RowType] /\ row[Pair(d)] \in RowType
      BY <1>2 DEF MInv, MTypeOK, RowType
    <2> HIDE DEF mine
    <2>2. [row[Pair(d)] EXCEPT !.state = IF mine THEN "UNKNOWN" ELSE @] =
            IF mine THEN [row[Pair(d)] EXCEPT !.state = "UNKNOWN"] ELSE row[Pair(d)]
      BY <2>1 DEF RowType
    <2>3. [row[Pair(d)] EXCEPT !.state = IF mine THEN "UNKNOWN" ELSE @] \in RowType
      BY <2>1 DEF RowType
    <2>4. row' = [row EXCEPT ![Pair(d)] = [row[Pair(d)] EXCEPT !.state = IF mine THEN "UNKNOWN" ELSE @]]
      BY <1>1
    <2> HIDE DEF RowType
    <2> QED
      BY <1>2, <2>1, <2>2, <2>3, <2>4
  <1>4. mine => row[Pair(d)].state = "ATTEMPTING"
    BY DEF Owns
  <1>5. /\ row'[Pair(d)].attempt = row[Pair(d)].attempt
        /\ ~ mine => row'[Pair(d)] = row[Pair(d)]
        /\ mine => row'[Pair(d)].state = "UNKNOWN"
    BY <1>2, <1>3 DEF RowType
  <1> HIDE DEF mine
  <1>6. Apart(d)
    <2>1. Departs(d)
      BY <1>1, ReportLeaves
    <2>2. row'[Pair(d)] # row[Pair(d)] => Owns(d)
      BY <1>5 DEF mine
    <2> QED
      BY <1>1, <1>2, <1>3, <2>1, <2>2 DEF Apart, Departs
  <1>7. row[Pair(d)].state # "none" => trip[d] \in receivers[Mail(d)] /\ row[Pair(d)].attempt # NoAttempt
    BY <1>2 DEF MInv, RowsAddressed
  <1>8. /\ sends[Pair(d)] <= 1
        /\ row[Pair(d)].state \in {"none", "PENDING"} => sends[Pair(d)] = 0
    BY <1>2 DEF MInv, SentAtMostOnce, RowsAreTrue
  <1>9. RowsAddressed' /\ SentAtMostOnce' /\ RowsAreTrue'
    BY <1>1, <1>4, <1>5, <1>6, <1>7, <1>8, TablesKeep
  <1>10. /\ status' \in [Mails -> {"absent", "PENDING", "DELIVERED"}]
         /\ \A m \in Mails : status'[m] = "absent" <=> receivers[m] = {}
    BY <1>1 DEF MInv, MTypeOK
  <1>11. /\ Departs(d) /\ (row'[Pair(d)].state \in Stuck => Pair(d) \in explained')
    BY <1>1, ReportLeaves
  <1>12. /\ row'[Pair(d)] # row[Pair(d)] => Owns(d) /\ attempt[d] # NoAttempt
    BY <1>1, <1>2, <1>5 DEF mine
  <1> QED
    BY <1>1, <1>3, <1>9, <1>10, <1>11, <1>12, LeavingKeepsInvariant

-----------------------------------------------------------------------------
Verdicts == {"PENDING", "ACCEPTED", "UNKNOWN"}

(* setMailAttempt changes the state of the call's own row.                 *)
LEMMA ReceiptWrites ==
    ASSUME MInv, NEW d \in Deliveries, pc[d] # "idle", Owns(d),
           NEW v \in Verdicts, SetMailAttempt(d, v), UNCHANGED receivers
    PROVE  /\ row' \in [Mails \X Trips -> RowType]
           /\ row'[Pair(d)] = [state |-> v, attempt |-> attempt[d]]
           /\ \A q \in (Mails \X Trips) \ {Pair(d)} : row'[q] = row[q]
           /\ status' \in [Mails -> {"absent", "PENDING", "DELIVERED"}]
           /\ \A m \in Mails : status'[m] = "absent" <=> receivers[m] = {}
  <1>1. Pair(d) \in Mails \X Trips /\ Mail(d) \in Mails
    BY PairIsInTable DEF MInv
  <1>2. row \in [Mails \X Trips -> RowType] /\ row[Pair(d)] = [state |-> "ATTEMPTING", attempt |-> attempt[d]]
    BY DEF MInv, MTypeOK, RowType, Owns
  <1>3. [row[Pair(d)] EXCEPT !.state = v] = [state |-> v, attempt |-> attempt[d]]
    BY <1>2
  <1>4. row' = [row EXCEPT ![Pair(d)] = [row[Pair(d)] EXCEPT !.state = v]]
    BY DEF SetMailAttempt
  <1>5. [state |-> v, attempt |-> attempt[d]] \in RowType
    BY DEF RowType, MInv, MTypeOK, Verdicts
  <1>6. \/ status' = [status EXCEPT ![Mail(d)] = "DELIVERED"] /\ status[Mail(d)] = "PENDING"
        \/ status' = status
    BY DEF SetMailAttempt
  <1>7. /\ status' \in [Mails -> {"absent", "PENDING", "DELIVERED"}]
        /\ \A m \in Mails : status'[m] = "absent" <=> receivers[m] = {}
    <2>1. /\ status \in [Mails -> {"absent", "PENDING", "DELIVERED"}]
          /\ \A m \in Mails : status[m] = "absent" <=> receivers[m] = {}
      BY DEF MInv, MTypeOK
    <2>2. CASE status' = status
      BY <2>1, <2>2
    <2>3. CASE status' = [status EXCEPT ![Mail(d)] = "DELIVERED"] /\ status[Mail(d)] = "PENDING"
      BY <1>1, <2>1, <2>3
    <2> QED
      BY <1>6, <2>2, <2>3
  <1> HIDE DEF RowType
  <1> QED
    BY <1>1, <1>2, <1>3, <1>4, <1>5, <1>7

(* The tables stay true, and the last recipient completes the mail.        *)
LEMMA ReceiptKeepsTables ==
    ASSUME MInv, NEW d \in Deliveries, pc[d] # "idle", Owns(d), Apart(d),
           NEW v \in Verdicts, SetMailAttempt(d, v), UNCHANGED <<receivers, sends, accepted>>,
           v = "PENDING" => sends[Pair(d)] = 0,
           v = "ACCEPTED" => Pair(d) \in accepted
    PROVE  RowsAddressed' /\ SentAtMostOnce' /\ RowsAreTrue'
  <1>1. Pair(d) = <<Mail(d), trip[d]>> /\ Pair(d) \in Mails \X Trips
        /\ Mail(d) \in Mails /\ trip[d] \in Trips
    BY PairIsInTable DEF MInv, Pair, Working
  <1>2. /\ row'[Pair(d)] = [state |-> v, attempt |-> attempt[d]]
        /\ \A q \in (Mails \X Trips) \ {Pair(d)} : row'[q] = row[q]
    BY ReceiptWrites
  <1>3. row[Pair(d)].state = "ATTEMPTING" /\ row[Pair(d)].attempt = attempt[d]
    BY DEF Owns
  <1>4. trip[d] \in receivers[Mail(d)] /\ attempt[d] # NoAttempt
    BY <1>1, <1>3 DEF MInv, RowsAddressed
  <1>5. sends[Pair(d)] <= 1
    BY <1>1 DEF MInv, SentAtMostOnce
  <1>6. CASE v # "ACCEPTED"
    <2>1. status' = status
      BY <1>6 DEF SetMailAttempt
    <2>2. row'[Pair(d)].state = v /\ row'[Pair(d)].attempt = attempt[d] /\ v # "none"
      BY <1>2 DEF Verdicts
    <2> QED
      BY <1>3, <1>4, <1>5, <1>6, <2>1, <2>2, TablesKeep
  <1>7. CASE v = "ACCEPTED"
    <2>1. row'[Pair(d)].state = "ACCEPTED" /\ row'[Pair(d)].attempt = attempt[d]
      BY <1>2, <1>7
    <2>2. RowsAddressed'
      <3> SUFFICES ASSUME NEW m \in Mails, NEW t \in Trips, row'[<<m, t>>].state # "none"
                   PROVE  t \in receivers[m] /\ row'[<<m, t>>].attempt # NoAttempt
        BY DEF RowsAddressed
      <3>1. CASE <<m, t>> = Pair(d)
        BY <1>1, <1>4, <2>1, <3>1
      <3>2. CASE <<m, t>> # Pair(d)
        BY <1>2, <3>2 DEF MInv, RowsAddressed
      <3> QED
        BY <3>1, <3>2
    <2>3. SentAtMostOnce'
      BY DEF MInv, SentAtMostOnce
    <2>4. ASSUME NEW p \in Mails \X Trips
          PROVE  /\ row'[p].state = "ACCEPTED" => p \in accepted'
                 /\ row'[p].state \in {"none", "PENDING"} => sends'[p] = 0
      <3>1. CASE p = Pair(d)
        BY <1>7, <2>1, <3>1
      <3>2. CASE p # Pair(d)
        BY <1>2, <3>2 DEF MInv, RowsAreTrue
      <3> QED
        BY <3>1, <3>2
    <2>5. ASSUME NEW m \in Mails
          PROVE  status'[m] = "DELIVERED" <=>
                   receivers'[m] # {} /\ \A t \in receivers'[m] : row'[<<m, t>>].state = "ACCEPTED"
      <3>0. \A n \in Mails : status[n] = "DELIVERED" <=>
              receivers[n] # {} /\ \A t \in receivers[n] : row[<<n, t>>].state = "ACCEPTED"
        BY DEF MInv, RowsAreTrue
      <3>1. CASE m # Mail(d)
        <4>1. status'[m] = status[m]
          BY <3>1 DEF SetMailAttempt, MInv, MTypeOK
        <4>2. \A t \in receivers[m] : row'[<<m, t>>] = row[<<m, t>>]
          BY <1>1, <1>2, <3>1 DEF MInv, MTypeOK
        <4> QED
          BY <3>0, <4>1, <4>2
      <3>2. CASE m = Mail(d)
        <4>1. status[m] # "DELIVERED"
          BY <1>1, <1>3, <1>4, <3>0, <3>2
        <4>2. status[m] # "absent"
          BY <1>4, <3>2 DEF MInv, MTypeOK
        <4>3. status[m] = "PENDING"
          BY <4>1, <4>2 DEF MInv, MTypeOK
        <4>4. AllAccepted(m) <=> \A t \in receivers[m] : row'[<<m, t>>].state = "ACCEPTED"
          BY DEF AllAccepted
        <4>5. status'[m] = "DELIVERED" <=> AllAccepted(m)
          BY <1>7, <3>2, <4>1, <4>3 DEF SetMailAttempt, MInv, MTypeOK
        <4> QED
          BY <1>4, <3>2, <4>4, <4>5
      <3> QED
        BY <3>1, <3>2
    <2> QED
      BY <2>2, <2>3, <2>4, <2>5 DEF RowsAreTrue
  <1> QED
    BY <1>6, <1>7

(* A cancelled call releases its claim: nothing was sent.                  *)
LEMMA ReleaseKeeps ==
    ASSUME MInv, NEW d \in Deliveries, NEW end \in Ends, Release(d, end)
    PROVE  MInv'
  <1>1. pc[d] = "claimed" /\ UNCHANGED <<receivers, sends, accepted>>
    BY DEF Release
  <1>2. /\ Owns(d) /\ attempt[d] # NoAttempt /\ sends[Pair(d)] = 0
        /\ row[Pair(d)].state = "ATTEMPTING" /\ row[Pair(d)].attempt = attempt[d]
    BY <1>1 DEF MInv, Owning, Working, Owns
  <1>3. Departs(d)
    BY <1>1, <1>2, ReturnInSilenceLeaves, ReportLeaves DEF Release
  <1>4. CASE Applied(end)
    <2>1. SetMailAttempt(d, "PENDING")
      BY <1>2, <1>4 DEF Release
    <2>2. "PENDING" \in Verdicts
      BY DEF Verdicts
    <2>3. /\ row' \in [Mails \X Trips -> RowType]
          /\ row'[Pair(d)] = [state |-> "PENDING", attempt |-> attempt[d]]
          /\ \A q \in (Mails \X Trips) \ {Pair(d)} : row'[q] = row[q]
          /\ status' \in [Mails -> {"absent", "PENDING", "DELIVERED"}]
          /\ \A m \in Mails : status'[m] = "absent" <=> receivers[m] = {}
      BY <1>1, <1>2, <2>1, <2>2, ReceiptWrites
    <2>4. Apart(d)
      BY <1>1, <1>2, <1>3, <2>3 DEF Apart, Departs
    <2>5. RowsAddressed' /\ SentAtMostOnce' /\ RowsAreTrue'
      BY <1>1, <1>2, <2>1, <2>2, <2>4, ReceiptKeepsTables
    <2>6. row'[Pair(d)].state \notin Stuck
      BY <2>3 DEF Stuck
    <2> QED
      BY <1>1, <1>2, <1>3, <2>3, <2>5, <2>6, LeavingKeepsInvariant
  <1>5. CASE ~ Applied(end)
    <2>1. UNCHANGED <<row, status>> /\ Return(d, {Pair(d)})
      BY <1>2, <1>5 DEF Release, Applied
    <2>2. UNCHANGED <<tables, sends, accepted>>
      BY <1>1, <2>1 DEF tables
    <2>3. RowsAddressed' /\ SentAtMostOnce' /\ RowsAreTrue'
      BY <2>2, SameRowsSameTables
    <2>4. row'[Pair(d)].state \notin Stuck \/ Pair(d) \in explained'
      BY <1>1, <2>1, ReportLeaves
    <2>5. /\ row' \in [Mails \X Trips -> RowType]
          /\ status' \in [Mails -> {"absent", "PENDING", "DELIVERED"}]
          /\ \A m \in Mails : status'[m] = "absent" <=> receivers[m] = {}
      BY <2>1 DEF MInv, MTypeOK, RowType
    <2>6. /\ \A q \in (Mails \X Trips) \ {Pair(d)} : row'[q] = row[q]
          /\ row'[Pair(d)] = row[Pair(d)]
      BY <2>1
    <2> QED
      BY <1>1, <1>3, <2>3, <2>4, <2>5, <2>6, LeavingKeepsInvariant
  <1> QED
    BY <1>4, <1>5

(* The outcome of a send is recorded, or the call goes on to mark it.      *)
LEMMA FinalizeKeeps ==
    ASSUME MInv, NEW d \in Deliveries, NEW end \in Ends, Finalize(d, end)
    PROVE  MInv'
  <1> DEFINE v == verdict[d]
  <1>1. pc[d] = "finalize" /\ UNCHANGED <<receivers, sends, accepted>>
    BY DEF Finalize, FinalizeTo
  <1>2. /\ Owns(d) /\ attempt[d] # NoAttempt /\ v \in Verdicts
        /\ row[Pair(d)].state = "ATTEMPTING" /\ row[Pair(d)].attempt = attempt[d]
        /\ v = "PENDING" => sends[Pair(d)] = 0
        /\ v = "ACCEPTED" => Pair(d) \in accepted
    BY <1>1 DEF MInv, MTypeOK, Owning, Working, Owns, Verdicts
  <1>3. \/ end = "committed" /\ Departs(d) /\ SetMailAttempt(d, v)
           /\ (v = "UNKNOWN" => row'[Pair(d)].state \notin Stuck \/ Pair(d) \in explained')
        \/ /\ pc' = [pc EXCEPT ![d] = "mark"]
           /\ UNCHANGED <<trip, todo, attempt, cancelled, verdict, explained>>
           /\ SetMailAttempt(d, v) \/ UNCHANGED <<row, status>>
    <2>1. CASE end = "committed"
      <3>1. SetMailAttempt(d, v)
        BY <1>2, <2>1 DEF Finalize, FinalizeTo, Applied
      <3>2. CASE v = "ACCEPTED"
        <4>1. Advance(d)
          BY <1>2, <2>1, <3>2 DEF Finalize, FinalizeTo
        <4> QED
          BY <1>1, <2>1, <3>1, <3>2, <4>1, AdvanceLeaves
      <3>3. CASE v = "PENDING"
        <4>1. Return(d, {})
          BY <1>2, <2>1, <3>3 DEF Finalize, FinalizeTo
        <4> QED
          BY <1>1, <2>1, <3>1, <3>3, <4>1, ReturnInSilenceLeaves
      <3>4. CASE v = "UNKNOWN"
        <4>1. Return(d, {Pair(d)})
          BY <1>2, <2>1, <3>4 DEF Finalize, FinalizeTo
        <4> QED
          BY <1>1, <2>1, <3>1, <3>4, <4>1, ReportLeaves
      <3> QED
        BY <1>2, <3>2, <3>3, <3>4 DEF Verdicts
    <2>2. CASE end # "committed"
      BY <1>2, <2>2 DEF Finalize, FinalizeTo
    <2> QED
      BY <2>1, <2>2
  <1> HIDE DEF v
  <1>4. /\ row' \in [Mails \X Trips -> RowType]
        /\ row'[Pair(d)].attempt = attempt[d]
        /\ SetMailAttempt(d, v) => row'[Pair(d)] = [state |-> v, attempt |-> attempt[d]]
        /\ \A q \in (Mails \X Trips) \ {Pair(d)} : row'[q] = row[q]
        /\ status' \in [Mails -> {"absent", "PENDING", "DELIVERED"}]
        /\ \A m \in Mails : status'[m] = "absent" <=> receivers[m] = {}
    <2>1. CASE SetMailAttempt(d, v)
      <3>1. pc[d] # "idle" /\ UNCHANGED receivers
        BY <1>1
      <3>2. /\ row' \in [Mails \X Trips -> RowType]
            /\ row'[Pair(d)] = [state |-> v, attempt |-> attempt[d]]
            /\ \A q \in (Mails \X Trips) \ {Pair(d)} : row'[q] = row[q]
            /\ status' \in [Mails -> {"absent", "PENDING", "DELIVERED"}]
            /\ \A m \in Mails : status'[m] = "absent" <=> receivers[m] = {}
        BY <1>2, <2>1, <3>1, ReceiptWrites
      <3>3. row'[Pair(d)].attempt = attempt[d]
        BY <3>2
      <3> QED
        BY <2>1, <3>2, <3>3
    <2>2. CASE UNCHANGED <<row, status>> /\ ~ SetMailAttempt(d, v)
      BY <1>2, <2>2 DEF MInv, MTypeOK, RowType
    <2> QED
      BY <1>3, <2>1, <2>2
  <1>5. Apart(d)
    <2>1. /\ \A e \in Deliveries \ {d} :
               /\ pc'[e] = pc[e] /\ trip'[e] = trip[e] /\ todo'[e] = todo[e]
               /\ attempt'[e] = attempt[e] /\ verdict'[e] = verdict[e]
          /\ explained \subseteq explained'
      BY <1>3 DEF Departs, MInv, MTypeOK
    <2> QED
      BY <1>1, <1>2, <1>4, <2>1 DEF Apart
  <1>6. RowsAddressed' /\ SentAtMostOnce' /\ RowsAreTrue'
    <2>1. CASE SetMailAttempt(d, v)
      BY <1>1, <1>2, <1>5, <2>1, ReceiptKeepsTables
    <2>2. CASE UNCHANGED <<row, status>>
      <3>1. UNCHANGED <<tables, sends, accepted>>
        BY <1>1, <2>2 DEF tables
      <3> QED
        BY <3>1, SameRowsSameTables
    <2> QED
      BY <1>3, <2>1, <2>2
  <1>7. CASE end = "committed" /\ Departs(d) /\ SetMailAttempt(d, v)
             /\ (v = "UNKNOWN" => row'[Pair(d)].state \notin Stuck \/ Pair(d) \in explained')
    <2>1. row'[Pair(d)].state \notin Stuck \/ Pair(d) \in explained'
      BY <1>2, <1>4, <1>7 DEF Stuck, Verdicts
    <2> QED
      BY <1>1, <1>2, <1>4, <1>6, <1>7, <2>1, LeavingKeepsInvariant
  <1>8. CASE /\ pc' = [pc EXCEPT ![d] = "mark"]
             /\ UNCHANGED <<trip, todo, attempt, cancelled, verdict, explained>>
    <2>1. MTypeOK'
      BY <1>1, <1>4, <1>8 DEF MInv, MTypeOK, RowType
    <2>2. pc'[d] = "mark" /\ Pair(d)' = Pair(d) /\ attempt'[d] = attempt[d]
      BY <1>8 DEF MInv, MTypeOK, Pair, Mail
    <2>3. todo'[d] # {} /\ trip'[d] \in Trips
      BY <1>1, <1>8 DEF MInv, Working
    <2>4. Working' /\ Distinct' /\ Owning'
      BY <1>1, <1>2, <1>5, <2>2, <2>3, CallsKeep
    <2>5. StuckMailIsReported'
      BY <1>1, <1>4, <1>5, <2>2, StuckKeeps
    <2> QED
      BY <1>6, <2>1, <2>4, <2>5 DEF MInv
  <1> QED
    BY <1>3, <1>7, <1>8

(* A claim makes the row the call's own; a claim of unknown outcome is     *)
(* reported instead of used.                                               *)
LEMMA ClaimKeeps ==
    ASSUME MInv, NEW d \in Deliveries, NEW end \in Ends, Claim(d, end)
    PROVE  MInv'
  <1> DEFINE claimable == Claimable(Mail(d), trip[d])
             a == NewAttempt(Pair(d))
             new == [state |-> "ATTEMPTING", attempt |-> a]
  <1>1. /\ pc[d] = "claim" /\ Attempts \ Used(Pair(d)) # {}
        /\ UNCHANGED <<status, receivers, sends, accepted>>
        /\ row' = [row EXCEPT ![Pair(d)] = IF claimable /\ Applied(end) THEN new ELSE @]
    BY DEF Claim, ClaimWhen
  <1>2. /\ Pair(d) = <<Mail(d), trip[d]>> /\ Pair(d) \in Mails \X Trips
        /\ Mail(d) \in Mails /\ trip[d] \in Trips /\ attempt[d] = NoAttempt
    BY <1>1, PairIsInTable DEF MInv, Working, Pair
  <1>3. a \in Attempts /\ a \notin Used(Pair(d)) /\ a # NoAttempt
    BY <1>1, NewAttemptIsFresh, MailAssumption
  <1>4. claimable => /\ row[Pair(d)].state \in {"none", "PENDING"}
                     /\ trip[d] \in receivers[Mail(d)] /\ sends[Pair(d)] = 0
    BY <1>2 DEF Claimable, PendingFor, MInv, RowsAreTrue
  <1>5. \/ /\ end = "committed" /\ claimable
           /\ pc' = [pc EXCEPT ![d] = "claimed"]
           /\ attempt' = [attempt EXCEPT ![d] = a]
           /\ UNCHANGED <<trip, todo, cancelled, verdict, explained>>
        \/ Departs(d) /\ ~ (claimable /\ Applied(end))
        \/ Departs(d) /\ (row'[Pair(d)].state \in Stuck => Pair(d) \in explained')
    <2>1. CASE end = "committed" /\ ~ claimable
      BY <1>1, <2>1, AdvanceLeaves DEF Claim, ClaimWhen
    <2>2. CASE end = "rolledBack"
      BY <1>1, <2>2, ReturnInSilenceLeaves DEF Claim, ClaimWhen, Applied
    <2>3. CASE end \in {"unknownApplied", "unknownLost"}
      BY <1>1, <2>3, ReportLeaves DEF Claim, ClaimWhen
    <2>4. CASE end = "committed" /\ claimable
      BY <2>4 DEF Claim, ClaimWhen
    <2> QED
      BY <2>1, <2>2, <2>3, <2>4 DEF Ends
  <1>6. row \in [Mails \X Trips -> RowType] /\ new \in RowType
    BY <1>3 DEF MInv, MTypeOK, RowType
  <1> HIDE DEF claimable, a, RowType
  <1>7. /\ row' \in [Mails \X Trips -> RowType]
        /\ \A q \in (Mails \X Trips) \ {Pair(d)} : row'[q] = row[q]
        /\ row'[Pair(d)] = IF claimable /\ Applied(end) THEN new ELSE row[Pair(d)]
    BY <1>1, <1>2, <1>6
  <1>8. /\ \A e \in Deliveries \ {d} :
             /\ pc'[e] = pc[e] /\ trip'[e] = trip[e] /\ todo'[e] = todo[e]
             /\ attempt'[e] = attempt[e] /\ verdict'[e] = verdict[e]
        /\ explained \subseteq explained'
    BY <1>5 DEF Departs, MInv, MTypeOK
  <1>9. Apart(d)
    BY <1>1, <1>4, <1>7, <1>8 DEF Apart
  <1>10. /\ row[Pair(d)].state # "none" => trip[d] \in receivers[Mail(d)] /\ row[Pair(d)].attempt # NoAttempt
         /\ sends[Pair(d)] <= 1
         /\ row[Pair(d)].state \in {"none", "PENDING"} => sends[Pair(d)] = 0
    BY <1>2 DEF MInv, RowsAddressed, SentAtMostOnce, RowsAreTrue
  <1>11. RowsAddressed' /\ SentAtMostOnce' /\ RowsAreTrue'
    BY <1>1, <1>3, <1>4, <1>7, <1>9, <1>10, TablesKeep
  <1>12. /\ status' \in [Mails -> {"absent", "PENDING", "DELIVERED"}]
         /\ \A m \in Mails : status'[m] = "absent" <=> receivers[m] = {}
    BY <1>1 DEF MInv, MTypeOK
  <1>13. ASSUME end = "committed", claimable,
                pc' = [pc EXCEPT ![d] = "claimed"],
                attempt' = [attempt EXCEPT ![d] = a],
                UNCHANGED <<trip, todo, cancelled, verdict, explained>>
         PROVE  MInv'
    <2>1. MTypeOK'
      BY <1>1, <1>3, <1>7, <1>12, <1>13 DEF MInv, MTypeOK, RowType
    <2>2. pc'[d] = "claimed" /\ Pair(d)' = Pair(d) /\ attempt'[d] = a
      BY <1>13 DEF MInv, MTypeOK, Pair, Mail
    <2>3. todo'[d] # {} /\ trip'[d] \in Trips
      BY <1>1, <1>13 DEF MInv, Working
    <2>4. row'[Pair(d)] = new
      BY <1>7, <1>13 DEF Applied
    <2>5. Owns(d)' /\ sends'[Pair(d)'] = 0
      BY <1>1, <1>4, <1>13, <2>2, <2>4 DEF Owns
    <2>6. Working' /\ Distinct' /\ Owning'
      BY <1>1, <1>3, <1>9, <2>2, <2>3, <2>5, CallsKeep
    <2>7. StuckMailIsReported'
      BY <1>1, <1>9, <2>2, <2>4, StuckKeeps
    <2> QED
      BY <1>11, <2>1, <2>6, <2>7 DEF MInv
  <1>14. ASSUME Departs(d), row'[Pair(d)] = row[Pair(d)] \/ row'[Pair(d)].state \notin Stuck
                                \/ Pair(d) \in explained'
         PROVE  MInv'
    <2>1. row[Pair(d)].state \in Stuck => attempt[d] # row[Pair(d)].attempt
      BY <1>2, <1>10 DEF Stuck
    <2>2. \/ row'[Pair(d)].state \notin Stuck
          \/ Pair(d) \in explained'
          \/ row'[Pair(d)] = row[Pair(d)] /\ attempt[d] # row[Pair(d)].attempt
      BY <1>14, <2>1
    <2>3. row'[Pair(d)] # row[Pair(d)] => row[Pair(d)].state \in {"none", "PENDING"}
      BY <1>4, <1>7
    <2>4. pc[d] # "idle" /\ UNCHANGED <<receivers, sends, accepted>>
      BY <1>1
    <2> QED
      BY <1>7, <1>11, <1>12, <1>14, <2>2, <2>3, <2>4, LeavingKeepsInvariant
  <1> QED
    BY <1>5, <1>7, <1>13, <1>14

(* A send has an outcome; only the owner of an unsent row can send.        *)
LEMMA SendEndsKeeps ==
    ASSUME MInv, NEW d \in Deliveries, NEW v \in Verdicts, NEW reached \in BOOLEAN,
           SendEnds(d, v, reached)
    PROVE  MInv'
  <1>1. /\ pc[d] = "sending" /\ UNCHANGED <<status, receivers, row, trip, todo, attempt, cancelled, explained>>
        /\ v = "PENDING" => ~ reached
        /\ verdict' = [verdict EXCEPT ![d] = v]
        /\ sends' = [sends EXCEPT ![Pair(d)] = IF reached THEN @ + 1 ELSE @]
        /\ accepted' = IF v = "ACCEPTED" THEN accepted \cup {Pair(d)} ELSE accepted
        /\ pc' = [pc EXCEPT ![d] = "finalize"]
    BY DEF SendEnds, tables
  <1>2. Pair(d) = <<Mail(d), trip[d]>> /\ Pair(d) \in Mails \X Trips
    BY <1>1, PairIsInTable DEF MInv, Pair
  <1>3. /\ Owns(d) /\ attempt[d] # NoAttempt /\ sends[Pair(d)] = 0
        /\ row[Pair(d)].state = "ATTEMPTING" /\ row[Pair(d)].attempt = attempt[d]
    BY <1>1 DEF MInv, Owning, Working, Owns
  <1>4. /\ \A q \in (Mails \X Trips) \ {Pair(d)} : sends'[q] = sends[q]
        /\ sends'[Pair(d)] <= 1 /\ sends'[Pair(d)] \in Nat
        /\ v = "PENDING" => sends'[Pair(d)] = 0
    BY <1>1, <1>2, <1>3 DEF MInv, MTypeOK
  <1>5. MTypeOK'
    <2>1. sends' \in [Mails \X Trips -> Nat]
      BY <1>1, <1>2, <1>4 DEF MInv, MTypeOK
    <2>2. accepted' \subseteq Mails \X Trips
      BY <1>1, <1>2 DEF MInv, MTypeOK
    <2>3. /\ pc' \in [Deliveries -> {"idle", "claim", "claimed", "sending", "finalize", "mark"}]
          /\ verdict' \in [Deliveries -> {"none", "PENDING", "ACCEPTED", "UNKNOWN"}]
      BY <1>1 DEF MInv, MTypeOK, Verdicts
    <2> QED
      BY <1>1, <2>1, <2>2, <2>3 DEF MInv, MTypeOK
  <1>6. Apart(d)
    BY <1>1, <1>3, <1>4 DEF Apart, MInv, MTypeOK
  <1>7. /\ pc'[d] = "finalize" /\ Pair(d)' = Pair(d) /\ attempt'[d] = attempt[d]
        /\ verdict'[d] = v /\ v # "none"
        /\ v = "ACCEPTED" => Pair(d)' \in accepted'
    BY <1>1 DEF MInv, MTypeOK, Pair, Mail, Verdicts
  <1>8. todo'[d] # {} /\ trip'[d] \in Trips /\ Owns(d)'
    BY <1>1, <1>3, <1>7 DEF MInv, Working, Owns
  <1>9. Working' /\ Distinct' /\ Owning'
    BY <1>1, <1>3, <1>4, <1>6, <1>7, <1>8, CallsKeep
  <1>10. StuckMailIsReported'
    BY <1>1, <1>3, <1>6, <1>7, StuckKeeps
  <1>11. trip[d] \in receivers[Mail(d)]
    BY <1>2, <1>3 DEF MInv, RowsAddressed
  <1>12. RowsAddressed' /\ SentAtMostOnce' /\ RowsAreTrue'
    BY <1>1, <1>3, <1>4, <1>6, <1>11, TablesKeep
  <1> QED
    BY <1>5, <1>9, <1>10, <1>12 DEF MInv

(* A call that turns to its send, or loses its context, changes nothing    *)
(* that the other facts speak of.                                          *)
LEMMA StayingKeeps ==
    ASSUME MInv, NEW d \in Deliveries, Cancel(d) \/ Proceed(d)
    PROVE  MInv'
  <1>1. /\ pc[d] # "idle" /\ UNCHANGED <<status, receivers, row, sends, accepted, explained>>
        /\ UNCHANGED <<trip, todo, attempt, verdict>>
        /\ \A e \in Deliveries : pc'[e] # pc[e] => e = d /\ pc[d] = "claimed" /\ pc'[d] = "sending"
    BY DEF Cancel, Proceed, tables, history, MInv, MTypeOK
  <1>2. MTypeOK'
    <2>1. CASE Cancel(d)
      <3>1. cancelled' \in [Deliveries -> BOOLEAN]
        BY <2>1, ZenonT(20) DEF Cancel, MInv, MTypeOK
      <3>2. pc' = pc
        BY <2>1 DEF Cancel
      <3> QED
        BY <1>1, <3>1, <3>2 DEF MInv, MTypeOK
    <2>2. CASE Proceed(d)
      <3>1. pc' = [pc EXCEPT ![d] = "sending"] /\ cancelled' = cancelled
        BY <2>2 DEF Proceed
      <3> QED
        BY <1>1, <3>1 DEF MInv, MTypeOK
    <2> QED
      BY <2>1, <2>2
  <1>3. Apart(d)
    BY <1>1 DEF Apart
  <1>4. Pair(d)' = Pair(d) /\ attempt'[d] = attempt[d] /\ (Owns(d) => Owns(d)')
    BY <1>1 DEF Pair, Mail, Owns
  <1>5. pc'[d] = pc[d] \/ (pc[d] = "claimed" /\ pc'[d] = "sending")
    BY DEF Cancel, Proceed, MInv, MTypeOK
  <1>6. /\ todo[d] # {} /\ trip[d] \in Trips
        /\ pc[d] \in {"claimed", "sending", "finalize", "mark"} <=> attempt[d] # NoAttempt
        /\ pc[d] = "finalize" => verdict[d] # "none"
    BY <1>1 DEF MInv, Working
  <1>7. /\ pc[d] \in {"claimed", "sending", "finalize"} => Owns(d)
        /\ pc[d] \in {"claimed", "sending"} => sends[Pair(d)] = 0
        /\ pc[d] = "finalize" /\ verdict[d] = "PENDING" => sends[Pair(d)] = 0
        /\ pc[d] = "finalize" /\ verdict[d] = "ACCEPTED" => Pair(d) \in accepted
    BY DEF MInv, Owning
  <1>8. Working' /\ Distinct' /\ Owning'
    BY <1>1, <1>3, <1>4, <1>5, <1>6, <1>7, CallsKeep
  <1>9. RowsAddressed' /\ SentAtMostOnce' /\ RowsAreTrue'
    BY <1>1, SameRowsSameTables DEF tables
  <1>10. StuckMailIsReported'
    <2> SUFFICES ASSUME NEW p \in Mails \X Trips, row[p].state \in Stuck, p \notin explained
                 PROVE  \E e \in Deliveries : pc'[e] # "idle" /\ Pair(e)' = p /\ attempt'[e] = row'[p].attempt
      BY <1>1 DEF StuckMailIsReported
    <2>1. PICK e \in Deliveries : pc[e] # "idle" /\ Pair(e) = p /\ attempt[e] = row[p].attempt
      BY DEF MInv, StuckMailIsReported
    <2>2. pc'[e] # "idle" /\ Pair(e)' = Pair(e)
      BY <1>1, <2>1 DEF Pair, Mail
    <2> QED
      BY <1>1, <2>1, <2>2
  <1> QED
    BY <1>2, <1>8, <1>9, <1>10 DEF MInv

(* A call begins with the mail that its trip is owed.                      *)
LEMMA HearKeeps ==
    ASSUME MInv, NEW d \in Deliveries, NEW t \in Trips, Hear(d, t)
    PROVE  MInv'
  <1> USE DEF Hear, tables, history
  <1>1. PendingFor(t) \in SUBSET Mails /\ PendingFor(t) # {}
    BY DEF PendingFor
  <1>2. MTypeOK'
    BY <1>1 DEF MInv, MTypeOK
  <1>3. attempt[d] = NoAttempt /\ pc'[d] = "claim" /\ todo'[d] = PendingFor(t) /\ trip'[d] = t
    BY DEF MInv, MTypeOK, Working
  <1>4. \A e \in Deliveries \ {d} : pc'[e] = pc[e] /\ Pair(e)' = Pair(e) /\ (Owns(e) => Owns(e)')
                                     /\ todo'[e] = todo[e] /\ trip'[e] = trip[e]
    BY DEF MInv, MTypeOK, Pair, Mail, Owns
  <1>5. Working'
    BY <1>1, <1>3, <1>4 DEF MInv, Working
  <1>6. Distinct'
    BY <1>3, <1>4 DEF MInv, Distinct
  <1>7. Owning'
    BY <1>3, <1>4 DEF MInv, Owning
  <1>8. RowsAddressed' /\ SentAtMostOnce' /\ RowsAreTrue'
    BY SameRowsSameTables
  <1>9. StuckMailIsReported'
    <2> SUFFICES ASSUME NEW p \in Mails \X Trips, row[p].state \in Stuck, p \notin explained
                 PROVE  \E e \in Deliveries : pc'[e] # "idle" /\ Pair(e)' = p /\ attempt'[e] = row'[p].attempt
      BY DEF StuckMailIsReported
    <2>1. PICK e \in Deliveries : pc[e] # "idle" /\ Pair(e) = p /\ attempt[e] = row[p].attempt
      BY DEF MInv, StuckMailIsReported
    <2> QED
      BY <1>4, <2>1
  <1> QED
    BY <1>2, <1>5, <1>6, <1>7, <1>8, <1>9 DEF MInv

(* A queued mail is new: it has no rows.                                   *)
LEMMA QueueKeeps ==
    ASSUME MInv, NEW m \in Mails, NEW R \in SUBSET Trips, Queue(m, R)
    PROVE  MInv'
  <1>1. /\ status[m] = "absent" /\ R # {} /\ receivers[m] = {}
        /\ status' = [status EXCEPT ![m] = "PENDING"] /\ receivers' = [receivers EXCEPT ![m] = R]
        /\ UNCHANGED <<row, callVars, history>>
    BY DEF Queue, QueueFor, MInv, MTypeOK
  <1>2. MTypeOK'
    BY <1>1 DEF MInv, MTypeOK, callVars, history
  <1>3. UNCHANGED <<row, pc, trip, todo, attempt, cancelled, verdict, sends, accepted, explained>>
    BY <1>1 DEF callVars, history
  <1>4. \A d \in Deliveries : Pair(d)' = Pair(d) /\ (Owns(d)' <=> Owns(d))
    BY <1>3 DEF Pair, Mail, Owns
  <1>5. Working' /\ Distinct' /\ Owning' /\ StuckMailIsReported'
    BY <1>3, <1>4 DEF MInv, Working, Distinct, Owning, StuckMailIsReported
  <1>6. \A t \in Trips : row[<<m, t>>].state = "none"
    BY <1>1 DEF MInv, RowsAddressed
  <1>7. RowsAddressed' /\ SentAtMostOnce'
    BY <1>1, <1>3, <1>6 DEF MInv, MTypeOK, RowsAddressed, SentAtMostOnce
  <1>8. RowsAreTrue'
    <2>1. ASSUME NEW n \in Mails
          PROVE  status'[n] = "DELIVERED" <=>
                   receivers'[n] # {} /\ \A t \in receivers'[n] : row'[<<n, t>>].state = "ACCEPTED"
      <3>1. CASE n = m
        <4>1. PICK t \in R : row[<<m, t>>].state = "none"
          BY <1>1, <1>6
        <4> QED
          BY <1>1, <1>3, <3>1, <4>1 DEF MInv, MTypeOK
      <3>2. CASE n # m
        BY <1>1, <1>3, <3>2 DEF MInv, MTypeOK, RowsAreTrue
      <3> QED
        BY <3>1, <3>2
    <2> QED
      BY <1>3, <2>1 DEF MInv, RowsAreTrue
  <1> QED
    BY <1>2, <1>5, <1>7, <1>8 DEF MInv

(* A crash leaves the tables, and explains what it interrupted.            *)
LEMMA CrashKeeps == MInv /\ Crash => MInv'
  <1> SUFFICES ASSUME MInv, Crash PROVE MInv'
    OBVIOUS
  <1>1. /\ UNCHANGED <<status, receivers, row, sends, accepted>>
        /\ explained' = explained \cup
             {p \in {Pair(d) : d \in {e \in Deliveries : pc[e] # "idle"}} : row[p].state \in Stuck}
    BY DEF Crash, tables
  <1>2. MTypeOK'
    <2>1. cancelled' \in [Deliveries -> BOOLEAN]
      BY ZenonT(20) DEF Crash
    <2>2. explained' \subseteq Mails \X Trips
      BY <1>1, PairIsInTable DEF MInv, MTypeOK
    <2>3. /\ pc' = [d \in Deliveries |-> "idle"] /\ trip' = [d \in Deliveries |-> NoTrip]
          /\ todo' = [d \in Deliveries |-> {}] /\ attempt' = [d \in Deliveries |-> NoAttempt]
          /\ verdict' = [d \in Deliveries |-> "none"]
      BY DEF Crash
    <2> QED
      BY <1>1, <2>1, <2>2, <2>3 DEF MInv, MTypeOK
  <1>3. Working' /\ Distinct' /\ Owning'
    BY DEF Crash, Working, Distinct, Owning
  <1>4. RowsAddressed' /\ SentAtMostOnce' /\ RowsAreTrue'
    BY <1>1, SameRowsSameTables DEF tables
  <1>5. StuckMailIsReported'
    <2> SUFFICES ASSUME NEW p \in Mails \X Trips, row[p].state \in Stuck
                 PROVE  p \in explained'
      BY <1>1 DEF StuckMailIsReported
    <2> QED
      BY <1>1 DEF MInv, StuckMailIsReported
  <1> QED
    BY <1>2, <1>3, <1>4, <1>5 DEF MInv

-----------------------------------------------------------------------------
(* Every step keeps the invariant.                                         *)
LEMMA StepKeeps == MInv /\ [MNext]_mailVars => MInv'
  <1> SUFFICES ASSUME MInv, [MNext]_mailVars PROVE MInv'
    OBVIOUS
  <1>1. ASSUME NEW d \in Deliveries, DeliverPending(d)
        PROVE  MInv'
    <2>1. CASE \E t \in Trips : Hear(d, t)
      BY <2>1, HearKeeps
    <2>2. CASE Cancel(d) \/ Proceed(d)
      BY <2>2, StayingKeeps
    <2>3. CASE GiveUp(d)
      BY <2>3, GiveUpKeeps
    <2>4. CASE \E end \in Ends : Claim(d, end)
      BY <2>4, ClaimKeeps
    <2>5. CASE \E end \in Ends : Release(d, end)
      BY <2>5, ReleaseKeeps
    <2>6. CASE \E end \in Ends : Finalize(d, end)
      BY <2>6, FinalizeKeeps
    <2>7. CASE \E v \in {"PENDING", "ACCEPTED", "UNKNOWN"}, reached \in BOOLEAN : SendEnds(d, v, reached)
      BY <2>7, SendEndsKeeps DEF Verdicts
    <2>8. CASE \E done \in BOOLEAN : Mark(d, done)
      BY <2>8, MarkKeeps
    <2> QED
      BY <1>1, <2>1, <2>2, <2>3, <2>4, <2>5, <2>6, <2>7, <2>8 DEF DeliverPending
  <1>2. CASE \E m \in Mails, R \in SUBSET Trips : Queue(m, R)
    BY <1>2, QueueKeeps
  <1>3. CASE Crash
    BY <1>3, CrashKeeps
  <1>4. CASE UNCHANGED mailVars
    <2>1. UNCHANGED <<status, receivers, row, pc, trip, todo, attempt, cancelled, verdict,
                      sends, accepted, explained>>
      BY <1>4 DEF mailVars, tables, callVars, history
    <2>2. \A d \in Deliveries : Pair(d)' = Pair(d) /\ (Owns(d)' <=> Owns(d))
      BY <2>1 DEF Pair, Mail, Owns
    <2>3. MTypeOK' /\ RowsAddressed' /\ SentAtMostOnce' /\ RowsAreTrue'
      BY <2>1 DEF MInv, MTypeOK, RowsAddressed, SentAtMostOnce, RowsAreTrue
    <2>4. Working' /\ Distinct' /\ Owning' /\ StuckMailIsReported'
      BY <2>1, <2>2 DEF MInv, Working, Distinct, Owning, StuckMailIsReported
    <2> QED
      BY <2>3, <2>4 DEF MInv
  <1> QED
    BY <1>1, <1>2, <1>3, <1>4 DEF MNext

(* The invariant holds in every behaviour of offline mail.                 *)
THEOREM MailInvariant == MSpec => []MInv
  BY InitIsTrue, StepKeeps, PTL DEF MSpec

(* The tables and the calls have their types.                              *)
THEOREM MailTypeCorrect == MSpec => []MTypeOK
  <1>1. MInv => MTypeOK
    BY DEF MInv
  <1> QED
    BY <1>1, MailInvariant, PTL

(* A recipient is shown a mail at most once, whatever the engines, the     *)
(* database and crashes do (DeliverPending).                               *)
THEOREM MailIsSentAtMostOnce == MSpec => []SentAtMostOnce
  <1>1. MInv => SentAtMostOnce
    BY DEF MInv
  <1> QED
    BY <1>1, MailInvariant, PTL

(* The tables tell what happened to each mail (setMailAttempt).            *)
THEOREM MailTablesAreTrue == MSpec => []RowsAreTrue
  <1>1. MInv => RowsAreTrue
    BY DEF MInv
  <1> QED
    BY <1>1, MailInvariant, PTL

(* A stuck row was reported or left by a crash (MailDeliveryUncertainError).*)
THEOREM StuckMailIsNotSilent == MSpec => []StuckMailIsReported
  <1>1. MInv => StuckMailIsReported
    BY DEF MInv
  <1> QED
    BY <1>1, MailInvariant, PTL

(* A row changes while it is free, or by a step of the call that owns it.  *)
LEMMA RowChanges ==
    ASSUME MInv, MNext, NEW p \in Mails \X Trips, row'[p] # row[p]
    PROVE  \/ row[p].state \in {"none", "PENDING"}
           \/ \E d \in Deliveries : Pair(d) = p /\ pc[d] # "idle" /\ Owns(d) /\ pc'[d] # pc[d]
  <1> USE DEF tables, history
  <1>0. row \in [Mails \X Trips -> RowType]
    BY DEF MInv, MTypeOK, RowType
  <1>1. ASSUME NEW d \in Deliveries, NEW end \in Ends, Claim(d, end)
        PROVE  p = Pair(d) /\ row[p].state \in {"none", "PENDING"}
    <2>1. /\ pc[d] = "claim"
          /\ row' = [row EXCEPT ![Pair(d)] = IF Claimable(Mail(d), trip[d]) /\ Applied(end)
                       THEN [state |-> "ATTEMPTING", attempt |-> NewAttempt(Pair(d))] ELSE @]
      BY <1>1 DEF Claim, ClaimWhen
    <2>2. p = Pair(d) /\ Claimable(Mail(d), trip[d])
      BY <1>0, <2>1
    <2> QED
      BY <2>2 DEF Claimable, PendingFor, Pair
  <1>2. ASSUME NEW d \in Deliveries, NEW v, SetMailAttempt(d, v)
        PROVE  p = Pair(d)
    BY <1>0, <1>2 DEF SetMailAttempt
  <1>3. ASSUME NEW d \in Deliveries, NEW end \in Ends, Release(d, end)
        PROVE  p = Pair(d) /\ pc[d] # "idle" /\ Owns(d) /\ pc'[d] # pc[d]
    <2>1. pc[d] = "claimed" /\ Owns(d) /\ SetMailAttempt(d, "PENDING")
      BY <1>3 DEF Release
    <2>2. Departs(d)
      BY <1>3, <2>1, ReturnInSilenceLeaves, ReportLeaves DEF Release
    <2> QED
      BY <1>2, <2>1, <2>2 DEF Departs
  <1>4. ASSUME NEW d \in Deliveries, NEW end \in Ends, Finalize(d, end)
        PROVE  p = Pair(d) /\ pc[d] # "idle" /\ Owns(d) /\ pc'[d] # pc[d]
    <2>1. pc[d] = "finalize" /\ Owns(d) /\ SetMailAttempt(d, verdict[d])
      BY <1>4 DEF Finalize, FinalizeTo
    <2>2. verdict[d] \in Verdicts
      BY <2>1 DEF MInv, MTypeOK, Working, Verdicts
    <2>3. CASE end = "committed"
      <3>1. Advance(d) \/ Return(d, {}) \/ Return(d, {Pair(d)})
        BY <1>4, <2>1, <2>2, <2>3 DEF Finalize, FinalizeTo, Verdicts
      <3>2. Departs(d)
        BY <2>1, <3>1, AdvanceLeaves, ReturnInSilenceLeaves, ReportLeaves
      <3> QED
        BY <1>2, <2>1, <3>2 DEF Departs
    <2>4. CASE end # "committed"
      <3>1. pc' = [pc EXCEPT ![d] = "mark"]
        BY <1>4, <2>4 DEF Finalize, FinalizeTo
      <3> QED
        BY <1>2, <2>1, <3>1 DEF MInv, MTypeOK
    <2> QED
      BY <2>3, <2>4
  <1>5. ASSUME NEW d \in Deliveries, NEW done \in BOOLEAN, Mark(d, done)
        PROVE  p = Pair(d) /\ pc[d] # "idle" /\ Owns(d) /\ pc'[d] # pc[d]
    <2> DEFINE mine == Owns(d)
    <2>1. /\ pc[d] = "mark" /\ Return(d, {Pair(d)})
          /\ row' = [row EXCEPT ![Pair(d)].state = IF mine /\ done THEN "UNKNOWN" ELSE @]
      BY <1>5 DEF Mark, MarkWhen
    <2> HIDE DEF mine
    <2>2. p = Pair(d) /\ mine
      BY <1>0, <2>1 DEF RowType
    <2>3. Departs(d)
      BY <2>1, ReportLeaves
    <2> QED
      BY <2>1, <2>2, <2>3 DEF Departs, mine
  <1>6. ASSUME NEW d \in Deliveries, DeliverPending(d)
        PROVE  \/ \E end \in Ends : Claim(d, end) \/ Release(d, end) \/ Finalize(d, end)
               \/ \E done \in BOOLEAN : Mark(d, done)
    BY <1>6 DEF DeliverPending, Hear, Cancel, GiveUp, Proceed, SendEnds
  <1>7. \E d \in Deliveries : DeliverPending(d)
    BY DEF MNext, Queue, QueueFor, Crash
  <1>8. PICK d \in Deliveries : DeliverPending(d)
    BY <1>7
  <1> QED
    BY <1>1, <1>3, <1>4, <1>5, <1>6, <1>8

(* Receipts are final and a claim is settled by its owner only             *)
(* (setMailAttempt and markMailUnknown name attempt and state).            *)
THEOREM ClaimsBelongToTheirOwner == MSpec => OnlyTheOwnerWrites
  <1> DEFINE Keeps ==
        /\ \A p \in Mails \X Trips : row[p].state \in {"ACCEPTED", "UNKNOWN"} => row'[p] = row[p]
        /\ \A m \in Mails : status[m] = "DELIVERED" => status'[m] = "DELIVERED"
        /\ \A d \in Deliveries :
             pc[d] # "idle" /\ Owns(d) /\ row'[Pair(d)] # row[Pair(d)] => pc'[d] # pc[d]
  <1>1. ASSUME MInv, MNext PROVE Keeps
    <2>1. ASSUME NEW p \in Mails \X Trips, row[p].state \in {"ACCEPTED", "UNKNOWN"}, row'[p] # row[p]
          PROVE  FALSE
      <3>1. PICK d \in Deliveries : Pair(d) = p /\ Owns(d)
        BY <1>1, <2>1, RowChanges
      <3> QED
        BY <2>1, <3>1 DEF Owns
    <2>2. ASSUME NEW m \in Mails, status[m] = "DELIVERED"
          PROVE  status'[m] = "DELIVERED"
      <3>1. ASSUME NEW d \in Deliveries, NEW v, SetMailAttempt(d, v)
            PROVE  status'[m] = "DELIVERED"
        BY <1>1, <2>2, <3>1 DEF SetMailAttempt, MInv, MTypeOK
      <3>2. ASSUME NEW d \in Deliveries, DeliverPending(d)
            PROVE  status' = status \/ \E v \in {"PENDING", verdict[d]} : SetMailAttempt(d, v)
        BY <3>2 DEF DeliverPending, Hear, Cancel, GiveUp, Proceed, SendEnds, Claim, ClaimWhen,
             Release, Finalize, FinalizeTo, Mark, MarkWhen, tables
      <3>3. CASE \E d \in Deliveries : DeliverPending(d)
        BY <2>2, <3>1, <3>2, <3>3
      <3>4. CASE \E n \in Mails, R \in SUBSET Trips : Queue(n, R)
        BY <1>1, <2>2, <3>4 DEF Queue, QueueFor, MInv, MTypeOK
      <3>5. CASE Crash
        BY <2>2, <3>5 DEF Crash, tables
      <3> QED
        BY <1>1, <3>3, <3>4, <3>5 DEF MNext
    <2>3. ASSUME NEW d \in Deliveries, pc[d] # "idle", Owns(d), row'[Pair(d)] # row[Pair(d)]
          PROVE  pc'[d] # pc[d]
      <3>1. Pair(d) = <<Mail(d), trip[d]>> /\ Pair(d) \in Mails \X Trips
        BY <1>1, <2>3, PairIsInTable DEF MInv, Pair
      <3>2. PICK e \in Deliveries : Pair(e) = Pair(d) /\ pc[e] # "idle" /\ Owns(e) /\ pc'[e] # pc[e]
        BY <1>1, <2>3, <3>1, RowChanges DEF Owns
      <3>3. attempt[d] # NoAttempt /\ attempt[e] = attempt[d]
        BY <1>1, <2>3, <3>1, <3>2 DEF Owns, MInv, RowsAddressed
      <3> QED
        BY <1>1, <3>2, <3>3 DEF MInv, Distinct
    <2> QED
      BY <2>1, <2>2, <2>3
  <1> HIDE DEF Keeps
  <1>2. MInv /\ [MNext]_mailVars => [Keeps]_mailVars
    BY <1>1
  <1>3. MSpec => [][Keeps]_mailVars
    BY <1>2, MailInvariant, PTL DEF MSpec
  <1> QED
    BY <1>3 DEF OnlyTheOwnerWrites, Keeps

(* Mail is sent once at most, its tables are true, no mail is stuck in     *)
(* silence and no call writes a row it does not own.                       *)
THEOREM MailStaysTrue == MSpec => MailIsTrue
  <1> QED
    BY MailTypeCorrect, MailIsSentAtMostOnce, MailTablesAreTrue, StuckMailIsNotSilent,
       ClaimsBelongToTheirOwner, PTL DEF MailIsTrue
=============================================================================
