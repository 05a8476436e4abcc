----------------------- MODULE VisitorPairing_proofs -----------------------
(***************************************************************************)
(* Both sides of a group mean the same channels by the same indices, for   *)
(* every set of services, visitors, channels and tunnels, every width and  *)
(* number of attempts, and whatever breaks, is released or is reloaded.    *)
(***************************************************************************)
EXTENDS VisitorPairing, Integers, FiniteSetTheorems, WellFoundedInduction, TLAPS

Routings == {<<>>} \cup (Channels \X Pools)

(* A pool is used up by a reload, and every reload by a fault.             *)
Shape ==
  /\ PairingTypeOK /\ routed \in [Tunnels -> Routings]
  /\ \A s \in Services : gen[s] + (IF s \in active THEN 0 ELSE 1) + faults <= MaxFaults

(* Where a channel is before it is labelled: in one place only, with the   *)
(* tunnel and the service the place belongs to.  A tunnel has its bridge b *)
(* and the stream r being handed over.                                     *)
OnTunnel(t, k) == k.server = "bridge" /\ k.tun = t
TunnelFits(t, b, r, chs) ==
  /\ \A i \in 1..Len(b) : OnTunnel(t, chs[b[i]])
  /\ \A i, j \in 1..Len(b) : b[i] = b[j] => i = j
  /\ r # <<>> => /\ OnTunnel(t, chs[r[1]]) /\ chs[r[1]].svc = r[2][1]
                 /\ \A i \in 1..Len(b) : b[i] # r[1]
InQueue == \A p \in Pools : \A i \in 1..Len(queue[p]) :
  ch[queue[p][i]].server = "queue" /\ ch[queue[p][i]].svc = p[1]
OneQueue == \A p, q \in Pools : \A i \in 1..Len(queue[p]), j \in 1..Len(queue[q]) :
  queue[p][i] = queue[q][j] => p = q /\ i = j
OnTheTunnels == \A t \in Tunnels : TunnelFits(t, bridge[t], routed[t], ch)
Sites == OnTheTunnels /\ InQueue /\ OneQueue

(* What an end may be told from the label of its channel.                  *)
Labelled(k) == k.cmd # NoCmd
LabelFits(k) ==
  /\ k.server \in {"bridge", "queue"} => ~Labelled(k)
  /\ k.client \in {"parked", "forward"} => Labelled(k)
LabelsFit == \A c \in Channels : LabelFits(ch[c])

(* A visitor owns the group it gathers or has gathered, no two own the     *)
(* same one, and what it holds carries its labels.                         *)
Owning(r) == r.pc \in {"gather", "forward", "gone"}
CountIn(r) == IF r.pc = "gather" THEN r.width ELSE Len(r.got)
OwnerFits(r) ==
  /\ ~Owning(r) => r.got = <<>>
  /\ r.pc \in {"lock", "ask", "gather"} => r.width > 0
  /\ r.pc = "gather" => Len(r.got) < r.width
Owners ==
  /\ \A v \in Visitors : OwnerFits(vis[v])
  /\ \A v \in Visitors : Owning(vis[v]) => vis[v].group \in 1..groups
  /\ \A v, w \in Visitors :
       Owning(vis[v]) /\ Owning(vis[w]) /\ vis[v].group = vis[w].group => v = w
HeldBy(k, r, i) ==
  k.server = "held" /\ k.cmd = [group |-> r.group, index |-> i - 1, count |-> CountIn(r)]
Holdings == \A v \in Visitors : vis[v].pc # "gone" =>
  \A i \in 1..Len(vis[v].got) : HeldBy(ch[vis[v].got[i]], vis[v], i)

(* A label was put on by the visitor that owns its group, in its place; or *)
(* the attempt was given up, and then no channel has the last index.       *)
Placed(c, k, r, s) ==
  /\ Owning(r) /\ r.group = k.cmd.group /\ s = k.svc
  /\ k.cmd.count = CountIn(r) /\ k.cmd.index + 1 <= Len(r.got)
  /\ r.got[k.cmd.index + 1] = c
Abandoned(k, rs) ==
  /\ \A v \in Visitors : Owning(rs[v]) => rs[v].group # k.cmd.group
  /\ k.cmd.index + 1 < k.cmd.count
Claims == \A c \in Channels : Labelled(ch[c]) =>
  /\ ch[c].cmd.group \in 1..groups
  /\ (\E v \in Visitors : Placed(c, ch[c], vis[v], Of[v])) \/ Abandoned(ch[c], vis)
Distinct == \A c, d \in Channels :
  Labelled(ch[c]) /\ Labelled(ch[d]) /\ ch[c].cmd.group = ch[d].cmd.group
    /\ ch[c].cmd.index = ch[d].cmd.index => c = d
Labels == LabelsFit /\ Owners /\ Holdings /\ Claims /\ Distinct /\ GroupsAgree

PairingInv == Shape /\ Sites /\ Labels

-----------------------------------------------------------------------------
(* The constants.                                                          *)
LEMMA Numbers ==
  /\ MaxWidth \in Nat \ {0} /\ Attempts \in Nat \ {0} /\ MaxFaults \in Nat
  /\ Channels \subseteq Nat \ {0} /\ Of \in [Visitors -> Services]
  BY PairingAssumption

(* Facts about queues.                                                     *)
LEMMA AppendFacts ==
  ASSUME NEW S, NEW q \in Seq(S), NEW x \in S
  PROVE  /\ Append(q, x) \in Seq(S) /\ Len(Append(q, x)) = Len(q) + 1
         /\ \A j \in 1..Len(q) : Append(q, x)[j] = q[j]
         /\ Append(q, x)[Len(q) + 1] = x
  OBVIOUS

LEMMA TailFacts ==
  ASSUME NEW S, NEW q \in Seq(S), q # <<>>
  PROVE  /\ Head(q) \in S /\ Head(q) = q[1] /\ 1 \in 1..Len(q)
         /\ Tail(q) \in Seq(S) /\ Len(Tail(q)) = Len(q) - 1
         /\ \A j \in 1..Len(Tail(q)) : Tail(q)[j] = q[j + 1] /\ j + 1 \in 1..Len(q)
  OBVIOUS

LEMMA RangeFacts ==
  ASSUME NEW S, NEW q \in Seq(S)
  PROVE  /\ RangeOf(q) \subseteq S
         /\ \A x \in RangeOf(q) : \E i \in 1..Len(q) : q[i] = x
         /\ \A i \in 1..Len(q) : q[i] \in RangeOf(q)
  BY DEF RangeOf

LEMMA RequestFacts ==
  ASSUME NEW v \in Visitors, NEW n \in Nat
  PROVE  Requests(v, n) \in Seq(Commands)
<1>1. \A i \in 1..n : [op |-> "stripe", svc |-> Of[v], group |-> 0] \in Commands
  BY Numbers DEF Commands
<1> QED
  BY <1>1 DEF Requests

LEMMA ConcatFacts ==
  ASSUME NEW S, NEW q \in Seq(S), NEW r \in Seq(S)
  PROVE  q \o r \in Seq(S)
  OBVIOUS

(* Types of records.                                                       *)
CommandTypes == [group : Nat, index : 0..(MaxWidth - 1), count : 0..MaxWidth]

LEMMA BlankFacts ==
  /\ Blank \in ChannelTypes /\ Blank.cmd = NoCmd /\ Blank.server = "none" /\ Blank.client = "none"
  /\ NoCmd \in CommandTypes /\ NoCmd.group = 0
<1>1. NoCmd \in CommandTypes /\ NoCmd.group = 0
  BY Numbers DEF NoCmd, CommandTypes
<1> QED
  BY <1>1 DEF Blank, ChannelTypes, CommandTypes

LEMMA FieldFacts ==
  ASSUME NEW k \in ChannelTypes
  PROVE  /\ [k EXCEPT !.server = "closed"] \in ChannelTypes
         /\ [k EXCEPT !.cut = TRUE] \in ChannelTypes /\ [k EXCEPT !.old = TRUE] \in ChannelTypes
<1>1. [k EXCEPT !.server = "closed"] \in ChannelTypes
  BY DEF ChannelTypes
<1>2. [k EXCEPT !.cut = TRUE] \in ChannelTypes
  BY DEF ChannelTypes
<1>3. [k EXCEPT !.old = TRUE] \in ChannelTypes
  BY DEF ChannelTypes
<1> QED
  BY <1>1, <1>2, <1>3

LEMMA SettledFacts ==
  ASSUME NEW r PROVE Settled(r) = Blank \/ Settled(r) = r
  BY DEF Settled

(* What dropping an end does to a channel.                                 *)
LEMMA CloseServerFacts ==
  ASSUME NEW chs \in [Channels -> ChannelTypes], NEW S
  PROVE  /\ CloseServer(S, chs) \in [Channels -> ChannelTypes]
         /\ \A c \in Channels : c \notin S => CloseServer(S, chs)[c] = chs[c]
         /\ \A c \in S \cap Channels :
              CloseServer(S, chs)[c] \in {Blank, [chs[c] EXCEPT !.server = "closed"]}
<1>1. \A c \in Channels : [chs[c] EXCEPT !.server = "closed"] \in ChannelTypes
  BY FieldFacts
<1>2. \A c \in S \cap Channels :
        CloseServer(S, chs)[c] \in {Blank, [chs[c] EXCEPT !.server = "closed"]}
  BY SettledFacts DEF CloseServer
<1>3. \A c \in Channels : c \notin S => CloseServer(S, chs)[c] = chs[c]
  BY DEF CloseServer
<1>4. DOMAIN CloseServer(S, chs) = Channels
      /\ CloseServer(S, chs) = [c \in Channels |-> CloseServer(S, chs)[c]]
  BY DEF CloseServer
<1>5. \A c \in Channels : CloseServer(S, chs)[c] \in ChannelTypes
  BY <1>1, <1>2, <1>3, BlankFacts
<1> QED
  BY <1>2, <1>3, <1>4, <1>5

LEMMA CloseClientFacts ==
  ASSUME NEW chs \in [Channels -> ChannelTypes], NEW S
  PROVE  /\ CloseClient(S, chs) \in [Channels -> ChannelTypes]
         /\ \A c \in Channels : c \notin S => CloseClient(S, chs)[c] = chs[c]
         /\ \A c \in S \cap Channels :
              \/ CloseClient(S, chs)[c] = [chs[c] EXCEPT !.client = "closed"]
              \/ CloseClient(S, chs)[c] = Blank /\ chs[c].server \in {"none", "closed"}
<1>1. \A c \in Channels : [chs[c] EXCEPT !.client = "closed"] \in ChannelTypes
                          /\ [chs[c] EXCEPT !.client = "closed"].server = chs[c].server
  BY DEF ChannelTypes
<1>2. \A c \in S \cap Channels :
        \/ CloseClient(S, chs)[c] = [chs[c] EXCEPT !.client = "closed"]
        \/ CloseClient(S, chs)[c] = Blank /\ chs[c].server \in {"none", "closed"}
  BY <1>1 DEF CloseClient, Settled
<1>3. \A c \in Channels : c \notin S => CloseClient(S, chs)[c] = chs[c]
  BY DEF CloseClient
<1>4. CloseClient(S, chs) = [c \in Channels |-> CloseClient(S, chs)[c]]
  BY DEF CloseClient
<1>5. \A c \in Channels : CloseClient(S, chs)[c] \in ChannelTypes
  BY <1>1, <1>2, <1>3, BlankFacts
<1> QED
  BY <1>2, <1>3, <1>4, <1>5

LEMMA SeverFacts ==
  ASSUME NEW chs \in [Channels -> ChannelTypes], NEW t
  PROVE  /\ Sever(t, chs) \in [Channels -> ChannelTypes]
         /\ \A c \in Channels :
              Sever(t, chs)[c] = chs[c] \/ Sever(t, chs)[c] = [chs[c] EXCEPT !.cut = TRUE]
<1>1. \A c \in Channels : [chs[c] EXCEPT !.cut = TRUE] \in ChannelTypes
  BY FieldFacts
<1> QED
  BY <1>1 DEF Sever

-----------------------------------------------------------------------------
(* Steps that label nothing.  A channel loses its label or keeps it, and   *)
(* begins to be forwarded only with its group; a visitor keeps its group,  *)
(* gives it up before it is complete, or begins a new one.                 *)
Keeps(k, l) ==
  \/ l.cmd = NoCmd /\ l.client \notin {"parked", "forward"}
  \/ /\ l.cmd = k.cmd /\ l.svc = k.svc
     /\ l.client \in {"parked", "forward"} => k.client \in {"parked", "forward"} \/ Labelled(k)
     /\ l.server \in {"bridge", "queue"} => k.server \in {"bridge", "queue"}
Fades(k, l) == Keeps(k, l) /\ (l.client = "forward" => k.client = "forward")
Stays(r, q) ==
  /\ Owning(r) /\ Owning(q) /\ q.group = r.group /\ q.got = r.got /\ CountIn(q) = CountIn(r)
  /\ r.pc \in {"forward", "gone"} => q.pc \in {"forward", "gone"}
GivesUp(r, q) == r.pc \notin {"forward", "gone"} /\ ~Owning(q)
Starts(r, q, g) == ~Owning(r) /\ q.group > g
Moves(r, q, g) == Stays(r, q) \/ GivesUp(r, q) \/ Starts(r, q, g)

VisitorTypes ==
  [pc : {"away", "lock", "ask", "gather", "forward", "shed", "gone"},
   width : 0..MaxWidth, gen : 0..MaxFaults, group : Nat,
   got : Seq(Channels), tries : 0..(Attempts - 1)]

LEMMA ChannelFacts ==
  ASSUME NEW k \in ChannelTypes
  PROVE  /\ k.cmd.group \in Nat /\ k.cmd.index \in Nat /\ k.cmd.count \in Nat
         /\ k.cmd.index \in 0..(MaxWidth - 1) /\ k.cmd.count \in 0..MaxWidth
  BY Numbers DEF ChannelTypes

LEMMA VisitorFacts ==
  ASSUME NEW r \in VisitorTypes
  PROVE  /\ r.group \in Nat /\ r.width \in Nat /\ r.got \in Seq(Channels) /\ Len(r.got) \in Nat
         /\ r.gen \in 0..MaxFaults /\ r.width \in 0..MaxWidth /\ r.tries \in 0..(Attempts - 1)
  BY Numbers DEF VisitorTypes

LEMMA TypesOf ==
  ASSUME PairingTypeOK
  PROVE  /\ ch \in [Channels -> ChannelTypes] /\ vis \in [Visitors -> VisitorTypes]
         /\ groups \in Nat
  BY DEF PairingTypeOK, VisitorTypes

LEMMA LabelsKept ==
  ASSUME PairingTypeOK, PairingTypeOK', Labels, groups' >= groups,
         \A c \in Channels : Keeps(ch[c], ch'[c]),
         \A w \in Visitors : Moves(vis[w], vis'[w], groups)
  PROVE  LabelsFit' /\ Claims' /\ Distinct'
<1>0. /\ \A c \in Channels : ch[c] \in ChannelTypes /\ ch'[c] \in ChannelTypes
      /\ \A w \in Visitors : vis[w] \in VisitorTypes /\ vis'[w] \in VisitorTypes
      /\ groups \in Nat /\ groups' \in Nat
  BY TypesOf DEF PairingTypeOK, VisitorTypes
<1>1. \A c \in Channels : Labelled(ch'[c]) =>
        Labelled(ch[c]) /\ ch'[c].cmd = ch[c].cmd /\ ch'[c].svc = ch[c].svc
  BY DEF Keeps, Labelled
<1>2. LabelsFit'
  <2> SUFFICES ASSUME NEW c \in Channels PROVE LabelFits(ch'[c])
    BY DEF LabelsFit, LabelFits, Labelled
  <2>1. LabelFits(ch[c]) /\ Keeps(ch[c], ch'[c])
    BY DEF Labels, LabelsFit
  <2> QED
    BY <2>1 DEF LabelFits, Keeps, Labelled
<1>3. Distinct'
  BY <1>1 DEF Labels, Distinct, Labelled
<1>4. ASSUME NEW c \in Channels, Labelled(ch'[c])
      PROVE  /\ ch'[c].cmd.group \in 1..groups'
             /\ (\E v \in Visitors : Placed(c, ch'[c], vis'[v], Of[v])) \/ Abandoned(ch'[c], vis')
  <2>1. /\ Labelled(ch[c]) /\ ch'[c].cmd = ch[c].cmd /\ ch'[c].svc = ch[c].svc
        /\ ch[c].cmd.group \in 1..groups
        /\ (\E v \in Visitors : Placed(c, ch[c], vis[v], Of[v])) \/ Abandoned(ch[c], vis)
    BY <1>1, <1>4 DEF Labels, Claims
  <2>2. ch'[c].cmd.group \in 1..groups'
    BY <1>0, <2>1
  <2>3. ASSUME NEW v \in Visitors, Placed(c, ch[c], vis[v], Of[v])
        PROVE  Placed(c, ch'[c], vis'[v], Of[v]) \/ Abandoned(ch'[c], vis')
    <3>1. CASE Stays(vis[v], vis'[v])
      BY <2>1, <2>3, <3>1 DEF Stays, Placed
    <3>2. CASE GivesUp(vis[v], vis'[v])
      <4>1. vis[v].pc = "gather" /\ Len(vis[v].got) < vis[v].width
        BY <2>3, <3>2 DEF GivesUp, Placed, Owning, Labels, Owners, OwnerFits
      <4>2. ch[c].cmd.index + 1 < ch[c].cmd.count
        <5> DEFINE i == ch[c].cmd.index
                   n == ch[c].cmd.count
                   l == Len(vis[v].got)
        <5>1. i \in Nat /\ n \in Nat /\ l \in Nat
          BY <1>0, ChannelFacts, VisitorFacts
        <5>2. n = vis[v].width /\ i + 1 <= l /\ l < n
          BY <2>3, <4>1 DEF Placed, CountIn
        <5> HIDE DEF i, n, l
        <5>3. i + 1 < n
          BY ONLY <5>1, <5>2
        <5> QED
          BY <5>3 DEF i, n
      <4>3. ASSUME NEW w \in Visitors, Owning(vis'[w]) PROVE vis'[w].group # ch[c].cmd.group
        <5>1. CASE Stays(vis[w], vis'[w])
          <6>1. w # v
            BY <3>2, <4>3 DEF GivesUp
          <6>2. vis[w].group # vis[v].group
            BY <2>3, <5>1, <6>1 DEF Labels, Owners, Stays, Placed
          <6> QED
            BY <2>3, <5>1, <6>2 DEF Stays, Placed
        <5>2. CASE Starts(vis[w], vis'[w], groups)
          BY <1>0, <2>1, <5>2 DEF Starts
        <5>3. ~GivesUp(vis[w], vis'[w])
          BY <4>3 DEF GivesUp
        <5> QED
          BY <5>1, <5>2, <5>3 DEF Moves
      <4> QED
        BY <2>1, <4>2, <4>3 DEF Abandoned
    <3>3. ~Starts(vis[v], vis'[v], groups)
      BY <2>3 DEF Starts, Placed
    <3> QED
      BY <3>1, <3>2, <3>3 DEF Moves
  <2>4. ASSUME Abandoned(ch[c], vis) PROVE Abandoned(ch'[c], vis')
    <3>1. ASSUME NEW w \in Visitors, Owning(vis'[w]) PROVE vis'[w].group # ch[c].cmd.group
      <4>1. CASE Stays(vis[w], vis'[w])
        BY <2>4, <4>1 DEF Stays, Abandoned
      <4>2. CASE Starts(vis[w], vis'[w], groups)
        BY <1>0, <2>1, <4>2 DEF Starts
      <4>3. ~GivesUp(vis[w], vis'[w])
        BY <3>1 DEF GivesUp
      <4> QED
        BY <4>1, <4>2, <4>3 DEF Moves
    <3> QED
      BY <2>1, <2>4, <3>1 DEF Abandoned
  <2> QED
    BY <2>1, <2>2, <2>3, <2>4
<1>5. Claims'
  BY <1>4 DEF Claims, Labelled, Placed, Abandoned, Owning, CountIn
<1> QED
  BY <1>2, <1>3, <1>5

LEMMA AgreementKept ==
  ASSUME GroupsAgree, \A c \in Channels : Fades(ch[c], ch'[c]),
         \A w \in Visitors : Moves(vis[w], vis'[w], groups)
  PROVE  GroupsAgree'
<1> SUFFICES ASSUME NEW c \in Channels, ch'[c].client = "forward"
             PROVE  \E v \in Visitors :
                      /\ vis'[v].pc \in {"forward", "gone"} /\ vis'[v].group = ch'[c].cmd.group
                      /\ Of[v] = ch'[c].svc /\ vis'[v].got[ch'[c].cmd.index + 1] = c
  BY DEF GroupsAgree
<1>1. ch[c].client = "forward" /\ ch'[c].cmd = ch[c].cmd /\ ch'[c].svc = ch[c].svc
  BY DEF Fades, Keeps
<1>2. PICK v \in Visitors :
        /\ vis[v].pc \in {"forward", "gone"} /\ vis[v].group = ch[c].cmd.group
        /\ Of[v] = ch[c].svc /\ vis[v].got[ch[c].cmd.index + 1] = c
  BY <1>1 DEF GroupsAgree
<1>3. Stays(vis[v], vis'[v])
  BY <1>2 DEF Moves, GivesUp, Starts, Owning
<1> QED
  BY <1>1, <1>2, <1>3 DEF Stays

(* What a visitor holds stays so while nobody else drops it.               *)
Holds(k, l) == k.server = "held" => l.server = "held" /\ l.cmd = k.cmd

LEMMA HoldingsKept ==
  ASSUME PairingTypeOK, Holdings,
         \A w \in Visitors : vis'[w].pc # "gone" =>
           \/ vis'[w].got = <<>>
           \/ /\ vis[w].pc # "gone" /\ vis'[w].group = vis[w].group /\ vis'[w].got = vis[w].got
              /\ CountIn(vis'[w]) = CountIn(vis[w])
              /\ \A i \in 1..Len(vis[w].got) : Holds(ch[vis[w].got[i]], ch'[vis[w].got[i]])
  PROVE  Holdings'
<1> SUFFICES ASSUME NEW w \in Visitors, vis'[w].pc # "gone", NEW i \in 1..Len(vis'[w].got)
             PROVE  HeldBy(ch'[vis'[w].got[i]], vis'[w], i)
  BY DEF Holdings, HeldBy, CountIn
<1>1. vis'[w].got # <<>>
  OBVIOUS
<1>2. /\ vis[w].pc # "gone" /\ vis'[w].group = vis[w].group /\ vis'[w].got = vis[w].got
      /\ CountIn(vis'[w]) = CountIn(vis[w])
      /\ \A j \in 1..Len(vis[w].got) : Holds(ch[vis[w].got[j]], ch'[vis[w].got[j]])
  BY <1>1
<1>3. HeldBy(ch[vis[w].got[i]], vis[w], i)
  BY <1>2 DEF Holdings
<1> QED
  BY <1>2, <1>3 DEF HeldBy, Holds

(* Two visitors hold no channel in common.                                 *)
LEMMA NotShared ==
  ASSUME PairingTypeOK, Labels, NEW v \in Visitors, NEW w \in Visitors, v # w,
         vis[v].pc # "gone", vis[w].pc # "gone",
         NEW i \in 1..Len(vis[v].got), NEW j \in 1..Len(vis[w].got)
  PROVE  vis[v].got[i] # vis[w].got[j]
<1>1. HeldBy(ch[vis[v].got[i]], vis[v], i) /\ HeldBy(ch[vis[w].got[j]], vis[w], j)
  BY DEF Labels, Holdings
<1>2. vis[v].got # <<>> /\ vis[w].got # <<>>
  OBVIOUS
<1>3. Owning(vis[v]) /\ Owning(vis[w])
  BY <1>2 DEF Labels, Owners, OwnerFits
<1>4. vis[v].group # vis[w].group
  BY <1>3 DEF Labels, Owners
<1> QED
  BY <1>1, <1>4 DEF HeldBy

(* A step of the channels alone; the client may begin to forward some.     *)
LEMMA ChannelStep ==
  ASSUME PairingTypeOK, PairingTypeOK', Labels, UNCHANGED <<groups, vis>>,
         \A c \in Channels : Keeps(ch[c], ch'[c]) /\ Holds(ch[c], ch'[c])
  PROVE  GroupsAgree' => Labels'
<1>0. groups \in Nat /\ \A w \in Visitors : vis[w] \in VisitorTypes
  BY TypesOf
<1>1. \A w \in Visitors : Moves(vis[w], vis'[w], groups)
  BY DEF Moves, Stays, GivesUp, Owning
<1>2. LabelsFit' /\ Claims' /\ Distinct'
  BY <1>0, <1>1, LabelsKept
<1>3. Owners'
  BY DEF Labels, Owners, OwnerFits, Owning
<1>4. Holdings'
  <2>1. \A w \in Visitors : \A i \in 1..Len(vis[w].got) : vis[w].got[i] \in Channels
    BY <1>0, VisitorFacts
  <2>2. Holdings
    BY DEF Labels
  <2> QED
    BY <2>1, <2>2, HoldingsKept
<1> QED
  BY <1>2, <1>3, <1>4 DEF Labels

(* What is on its way stays where it is.                                   *)
Waits(k, l) == k.server \in {"bridge", "queue"} =>
                 l.server = k.server /\ l.tun = k.tun /\ l.svc = k.svc

LEMMA QueuesKept ==
  ASSUME Shape, Sites, queue' = queue,
         \A c \in Channels : ch[c].server = "queue" =>
           ch'[c].server = "queue" /\ ch'[c].svc = ch[c].svc
  PROVE  InQueue' /\ OneQueue'
<1>1. \A p \in Pools : \A i \in 1..Len(queue[p]) : queue[p][i] \in Channels
  BY DEF Shape, PairingTypeOK
<1> QED
  BY <1>1 DEF Sites, InQueue, OneQueue

LEMMA TunnelKept ==
  ASSUME Shape, Sites, NEW t \in Tunnels, bridge'[t] = bridge[t], routed'[t] = routed[t],
         \A c \in Channels : OnTunnel(t, ch[c]) => OnTunnel(t, ch'[c]) /\ ch'[c].svc = ch[c].svc
  PROVE  TunnelFits(t, bridge'[t], routed'[t], ch')
<1>1. \A i \in 1..Len(bridge[t]) : bridge[t][i] \in Channels
  BY DEF Shape, PairingTypeOK
<1>2. routed[t] # <<>> => routed[t][1] \in Channels
  BY DEF Shape, Routings
<1>3. TunnelFits(t, bridge[t], routed[t], ch)
  BY DEF Sites, OnTheTunnels
<1> QED
  BY <1>1, <1>2, <1>3 DEF TunnelFits

(* One tunnel changes.                                                     *)
LEMMA TunnelChanges ==
  ASSUME Shape, Sites, NEW t \in Tunnels,
         \A u \in Tunnels \ {t} : bridge'[u] = bridge[u] /\ routed'[u] = routed[u],
         \A c \in Channels : ch[c].server = "bridge" /\ ch[c].tun # t => Waits(ch[c], ch'[c]),
         TunnelFits(t, bridge'[t], routed'[t], ch')
  PROVE  OnTheTunnels'
<1> SUFFICES ASSUME NEW u \in Tunnels PROVE TunnelFits(u, bridge'[u], routed'[u], ch')
  BY DEF OnTheTunnels, TunnelFits, OnTunnel
<1>1. CASE u = t
  BY <1>1
<1>2. CASE u # t
  <2>1. \A c \in Channels : OnTunnel(u, ch[c]) => OnTunnel(u, ch'[c]) /\ ch'[c].svc = ch[c].svc
    BY <1>2 DEF OnTunnel, Waits
  <2> QED
    BY <1>2, <2>1, TunnelKept
<1> QED
  BY <1>1, <1>2

LEMMA SitesKept ==
  ASSUME Shape, Sites, UNCHANGED <<queue, bridge, routed>>,
         \A c \in Channels : Waits(ch[c], ch'[c])
  PROVE  Sites'
<1>1. InQueue' /\ OneQueue'
  BY QueuesKept DEF Waits
<1>2. ASSUME NEW t \in Tunnels PROVE TunnelFits(t, bridge'[t], routed'[t], ch')
  <2>1. \A c \in Channels : OnTunnel(t, ch[c]) => OnTunnel(t, ch'[c]) /\ ch'[c].svc = ch[c].svc
    BY DEF OnTunnel, Waits
  <2> QED
    BY <2>1, TunnelKept
<1>3. OnTheTunnels'
  BY <1>2 DEF OnTheTunnels, TunnelFits, OnTunnel
<1> QED
  BY <1>1, <1>3 DEF Sites

(* The client drops its ends of some channels.                             *)
Gentle(k, l) == Fades(k, l) /\ Holds(k, l) /\ Waits(k, l)

LEMMA ClientDrops ==
  ASSUME NEW chs \in [Channels -> ChannelTypes], NEW S, NEW c \in Channels
  PROVE  Gentle(chs[c], CloseClient(S, chs)[c])
<1> DEFINE l == CloseClient(S, chs)[c]
<1>1. CASE c \notin S
  <2>1. l = chs[c]
    BY <1>1, CloseClientFacts
  <2> HIDE DEF l
  <2>2. Gentle(chs[c], l)
    BY <2>1 DEF Gentle, Fades, Keeps, Holds, Waits
  <2> QED
    BY <2>2 DEF l
<1>2. CASE c \in S
  <2>1. \/ l = [chs[c] EXCEPT !.client = "closed"]
        \/ l = Blank /\ chs[c].server \in {"none", "closed"}
    BY <1>2, CloseClientFacts
  <2>2. [chs[c] EXCEPT !.client = "closed"] =
          [svc |-> chs[c].svc, old |-> chs[c].old, tun |-> chs[c].tun, cut |-> chs[c].cut,
           server |-> chs[c].server, client |-> "closed", cmd |-> chs[c].cmd]
    BY DEF ChannelTypes
  <2> HIDE DEF l
  <2>3. Gentle(chs[c], l)
    BY <2>1, <2>2, BlankFacts DEF Gentle, Fades, Keeps, Holds, Waits
  <2> QED
    BY <2>3 DEF l
<1> QED
  BY <1>1, <1>2

(* One gentle change after another is gentle.                              *)
LEMMA GentleTwice ==
  ASSUME NEW k, NEW l, NEW m, Gentle(k, l), Gentle(l, m)
  PROVE  Gentle(k, m)
<1>1. Holds(k, m) /\ Waits(k, m)
  BY DEF Gentle, Holds, Waits
<1>2. Keeps(k, m)
  BY DEF Gentle, Fades, Keeps, Labelled
<1>3. m.client = "forward" => k.client = "forward"
  BY DEF Gentle, Fades
<1> QED
  BY <1>1, <1>2, <1>3 DEF Gentle, Fades

LEMMA GentleStep ==
  ASSUME PairingInv, Shape', UNCHANGED <<groups, vis, queue, bridge, routed>>,
         \A c \in Channels : Gentle(ch[c], ch'[c])
  PROVE  PairingInv'
<1>1. PairingTypeOK /\ PairingTypeOK' /\ Labels /\ Sites /\ Shape
  BY DEF PairingInv, Shape
<1>2. Sites'
  BY <1>1, SitesKept DEF Gentle
<1>3. GroupsAgree'
  <2>1. \A w \in Visitors : Moves(vis[w], vis'[w], groups)
    BY DEF Moves, Stays, GivesUp, Owning
  <2> QED
    BY <1>1, <2>1, AgreementKept DEF Gentle, Labels
<1>4. Labels'
  BY <1>1, <1>3, ChannelStep DEF Gentle, Fades
<1> QED
  BY <1>2, <1>4 DEF PairingInv

-----------------------------------------------------------------------------
(* The client's steps.                                                     *)

(* Shape, when the channels and the client's memory change.                *)
LEMMA ShapeOfChannels ==
  ASSUME Shape, ch' \in [Channels -> ChannelTypes], ctl' \in Seq(Commands), stones' \subseteq Nat,
         UNCHANGED <<visitorVars, serverVars, active, tunnelVars, faults>>
  PROVE  Shape'
  BY DEF Shape, PairingTypeOK, visitorVars, serverVars, tunnelVars, Pools, Routings

LEMMA DroppingStep ==
  ASSUME PairingInv, NEW S, ch' = CloseClient(S, ch), ctl' \in Seq(Commands), stones' \subseteq Nat,
         UNCHANGED <<visitorVars, serverVars, active, tunnelVars, faults>>
  PROVE  PairingInv'
<1>1. Shape /\ ch \in [Channels -> ChannelTypes]
  BY TypesOf DEF PairingInv, Shape
<1>2. ch' \in [Channels -> ChannelTypes]
  BY <1>1, CloseClientFacts
<1>3. Shape'
  BY <1>1, <1>2, ShapeOfChannels
<1>4. \A c \in Channels : Gentle(ch[c], ch'[c])
  BY <1>1, ClientDrops
<1> QED
  BY <1>3, <1>4, GentleStep DEF visitorVars, serverVars, tunnelVars

LEMMA QueueTypes ==
  ASSUME PairingInv
  PROVE  /\ ctl \in Seq(Commands) /\ stones \subseteq Nat /\ Shape /\ Sites /\ Labels
         /\ ch \in [Channels -> ChannelTypes] /\ vis \in [Visitors -> VisitorTypes]
         /\ queue \in [Pools -> Seq(Channels)] /\ bridge \in [Tunnels -> Seq(Channels)]
         /\ routed \in [Tunnels -> Routings] /\ groups \in Nat /\ PairingTypeOK
  BY TypesOf DEF PairingInv, Shape, PairingTypeOK

LEMMA ReadEofKeeps == ASSUME PairingInv, NEW c \in Channels, ReadEof(c) PROVE PairingInv'
<1>1. ctl' \in Seq(Commands) /\ stones' \subseteq Nat
  BY QueueTypes DEF ReadEof
<1> QED
  BY <1>1, DroppingStep DEF ReadEof

LEMMA ForwardEndsKeeps == ASSUME PairingInv, NEW c \in Channels, ForwardEnds(c) PROVE PairingInv'
<1>1. ctl' \in Seq(Commands) /\ stones' \subseteq Nat
  BY QueueTypes DEF ForwardEnds
<1> QED
  BY <1>1, DroppingStep DEF ForwardEnds

LEMMA DropRegistryKeeps == ASSUME PairingInv, NEW s \in Services, DropRegistry(s) PROVE PairingInv'
<1>1. ctl' \in Seq(Commands) /\ stones' \subseteq Nat
  BY QueueTypes DEF DropRegistry
<1> QED
  BY <1>1, DroppingStep DEF DropRegistry

LEMMA TakeReleaseKeeps == ASSUME PairingInv, TakeRelease PROVE PairingInv'
<1>0. ctl \in Seq(Commands) /\ ctl # <<>> /\ stones \subseteq Nat /\ ch \in [Channels -> ChannelTypes]
  BY QueueTypes DEF TakeRelease
<1>1. ctl' \in Seq(Commands) /\ Head(ctl) \in Commands
  BY <1>0, TailFacts DEF TakeRelease
<1>2. Head(ctl).group \in Nat
  BY <1>1 DEF Commands
<1>3. stones' \subseteq Nat
  BY <1>0, <1>2 DEF TakeRelease, Bury
<1>4. UNCHANGED <<visitorVars, serverVars, active, tunnelVars, faults>>
  BY DEF TakeRelease
<1>5. CASE Head(ctl).svc \in active
  <2>1. PICK S : ch' = CloseClient(S, ch)
    BY <1>5 DEF TakeRelease
  <2> QED
    BY <1>1, <1>3, <1>4, <2>1, DroppingStep
<1>6. CASE Head(ctl).svc \notin active
  <2>1. ch' = ch
    BY <1>6 DEF TakeRelease
  <2>2. Shape'
    BY <1>0, <1>1, <1>3, <1>4, <2>1, QueueTypes, ShapeOfChannels
  <2>3. \A c \in Channels : Gentle(ch[c], ch'[c])
    BY <2>1 DEF Gentle, Fades, Keeps, Holds, Waits
  <2> QED
    BY <1>4, <2>2, <2>3, GentleStep DEF visitorVars, serverVars, tunnelVars
<1> QED
  BY <1>5, <1>6

(* A group that is complete on the client is complete on the server: as    *)
(* many channels as the group has stripes, each with an index of its own,  *)
(* include the last one, which no attempt that was given up ever labelled. *)
LEMMA LastIsThere ==
  ASSUME NEW S, NEW f, NEW n \in Nat \ {0}, f \in [S -> 0..(n - 1)],
         \A d, e \in S : f[d] = f[e] => d = e, IsFiniteSet(S), Cardinality(S) = n
  PROVE  \E d \in S : f[d] = n - 1
<1> SUFFICES ASSUME \A d \in S : f[d] # n - 1 PROVE FALSE
  OBVIOUS
<1>1. f \in [S -> 0..(n - 2)]
  OBVIOUS
<1>2. f \in Injection(S, 0..(n - 2))
  BY <1>1 DEF Injection, IsInjective
<1>3. IsFiniteSet(0..(n - 2)) /\ Cardinality(0..(n - 2)) = n - 1
  BY FS_Interval
<1>4. Cardinality(S) <= n - 1
  BY <1>2, <1>3, FS_Injection
<1> QED
  BY <1>4

LEMMA IndexBelowCount ==
  ASSUME PairingInv, NEW c \in Channels, Labelled(ch[c])
  PROVE  ch[c].cmd.index + 1 <= ch[c].cmd.count
<1>0. ch[c] \in ChannelTypes /\ \A v \in Visitors : vis[v] \in VisitorTypes
  BY QueueTypes
<1>1. CASE Abandoned(ch[c], vis)
  BY <1>0, <1>1, ChannelFacts DEF Abandoned
<1>2. ASSUME NEW v \in Visitors, Placed(c, ch[c], vis[v], Of[v])
      PROVE  ch[c].cmd.index + 1 <= ch[c].cmd.count
  <2>1. OwnerFits(vis[v])
    BY QueueTypes DEF Labels, Owners
  <2> QED
    BY <1>0, <1>2, <2>1, ChannelFacts, VisitorFacts DEF Placed, CountIn, OwnerFits
<1> QED
  BY <1>1, <1>2, QueueTypes DEF Labels, Claims

Agrees(c, k) ==
  \E v \in Visitors :
    /\ vis[v].pc \in {"forward", "gone"} /\ vis[v].group = k.cmd.group
    /\ Of[v] = k.svc /\ vis[v].got[k.cmd.index + 1] = c

LEMMA CompleteGroup ==
  ASSUME PairingInv, NEW S, S \subseteq Channels, S # {}, NEW g, NEW n \in Nat, Cardinality(S) = n,
         \A d \in S : Labelled(ch[d]) /\ ch[d].cmd.group = g /\ ch[d].cmd.count = n
  PROVE  \A d \in S : Agrees(d, ch[d])
<1>0. /\ \A c \in Channels : ch[c] \in ChannelTypes
      /\ \A v \in Visitors : vis[v] \in VisitorTypes
  BY QueueTypes
<1>1. IsFiniteSet(S)
  BY PairingAssumption, FS_Subset
<1>2. n \in Nat \ {0}
  BY <1>1, FS_EmptySet
<1> DEFINE f == [d \in S |-> ch[d].cmd.index]
<1>3. \A d \in S : ch[d].cmd.index \in 0..(n - 1)
  BY <1>0, IndexBelowCount, ChannelFacts
<1>4. \A d, e \in S : ch[d].cmd.index = ch[e].cmd.index => d = e
  BY QueueTypes DEF Labels, Distinct
<1>5. PICK l \in S : ch[l].cmd.index = n - 1
  <2>1. f \in [S -> 0..(n - 1)] /\ \A d, e \in S : f[d] = f[e] => d = e
    BY <1>3, <1>4
  <2>2. \E d \in S : f[d] = n - 1
    <3> HIDE DEF f
    <3> QED
      BY <1>1, <1>2, <2>1, LastIsThere
  <2> QED
    BY <2>2
<1>6. PICK v \in Visitors : Placed(l, ch[l], vis[v], Of[v])
  <2>1. ~Abandoned(ch[l], vis)
    BY <1>2, <1>5 DEF Abandoned
  <2> QED
    BY <2>1, QueueTypes DEF Labels, Claims
<1>7. vis[v].pc \in {"forward", "gone"}
  <2>1. OwnerFits(vis[v])
    BY QueueTypes DEF Labels, Owners
  <2>2. vis[v].pc # "gather"
    BY <1>0, <1>2, <1>5, <1>6, <2>1, VisitorFacts DEF Placed, CountIn, OwnerFits
  <2> QED
    BY <1>6, <2>2 DEF Placed, Owning
<1>8. ASSUME NEW d \in S PROVE Agrees(d, ch[d])
  <2>1. ~Abandoned(ch[d], vis)
    BY <1>6 DEF Abandoned, Placed
  <2>2. PICK w \in Visitors : Placed(d, ch[d], vis[w], Of[w])
    BY <2>1, QueueTypes DEF Labels, Claims
  <2>3. w = v
    BY <1>6, <2>2, QueueTypes DEF Labels, Owners, Placed
  <2> QED
    BY <1>7, <2>2, <2>3 DEF Placed, Agrees
<1> QED
  BY <1>8

LEMMA ReadCommandKeeps == ASSUME PairingInv, NEW c \in Channels, ReadCommand(c) PROVE PairingInv'
<1>0. /\ ch \in [Channels -> ChannelTypes] /\ ctl \in Seq(Commands) /\ stones \subseteq Nat
      /\ Shape /\ Labels /\ Sites /\ PairingTypeOK /\ groups \in Nat
  BY QueueTypes
<1>1. PICK late \in {{}, {d \in Stale : ch[d].svc = ch[c].svc /\ ch[d].old = ch[c].old}} :
        Register(c, CloseClient(late, ch))
  BY DEF ReadCommand
<1> DEFINE chs == CloseClient(late, ch)
           m == ch[c].cmd
           mates == {d \in Channels : chs[d].client = "parked" /\ chs[d].cmd.group = m.group
                                        /\ chs[d].old = chs[c].old}
<1>2. /\ UNCHANGED <<visitorVars, serverVars, active, tunnelVars, faults>>
      /\ ctl' \in Seq(Commands) /\ stones' \subseteq Nat
      /\ Labelled(ch[c]) /\ ch[c].client = "waiting"
  BY <1>0 DEF ReadCommand, Labelled
<1>3. chs \in [Channels -> ChannelTypes] /\ \A d \in Channels : Gentle(ch[d], chs[d])
  BY <1>0, CloseClientFacts, ClientDrops
<1>4. c \notin late /\ chs[c] = ch[c]
  <2>1. c \notin late
    BY <1>2 DEF Stale
  <2> QED
    BY <1>0, <2>1, CloseClientFacts
<1>5. ASSUME NEW S, ch' = CloseClient(S, chs) PROVE PairingInv'
  <2> HIDE DEF chs
  <2>1. ch' \in [Channels -> ChannelTypes] /\ \A d \in Channels : Gentle(chs[d], ch'[d])
    BY <1>3, <1>5, CloseClientFacts, ClientDrops
  <2>2. Shape'
    BY <1>0, <1>2, <2>1, ShapeOfChannels
  <2>3. \A d \in Channels : Gentle(ch[d], ch'[d])
    BY <1>3, <2>1, GentleTwice
  <2> QED
    BY <1>2, <2>2, <2>3, GentleStep DEF visitorVars, serverVars, tunnelVars
<1>6. CASE ch' = [chs EXCEPT ![c].client = "parked"]
  <2> HIDE DEF chs
  <2>1. [chs[c] EXCEPT !.client = "parked"] =
          [svc |-> chs[c].svc, old |-> chs[c].old, tun |-> chs[c].tun, cut |-> chs[c].cut,
           server |-> chs[c].server, client |-> "parked", cmd |-> chs[c].cmd]
    BY <1>3 DEF ChannelTypes
  <2>2. [chs[c] EXCEPT !.client = "parked"] \in ChannelTypes
    BY <1>3 DEF ChannelTypes
  <2>3. ch' \in [Channels -> ChannelTypes]
    BY <1>3, <1>6, <2>2
  <2>4. Gentle(chs[c], [chs[c] EXCEPT !.client = "parked"])
    BY <1>2, <1>4, <2>1 DEF Gentle, Fades, Keeps, Holds, Waits
  <2>5. \A d \in Channels : Gentle(chs[d], chs[d])
    BY DEF Gentle, Fades, Keeps, Holds, Waits
  <2>6. \A d \in Channels : ch'[d] = IF d = c THEN [chs[c] EXCEPT !.client = "parked"] ELSE chs[d]
    BY <1>3, <1>6
  <2>7. \A d \in Channels : Gentle(ch[d], ch'[d])
    BY <1>3, <2>4, <2>5, <2>6, GentleTwice
  <2>8. Shape'
    BY <1>0, <1>2, <2>3, ShapeOfChannels
  <2> QED
    BY <1>2, <2>7, <2>8, GentleStep DEF visitorVars, serverVars, tunnelVars
<1>7. CASE /\ \A d \in mates : chs[d].cmd.index # m.index /\ chs[d].cmd.count = m.count
           /\ Cardinality(mates) + 1 = m.count
           /\ ch' = [d \in Channels |-> IF d \in mates \cup {c}
                                        THEN [chs[d] EXCEPT !.client = "forward"] ELSE chs[d]]
  <2>1. \A d \in mates \cup {c} :
          [chs[d] EXCEPT !.client = "forward"] =
            [svc |-> chs[d].svc, old |-> chs[d].old, tun |-> chs[d].tun, cut |-> chs[d].cut,
             server |-> chs[d].server, client |-> "forward", cmd |-> chs[d].cmd]
    <3> HIDE DEF chs
    <3> QED
      BY <1>3 DEF ChannelTypes
  <2>2. \A d \in mates \cup {c} : [chs[d] EXCEPT !.client = "forward"] \in ChannelTypes
    <3> HIDE DEF chs
    <3> QED
      BY <1>3 DEF ChannelTypes
  <2>3. ch' \in [Channels -> ChannelTypes]
    <3> HIDE DEF chs, mates
    <3> QED
      BY <1>3, <1>7, <2>2
  <2>4. \A d \in mates : ch[d].client = "parked" /\ chs[d] = ch[d]
    <3> SUFFICES ASSUME NEW d \in mates PROVE ch[d].client = "parked" /\ chs[d] = ch[d]
      OBVIOUS
    <3>1. d \in Channels /\ chs[d].client = "parked"
      OBVIOUS
    <3>2. d \notin late
      <4>1. [ch[d] EXCEPT !.client = "closed"].client = "closed"
        BY <1>0, <3>1 DEF ChannelTypes
      <4>2. ASSUME d \in late
            PROVE  chs[d] = [ch[d] EXCEPT !.client = "closed"] \/ chs[d] = Blank
        <5> HIDE DEF mates
        <5> QED
          BY <1>0, <3>1, <4>2, CloseClientFacts
      <4> HIDE DEF mates, chs
      <4> QED
        BY <3>1, <4>1, <4>2, BlankFacts
    <3> HIDE DEF mates
    <3>3. chs[d] = ch[d]
      BY <1>0, <3>1, <3>2, CloseClientFacts
    <3> QED
      BY <3>1, <3>3
  <2>5. \A d \in mates \cup {c} : chs[d] = ch[d] /\ d \in Channels /\ Labelled(ch[d])
    BY <1>0, <1>2, <1>4, <2>4 DEF Labels, LabelsFit, LabelFits
  <2>6. c \notin mates /\ \A d \in mates : ch[d].cmd.group = m.group /\ ch[d].cmd.count = m.count
    BY <1>2, <1>7, <2>4
  <2>7. /\ IsFiniteSet(mates) /\ Cardinality(mates \cup {c}) = m.count
        /\ m.count \in Nat
    <3>1. mates \in SUBSET Channels
      OBVIOUS
    <3> HIDE DEF mates
    <3>2. IsFiniteSet(mates)
      BY <3>1, PairingAssumption, FS_Subset
    <3>3. m.count \in Nat
      BY <1>0, ChannelFacts
    <3> QED
      BY <1>7, <2>6, <3>2, <3>3, FS_AddElement
  <2>8. \A d \in mates \cup {c} : Agrees(d, ch[d])
    <3> DEFINE S == mates \cup {c}
    <3>1. S \subseteq Channels /\ S # {} /\ Cardinality(S) = m.count
      BY <2>5, <2>7
    <3>2. \A d \in S : Labelled(ch[d]) /\ ch[d].cmd.group = m.group /\ ch[d].cmd.count = m.count
      BY <2>5, <2>6
    <3> HIDE DEF mates, S, m
    <3>3. \A d \in S : Agrees(d, ch[d])
      BY <2>7, <3>1, <3>2, CompleteGroup
    <3> QED
      BY <3>3 DEF S
  <2> HIDE DEF mates, chs, m
  <2>9. \A d \in Channels : ch'[d] = IF d \in mates \cup {c}
                                     THEN [chs[d] EXCEPT !.client = "forward"] ELSE chs[d]
    BY <1>7
  <2>10. \A d \in mates \cup {c} : ch'[d].cmd = ch[d].cmd /\ ch'[d].svc = ch[d].svc
                                   /\ ch'[d].server = ch[d].server /\ ch'[d].tun = ch[d].tun
    <3> SUFFICES ASSUME NEW d \in mates \cup {c}
                 PROVE  /\ ch'[d].cmd = ch[d].cmd /\ ch'[d].svc = ch[d].svc
                        /\ ch'[d].server = ch[d].server /\ ch'[d].tun = ch[d].tun
      OBVIOUS
    <3>1. ch'[d] = [chs[d] EXCEPT !.client = "forward"] /\ chs[d] = ch[d]
      BY <2>5, <2>9
    <3>2. ch'[d] = [svc |-> chs[d].svc, old |-> chs[d].old, tun |-> chs[d].tun, cut |-> chs[d].cut,
                    server |-> chs[d].server, client |-> "forward", cmd |-> chs[d].cmd]
      BY <2>1, <3>1
    <3> QED
      BY ONLY <3>1, <3>2
  <2>11. \A d \in Channels : Keeps(ch[d], ch'[d]) /\ Holds(ch[d], ch'[d]) /\ Waits(ch[d], ch'[d])
    <3> SUFFICES ASSUME NEW d \in Channels
                 PROVE  Keeps(ch[d], ch'[d]) /\ Holds(ch[d], ch'[d]) /\ Waits(ch[d], ch'[d])
      OBVIOUS
    <3>1. CASE d \in mates \cup {c}
      BY <2>5, <2>10, <3>1 DEF Keeps, Holds, Waits
    <3>2. CASE d \notin mates \cup {c}
      BY <1>3, <2>9, <3>2 DEF Gentle, Fades
    <3> QED
      BY <3>1, <3>2
  <2>12. GroupsAgree'
    <3> SUFFICES ASSUME NEW d \in Channels, ch'[d].client = "forward" PROVE Agrees(d, ch'[d])
      BY <1>2 DEF GroupsAgree, Agrees, visitorVars
    <3>1. CASE d \in mates \cup {c}
      BY <2>8, <2>10, <3>1 DEF Agrees
    <3>2. CASE d \notin mates \cup {c}
      <4>1. ch[d].client = "forward" /\ ch'[d].cmd = ch[d].cmd /\ ch'[d].svc = ch[d].svc
        BY <1>3, <2>9, <3>2 DEF Gentle, Fades, Keeps
      <4> QED
        BY <1>0, <4>1 DEF Labels, GroupsAgree, Agrees
    <3> QED
      BY <3>1, <3>2
  <2>13. Shape'
    BY <1>0, <1>2, <2>3, ShapeOfChannels
  <2>14. Labels'
    <3>1. UNCHANGED <<groups, vis>> /\ PairingTypeOK'
      BY <1>2, <2>13 DEF visitorVars, Shape
    <3> QED
      BY <1>0, <2>11, <2>12, <3>1, ChannelStep
  <2>15. Sites'
    BY <1>0, <1>2, <2>11, SitesKept DEF serverVars, tunnelVars
  <2> QED
    BY <2>13, <2>14, <2>15 DEF PairingInv
<1>8. \/ \E S : ch' = CloseClient(S, chs)
      \/ ch' = [chs EXCEPT ![c].client = "parked"]
      \/ /\ \A d \in mates : chs[d].cmd.index # m.index /\ chs[d].cmd.count = m.count
         /\ Cardinality(mates) + 1 = m.count
         /\ ch' = [d \in Channels |-> IF d \in mates \cup {c}
                                      THEN [chs[d] EXCEPT !.client = "forward"] ELSE chs[d]]
  <2>1. Register(c, chs)
    BY <1>1
  <2> HIDE DEF chs
  <2> QED
    BY <2>1, Zenon DEF Register
<1> QED
  BY <1>5, <1>6, <1>7, <1>8

(* The least of some channels is one of them.                              *)
LEMMA LeastIsMember == ASSUME NEW S, S \subseteq Channels, S # {} PROVE LeastOf(S) \in S
<1> DEFINE R == {ss \in Nat \X Nat : ss[1] < ss[2]}
<1>1. S \subseteq Nat
  BY Numbers
<1>2. IsWellFoundedOn(R, Nat)
  BY NatLessThanWellFounded, Zenon DEF OpToRel
<1>3. \E i \in S : \A j \in S : ~(<<j, i>> \in R)
  <2> HIDE DEF R
  <2> QED
    BY <1>1, <1>2, WFMin
<1>4. PICK i \in S : \A j \in S : ~(<<j, i>> \in R)
  BY <1>3
<1>5. \A j \in S : i <= j
  <2> SUFFICES ASSUME NEW j \in S PROVE i <= j
    OBVIOUS
  <2>1. ~(<<j, i>> \in R)
    BY <1>4
  <2> QED
    BY <1>1, <2>1
<1> QED
  BY <1>5 DEF LeastOf

(* A tunnel that goes cuts its streams.                                    *)
LEMMA CutIsGentle ==
  ASSUME NEW chs \in [Channels -> ChannelTypes], NEW t, NEW c \in Channels
  PROVE  Gentle(chs[c], Sever(t, chs)[c])
<1> DEFINE l == Sever(t, chs)[c]
<1>1. l = chs[c] \/ l = [chs[c] EXCEPT !.cut = TRUE]
  BY SeverFacts
<1> HIDE DEF l
<1>2. /\ l.svc = chs[c].svc /\ l.tun = chs[c].tun /\ l.server = chs[c].server
      /\ l.client = chs[c].client /\ l.cmd = chs[c].cmd
  BY <1>1 DEF ChannelTypes
<1>3. Gentle(chs[c], l)
  BY <1>1, <1>2 DEF Gentle, Fades, Keeps, Holds, Waits
<1> QED
  BY <1>3 DEF l

(* Shape, when channels and tunnels change.                                *)
LEMMA ShapeOfTunnels ==
  ASSUME Shape, ch' \in [Channels -> ChannelTypes], ctl' \in Seq(Commands),
         tun' \in [Tunnels -> {"up", "undispatched", "down"}],
         bridge' \in [Tunnels -> Seq(Channels)], routed' \in [Tunnels -> Routings],
         queue' \in [Pools -> Seq(Channels)],
         UNCHANGED <<visitorVars, gen, handle, active, stones>>,
         faults' \in Nat, faults' <= faults
  PROVE  Shape'
<1>1. PairingTypeOK'
  <2>1. \A t \in Tunnels : routed'[t] = <<>> \/ routed'[t] \in Channels \X Pools
    BY DEF Routings
  <2> QED
    BY <2>1, Numbers DEF Shape, PairingTypeOK, visitorVars, Pools
<1>2. ASSUME NEW s \in Services
      PROVE  gen'[s] + (IF s \in active' THEN 0 ELSE 1) + faults' <= MaxFaults
  BY Numbers DEF Shape, PairingTypeOK
<1> QED
  BY <1>1, <1>2 DEF Shape

(* A stream is opened on a free slot.                                      *)
LEMMA OpensKeeps ==
  ASSUME PairingInv, ctl # <<>>, ctl' = Tail(ctl), NEW c \in Channels, ch[c] = Blank,
         NEW t \in Tunnels, Opens(c, t),
         UNCHANGED <<visitorVars, serverVars, active, routed, stones, faults>>
  PROVE  PairingInv'
<1>0. /\ ctl \in Seq(Commands) /\ ch \in [Channels -> ChannelTypes]
      /\ bridge \in [Tunnels -> Seq(Channels)] /\ routed \in [Tunnels -> Routings]
      /\ queue \in [Pools -> Seq(Channels)] /\ Shape /\ Sites /\ Labels /\ PairingTypeOK
  BY QueueTypes
<1> DEFINE k == [Blank EXCEPT !.svc = Head(ctl).svc, !.tun = t, !.client = "waiting", !.server = "bridge"]
<1>1. ctl' \in Seq(Commands) /\ Head(ctl) \in Commands
  BY <1>0, TailFacts
<1>2. /\ k.svc = Head(ctl).svc /\ k.tun = t /\ k.server = "bridge" /\ k.client = "waiting"
      /\ k.cmd = NoCmd
  BY BlankFacts DEF ChannelTypes
<1>3. k \in ChannelTypes
  <2>1. Head(ctl).svc \in Services
    BY <1>1 DEF Commands
  <2> QED
    BY <2>1, BlankFacts DEF ChannelTypes
<1>4. ch' = [ch EXCEPT ![c] = k] /\ bridge' = [bridge EXCEPT ![t] = Append(bridge[t], c)] /\ tun' = tun
  BY DEF Opens
<1> HIDE DEF k
<1>5. ch' \in [Channels -> ChannelTypes] /\ \A d \in Channels : ch'[d] = IF d = c THEN k ELSE ch[d]
  BY <1>0, <1>3, <1>4
<1>6. bridge' \in [Tunnels -> Seq(Channels)]
  BY <1>0, <1>4, AppendFacts
<1>7. Shape'
  <2>1. tun' \in [Tunnels -> {"up", "undispatched", "down"}] /\ faults' = faults /\ faults \in Nat
    BY <1>0, <1>4, Numbers DEF PairingTypeOK
  <2>2. routed' \in [Tunnels -> Routings] /\ queue' \in [Pools -> Seq(Channels)]
        /\ UNCHANGED <<visitorVars, gen, handle, active, stones>>
    BY <1>0 DEF serverVars
  <2> QED
    BY <1>0, <1>1, <1>5, <1>6, <2>1, <2>2, ShapeOfTunnels
<1>8. \A d \in Channels : Gentle(ch[d], ch'[d])
  BY <1>2, <1>5, BlankFacts DEF Gentle, Fades, Keeps, Holds, Waits
<1>9. Labels'
  <2>1. UNCHANGED <<groups, vis>> /\ PairingTypeOK'
    BY <1>7 DEF visitorVars, Shape
  <2>2. \A w \in Visitors : Moves(vis[w], vis'[w], groups)
    BY <2>1 DEF Moves, Stays, GivesUp, Owning
  <2>3. GroupsAgree'
    BY <1>0, <1>8, <2>2, AgreementKept DEF Gentle, Labels
  <2> QED
    BY <1>0, <1>8, <2>1, <2>3, ChannelStep DEF Gentle, Fades
<1>10. Sites'
  <2>1. InQueue' /\ OneQueue'
    BY <1>0, <1>8, QueuesKept DEF Gentle, Waits, serverVars
  <2>2. TunnelFits(t, bridge'[t], routed'[t], ch')
    <3> DEFINE b == bridge[t]
               r == routed[t]
    <3>1. b \in Seq(Channels) /\ r \in Routings /\ TunnelFits(t, b, r, ch)
      BY <1>0 DEF Sites, OnTheTunnels
    <3>2. bridge'[t] = Append(b, c) /\ routed'[t] = r
      BY <1>0, <1>4
    <3> HIDE DEF b, r
    <3>3. /\ Len(Append(b, c)) = Len(b) + 1 /\ Len(b) \in Nat
          /\ \A j \in 1..Len(b) : Append(b, c)[j] = b[j] /\ b[j] \in Channels /\ b[j] # c
          /\ Append(b, c)[Len(b) + 1] = c
      BY <3>1, AppendFacts, BlankFacts DEF TunnelFits, OnTunnel
    <3>4. r # <<>> => r[1] \in Channels /\ r[1] # c
      BY <3>1, BlankFacts DEF TunnelFits, OnTunnel, Routings
    <3>5. OnTunnel(t, ch'[c])
      BY <1>2, <1>5 DEF OnTunnel
    <3>6. \A j \in 1..Len(b) : OnTunnel(t, ch'[b[j]])
      BY <1>5, <3>1, <3>3 DEF TunnelFits
    <3>7. r # <<>> => OnTunnel(t, ch'[r[1]]) /\ ch'[r[1]].svc = r[2][1]
      BY <1>5, <3>1, <3>4 DEF TunnelFits
    <3>8. \A i, j \in 1..(Len(b) + 1) : Append(b, c)[i] = Append(b, c)[j] => i = j
      <4> DEFINE a == Append(b, c)
                 n == Len(b)
      <4>1. n \in Nat /\ a[n + 1] = c /\ \A j \in 1..n : a[j] = b[j] /\ b[j] # c
        BY <3>3
      <4>2. \A i, j \in 1..n : b[i] = b[j] => i = j
        BY <3>1 DEF TunnelFits
      <4> HIDE DEF a, n
      <4>3. \A i, j \in 1..(n + 1) : a[i] = a[j] => i = j
        BY ONLY <4>1, <4>2
      <4> QED
        BY <4>3 DEF a, n
    <3>9. r # <<>> => \A i \in 1..(Len(b) + 1) : Append(b, c)[i] # r[1]
      BY <3>1, <3>3, <3>4 DEF TunnelFits
    <3>10. \A i \in 1..(Len(b) + 1) : OnTunnel(t, ch'[Append(b, c)[i]])
      BY <3>3, <3>5, <3>6
    <3>11. TunnelFits(t, Append(b, c), r, ch')
      BY <3>3, <3>7, <3>8, <3>9, <3>10 DEF TunnelFits
    <3> QED
      BY <3>2, <3>11
  <2>3. \A u \in Tunnels \ {t} : bridge'[u] = bridge[u] /\ routed'[u] = routed[u]
    BY <1>0, <1>4
  <2>4. OnTheTunnels'
    BY <1>0, <1>8, <2>2, <2>3, TunnelChanges DEF Gentle
  <2> QED
    BY <2>1, <2>4 DEF Sites
<1> QED
  BY <1>7, <1>9, <1>10 DEF PairingInv

LEMMA TakeRequestKeeps == ASSUME PairingInv, TakeRequest PROVE PairingInv'
<1>0. /\ ctl \in Seq(Commands) /\ ctl # <<>> /\ ctl' = Tail(ctl) /\ ch \in [Channels -> ChannelTypes]
      /\ UNCHANGED <<visitorVars, serverVars, active, routed, stones, faults>>
      /\ Shape /\ bridge \in [Tunnels -> Seq(Channels)] /\ routed \in [Tunnels -> Routings]
      /\ queue \in [Pools -> Seq(Channels)]
  BY QueueTypes DEF TakeRequest
<1>1. ctl' \in Seq(Commands)
  BY <1>0, TailFacts
<1>2. CASE UNCHANGED <<ch, tun, bridge>>
  <2>1. Shape'
    BY <1>0, <1>1, <1>2, QueueTypes, ShapeOfChannels DEF tunnelVars
  <2>2. \A c \in Channels : Gentle(ch[c], ch'[c])
    BY <1>2 DEF Gentle, Fades, Keeps, Holds, Waits
  <2> QED
    BY <1>0, <1>2, <2>1, <2>2, GentleStep DEF visitorVars, serverVars
<1>3. ASSUME NEW t \in Tunnels, Collapses(t) PROVE PairingInv'
  <2>1. ch' \in [Channels -> ChannelTypes] /\ \A c \in Channels : Gentle(ch[c], ch'[c])
    BY <1>0, <1>3, SeverFacts, CutIsGentle DEF Collapses
  <2>2. tun' \in [Tunnels -> {"up", "undispatched", "down"}] /\ faults' \in Nat /\ faults' <= faults
    BY <1>0, <1>3, Numbers DEF Collapses, Shape, PairingTypeOK
  <2>3. /\ bridge' \in [Tunnels -> Seq(Channels)] /\ routed' \in [Tunnels -> Routings]
        /\ queue' \in [Pools -> Seq(Channels)]
        /\ UNCHANGED <<visitorVars, gen, handle, active, stones, groups, vis, queue, bridge, routed>>
    BY <1>0, <1>3 DEF Collapses, serverVars, visitorVars
  <2>4. Shape'
    BY <1>0, <1>1, <2>1, <2>2, <2>3, ShapeOfTunnels
  <2> QED
    BY <2>1, <2>3, <2>4, GentleStep
<1>4. ASSUME NEW t \in Tunnels, Free # {}, Opens(LeastOf(Free), t) PROVE PairingInv'
  <2>1. LeastOf(Free) \in Channels /\ ch[LeastOf(Free)] = Blank
    BY <1>4, LeastIsMember DEF Free
  <2> QED
    BY <1>0, <1>4, <2>1, OpensKeeps
<1> QED
  BY <1>2, <1>3, <1>4 DEF TakeRequest, Unanswered

-----------------------------------------------------------------------------
(* The tunnels and their dispatch.                                         *)

(* The server drops its ends of some channels.                             *)
LEMMA ServerDrops ==
  ASSUME NEW chs \in [Channels -> ChannelTypes], NEW S, NEW c \in Channels
  PROVE  /\ Fades(chs[c], CloseServer(S, chs)[c])
         /\ c \notin S => CloseServer(S, chs)[c] = chs[c]
<1> DEFINE l == CloseServer(S, chs)[c]
<1>1. c \notin S => l = chs[c]
  BY CloseServerFacts
<1>2. l = chs[c] \/ l = Blank \/ l = [chs[c] EXCEPT !.server = "closed"]
  BY CloseServerFacts
<1>3. LET m == [chs[c] EXCEPT !.server = "closed"]
      IN  m.cmd = chs[c].cmd /\ m.svc = chs[c].svc /\ m.client = chs[c].client /\ m.server = "closed"
  BY DEF ChannelTypes
<1> HIDE DEF l
<1>4. Fades(chs[c], l)
  BY <1>2, <1>3, BlankFacts DEF Fades, Keeps
<1> QED
  BY <1>1, <1>4 DEF l

LEMMA LabelStep ==
  ASSUME PairingInv, PairingTypeOK', UNCHANGED <<groups, vis>>,
         \A c \in Channels : Fades(ch[c], ch'[c]) /\ Holds(ch[c], ch'[c])
  PROVE  Labels'
<1>0. Labels /\ PairingTypeOK
  BY QueueTypes
<1>1. \A w \in Visitors : Moves(vis[w], vis'[w], groups)
  BY DEF Moves, Stays, GivesUp, Owning
<1>2. GroupsAgree'
  BY <1>0, <1>1, AgreementKept DEF Labels
<1> QED
  BY <1>0, <1>2, ChannelStep DEF Fades

(* A bridge without its first stream.                                      *)
LEMMA BridgeTail ==
  ASSUME NEW t, NEW b \in Seq(Channels), b # <<>>, NEW chs, TunnelFits(t, b, <<>>, chs)
  PROVE  /\ Head(b) \in Channels /\ OnTunnel(t, chs[Head(b)]) /\ Tail(b) \in Seq(Channels)
         /\ \A i \in 1..Len(Tail(b)) : Tail(b)[i] \in Channels /\ Tail(b)[i] # Head(b)
                                       /\ OnTunnel(t, chs[Tail(b)[i]])
         /\ \A i, j \in 1..Len(Tail(b)) : Tail(b)[i] = Tail(b)[j] => i = j
<1> DEFINE q == Tail(b)
<1>1. /\ Head(b) \in Channels /\ Head(b) = b[1] /\ 1 \in 1..Len(b) /\ q \in Seq(Channels)
      /\ \A j \in 1..Len(q) : q[j] = b[j + 1] /\ j + 1 \in 1..Len(b)
  BY TailFacts
<1>2. \A i \in 1..Len(b) : OnTunnel(t, chs[b[i]]) /\ b[i] \in Channels
  BY DEF TunnelFits
<1>3. \A i, j \in 1..Len(b) : b[i] = b[j] => i = j
  BY DEF TunnelFits
<1> HIDE DEF q
<1>4. \A i \in 1..Len(q) : i \in Nat \ {0}
  OBVIOUS
<1>5. \A i \in 1..Len(q) : q[i] \in Channels /\ q[i] # Head(b) /\ OnTunnel(t, chs[q[i]])
  BY ONLY <1>1, <1>2, <1>3, <1>4
<1>6. \A i, j \in 1..Len(q) : q[i] = q[j] => i = j
  BY ONLY <1>1, <1>3, <1>4
<1> QED
  BY <1>1, <1>2, <1>5, <1>6 DEF q

LEMMA PairFacts ==
  ASSUME NEW c, NEW p
  PROVE  <<c, p>> # <<>> /\ <<c, p>>[1] = c /\ <<c, p>>[2] = p
  OBVIOUS

LEMMA RouteKeeps == ASSUME PairingInv, NEW t \in Tunnels, Route(t) PROVE PairingInv'
<1>0. /\ ctl \in Seq(Commands) /\ ch \in [Channels -> ChannelTypes]
      /\ bridge \in [Tunnels -> Seq(Channels)] /\ routed \in [Tunnels -> Routings]
      /\ queue \in [Pools -> Seq(Channels)] /\ Shape /\ Sites /\ Labels /\ PairingTypeOK
  BY QueueTypes
<1> DEFINE b == bridge[t]
           c == Head(b)
           s == ch[c].svc
<1>1. /\ tun[t] = "up" /\ routed[t] = <<>> /\ b # <<>>
      /\ bridge' = [bridge EXCEPT ![t] = Tail(b)]
      /\ \/ s \in handle /\ routed' = [routed EXCEPT ![t] = <<c, <<s, gen[s]>>>>] /\ ch' = ch
         \/ s \notin handle /\ ch' = CloseServer({c}, ch) /\ routed' = routed
      /\ UNCHANGED <<visitorVars, serverVars, active, ctl, tun, stones, faults>>
  BY DEF Route
<1>2. b \in Seq(Channels) /\ TunnelFits(t, b, <<>>, ch)
  BY <1>0, <1>1 DEF Sites, OnTheTunnels
<1> HIDE DEF b
<1>3. /\ c \in Channels /\ OnTunnel(t, ch[c]) /\ Tail(b) \in Seq(Channels)
      /\ \A i \in 1..Len(Tail(b)) : Tail(b)[i] \in Channels /\ Tail(b)[i] # c
                                    /\ OnTunnel(t, ch[Tail(b)[i]])
      /\ \A i, j \in 1..Len(Tail(b)) : Tail(b)[i] = Tail(b)[j] => i = j
  BY <1>1, <1>2, BridgeTail
<1> HIDE DEF c
<1>4. /\ ch' \in [Channels -> ChannelTypes]
      /\ \A d \in Channels : Fades(ch[d], ch'[d]) /\ (d # c => ch'[d] = ch[d])
  <2>1. CASE ch' = ch
    <3>1. \A d \in Channels : Fades(ch[d], ch[d])
      BY DEF Fades, Keeps
    <3> QED
      BY ONLY <1>0, <2>1, <3>1
  <2>2. CASE ch' = CloseServer({c}, ch)
    <3>1. ch' \in [Channels -> ChannelTypes]
      BY <1>0, <2>2, CloseServerFacts
    <3>2. ASSUME NEW d \in Channels
          PROVE  Fades(ch[d], ch'[d]) /\ (d \notin {c} => ch'[d] = ch[d])
      BY <1>0, <2>2, ServerDrops
    <3> QED
      BY <3>1, <3>2
  <2> QED
    BY <1>1, <2>1, <2>2
<1>5. routed' \in [Tunnels -> Routings]
  <2>1. s \in handle => <<s, gen[s]>> \in Pools
    BY <1>0 DEF PairingTypeOK, Pools
  <2>2. s \in handle => <<c, <<s, gen[s]>>>> \in Routings
    BY <1>3, <2>1 DEF Routings
  <2> HIDE DEF s
  <2> QED
    BY <1>0, <1>1, <2>2
<1>6. bridge' \in [Tunnels -> Seq(Channels)] /\ bridge'[t] = Tail(b)
      /\ \A u \in Tunnels \ {t} : bridge'[u] = bridge[u] /\ routed'[u] = routed[u]
  BY <1>0, <1>1, <1>3
<1>7. Shape'
  <2>1. /\ tun' \in [Tunnels -> {"up", "undispatched", "down"}] /\ faults' \in Nat /\ faults' <= faults
        /\ ctl' \in Seq(Commands) /\ queue' \in [Pools -> Seq(Channels)]
        /\ UNCHANGED <<visitorVars, gen, handle, active, stones>>
    BY <1>0, <1>1, Numbers DEF PairingTypeOK, serverVars
  <2> QED
    BY <1>0, <1>4, <1>5, <1>6, <2>1, ShapeOfTunnels
<1>8. Labels'
  <2>1. PairingTypeOK' /\ UNCHANGED <<groups, vis>>
    BY <1>1, <1>7 DEF Shape, visitorVars
  <2>2. \A d \in Channels : Fades(ch[d], ch'[d]) /\ Holds(ch[d], ch'[d])
    BY <1>3, <1>4 DEF Holds, OnTunnel
  <2> QED
    BY <2>1, <2>2, LabelStep
<1>9. TunnelFits(t, bridge'[t], routed'[t], ch')
  <2>1. CASE s \in handle /\ routed' = [routed EXCEPT ![t] = <<c, <<s, gen[s]>>>>] /\ ch' = ch
    <3>1. routed'[t] = <<c, <<s, gen[s]>>>>
      BY <1>0, <2>1
    <3>2. routed'[t][1] = c /\ routed'[t][2][1] = s
      BY <3>1
    <3>3. ch'[c].svc = s /\ OnTunnel(t, ch'[c])
      BY <1>3, <2>1
    <3> HIDE DEF s
    <3> QED
      BY <1>3, <1>6, <2>1, <3>2, <3>3 DEF TunnelFits
  <2>2. CASE routed' = routed
    <3>1. routed'[t] = <<>> /\ \A i \in 1..Len(Tail(b)) : OnTunnel(t, ch'[Tail(b)[i]])
      BY <1>1, <1>3, <1>4, <2>2
    <3> QED
      BY <1>3, <1>6, <3>1 DEF TunnelFits
  <2> QED
    BY <1>1, <2>1, <2>2
<1>10. Sites'
  <2>1. \A d \in Channels : ch[d].server # "bridge" \/ ch[d].tun # t => ch'[d] = ch[d]
    BY <1>3, <1>4 DEF OnTunnel
  <2>2. InQueue' /\ OneQueue'
    BY <1>0, <1>1, <2>1, QueuesKept DEF serverVars
  <2>3. OnTheTunnels'
    BY <1>0, <1>6, <1>9, <2>1, TunnelChanges DEF Waits
  <2> QED
    BY <2>2, <2>3 DEF Sites
<1> QED
  BY <1>7, <1>8, <1>10 DEF PairingInv

(* A tunnel loses everything it had not handed over.                       *)
LEMMA TunnelEmptied ==
  ASSUME PairingInv, NEW t \in Tunnels, NEW chs \in [Channels -> ChannelTypes],
         \A c \in Channels : Gentle(ch[c], chs[c]),
         NEW S, \A c \in Channels : c \in S => OnTunnel(t, ch[c]),
         ch' = CloseServer(S, chs), bridge' = [bridge EXCEPT ![t] = <<>>],
         routed' = [routed EXCEPT ![t] = <<>>],
         UNCHANGED <<visitorVars, serverVars, active, ctl, stones>>, faults' \in Nat, faults' <= faults,
         tun' \in [Tunnels -> {"up", "undispatched", "down"}]
  PROVE  PairingInv'
<1>0. /\ ctl \in Seq(Commands) /\ ch \in [Channels -> ChannelTypes]
      /\ bridge \in [Tunnels -> Seq(Channels)] /\ routed \in [Tunnels -> Routings]
      /\ queue \in [Pools -> Seq(Channels)] /\ Shape /\ Sites /\ Labels /\ PairingTypeOK
  BY QueueTypes
<1>1. /\ bridge' \in [Tunnels -> Seq(Channels)] /\ routed' \in [Tunnels -> Routings]
      /\ bridge'[t] = <<>> /\ routed'[t] = <<>>
      /\ \A u \in Tunnels \ {t} : bridge'[u] = bridge[u] /\ routed'[u] = routed[u]
  BY <1>0 DEF Routings
<1>2. /\ ch' \in [Channels -> ChannelTypes]
      /\ \A c \in Channels : Fades(chs[c], ch'[c]) /\ (c \notin S => ch'[c] = chs[c])
  BY CloseServerFacts, ServerDrops
<1>3. Shape'
  <2>1. ctl' \in Seq(Commands) /\ queue' \in [Pools -> Seq(Channels)]
        /\ UNCHANGED <<visitorVars, gen, handle, active, stones>>
    BY <1>0 DEF serverVars
  <2> QED
    BY <1>0, <1>1, <1>2, <2>1, ShapeOfTunnels
<1>4. \A c \in Channels : Fades(ch[c], ch'[c]) /\ Holds(ch[c], ch'[c])
  <2> SUFFICES ASSUME NEW c \in Channels PROVE Fades(ch[c], ch'[c]) /\ Holds(ch[c], ch'[c])
    OBVIOUS
  <2>1. Holds(ch[c], ch'[c])
    BY <1>2 DEF Holds, OnTunnel, Gentle
  <2>2. Fades(ch[c], chs[c]) /\ Fades(chs[c], ch'[c])
    BY <1>2 DEF Gentle
  <2> QED
    BY <2>1, <2>2 DEF Fades, Keeps, Labelled
<1>5. Labels'
  <2>1. PairingTypeOK' /\ UNCHANGED <<groups, vis>>
    BY <1>3 DEF Shape, visitorVars
  <2> QED
    BY <1>4, <2>1, LabelStep
<1>6. Sites'
  <2>1. \A c \in Channels : ch[c].server # "bridge" \/ ch[c].tun # t => Waits(ch[c], ch'[c])
    BY <1>2 DEF OnTunnel, Gentle
  <2>2. InQueue' /\ OneQueue'
    BY <1>0, <2>1, QueuesKept DEF serverVars, Waits
  <2>3. TunnelFits(t, bridge'[t], routed'[t], ch')
    BY <1>1 DEF TunnelFits
  <2>4. OnTheTunnels'
    BY <1>0, <1>1, <2>1, <2>3, TunnelChanges
  <2> QED
    BY <2>2, <2>4 DEF Sites
<1> QED
  BY <1>3, <1>5, <1>6 DEF PairingInv

(* What a tunnel had not handed over is on it.                             *)
LEMMA NotHandedOver ==
  ASSUME PairingInv, NEW t \in Tunnels
  PROVE  /\ \A c \in RangeOf(bridge[t]) : OnTunnel(t, ch[c])
         /\ routed[t] # <<>> => OnTunnel(t, ch[routed[t][1]])
<1>1. bridge[t] \in Seq(Channels) /\ TunnelFits(t, bridge[t], routed[t], ch)
  BY QueueTypes DEF Sites, OnTheTunnels
<1>2. \A c \in RangeOf(bridge[t]) : \E i \in 1..Len(bridge[t]) : bridge[t][i] = c
  BY <1>1, RangeFacts
<1> QED
  BY <1>1, <1>2 DEF TunnelFits

LEMMA EndDispatchKeeps == ASSUME PairingInv, NEW t \in Tunnels, EndDispatch(t) PROVE PairingInv'
<1> DEFINE S == {routed[t][1]} \cup RangeOf(bridge[t])
<1>0. ch \in [Channels -> ChannelTypes] /\ PairingTypeOK
  BY QueueTypes
<1>1. \A c \in Channels : c \in S => OnTunnel(t, ch[c])
  BY NotHandedOver DEF EndDispatch
<1>2. \A c \in Channels : Gentle(ch[c], ch[c])
  BY DEF Gentle, Fades, Keeps, Holds, Waits
<1>3. faults' \in Nat /\ faults' <= faults /\ tun' \in [Tunnels -> {"up", "undispatched", "down"}]
  BY <1>0, Numbers DEF EndDispatch, PairingTypeOK
<1>4. /\ ch' = CloseServer(S, ch) /\ bridge' = [bridge EXCEPT ![t] = <<>>]
      /\ routed' = [routed EXCEPT ![t] = <<>>]
      /\ UNCHANGED <<visitorVars, serverVars, active, ctl, stones>>
  BY DEF EndDispatch
<1> HIDE DEF S
<1> QED
  BY <1>0, <1>1, <1>2, <1>3, <1>4, TunnelEmptied

LEMMA CutTunnelKeeps == ASSUME PairingInv, NEW t \in Tunnels, CutTunnel(t) PROVE PairingInv'
<1> DEFINE S == RangeOf(bridge[t]) \cup (IF routed[t] = <<>> THEN {} ELSE {routed[t][1]})
           chs == Sever(t, ch)
<1>0. ch \in [Channels -> ChannelTypes] /\ PairingTypeOK
  BY QueueTypes
<1>1. \A c \in Channels : c \in S => OnTunnel(t, ch[c])
  BY NotHandedOver
<1>2. chs \in [Channels -> ChannelTypes] /\ \A c \in Channels : Gentle(ch[c], chs[c])
  BY <1>0, SeverFacts, CutIsGentle
<1>3. faults' \in Nat /\ faults' <= faults /\ tun' \in [Tunnels -> {"up", "undispatched", "down"}]
  BY <1>0, Numbers DEF CutTunnel, PairingTypeOK
<1>4. /\ ch' = CloseServer(S, chs) /\ bridge' = [bridge EXCEPT ![t] = <<>>]
      /\ routed' = [routed EXCEPT ![t] = <<>>]
      /\ UNCHANGED <<visitorVars, serverVars, active, ctl, stones>>
  BY DEF CutTunnel
<1> HIDE DEF S, chs
<1> QED
  BY <1>1, <1>2, <1>3, <1>4, TunnelEmptied

LEMMA RedialKeeps == ASSUME PairingInv, NEW t \in Tunnels, Redial(t) PROVE PairingInv'
<1>0. Shape /\ ch \in [Channels -> ChannelTypes]
  BY QueueTypes
<1>1. Shape'
  BY <1>0 DEF Redial, Shape, PairingTypeOK, visitorVars, serverVars, Pools, Routings
<1>2. \A c \in Channels : Gentle(ch[c], ch'[c])
  BY DEF Redial, Gentle, Fades, Keeps, Holds, Waits
<1> QED
  BY <1>1, <1>2, GentleStep DEF Redial, visitorVars, serverVars

(* A channel whose server end changes hands.                               *)
LEMMA ServerEnd ==
  ASSUME NEW r \in ChannelTypes
  PROVE  /\ [r EXCEPT !.server = "queue"] \in ChannelTypes
         /\ LET k == [r EXCEPT !.server = "queue"]
            IN  k.server = "queue" /\ k.svc = r.svc /\ k.cmd = r.cmd /\ k.client = r.client
  BY DEF ChannelTypes

(* A stream handed to the queue of its service is in no queue yet.         *)
LEMMA EnqueueKeeps == ASSUME PairingInv, NEW t \in Tunnels, Enqueue(t) PROVE PairingInv'
<1>0. /\ ctl \in Seq(Commands) /\ ch \in [Channels -> ChannelTypes]
      /\ bridge \in [Tunnels -> Seq(Channels)] /\ routed \in [Tunnels -> Routings]
      /\ queue \in [Pools -> Seq(Channels)] /\ Shape /\ Sites /\ Labels /\ PairingTypeOK
  BY QueueTypes
<1> DEFINE c == routed[t][1]
           p == routed[t][2]
           k == [ch[c] EXCEPT !.server = "queue"]
<1>1. /\ routed[t] # <<>> /\ queue' = [queue EXCEPT ![p] = Append(queue[p], c)]
      /\ ch' = [ch EXCEPT ![c] = k] /\ routed' = [routed EXCEPT ![t] = <<>>]
      /\ UNCHANGED <<visitorVars, gen, handle, active, ctl, tun, bridge, stones, faults>>
  BY DEF Enqueue
<1>2. c \in Channels /\ p \in Pools
  BY <1>0, <1>1 DEF Routings
<1>3. OnTunnel(t, ch[c]) /\ ch[c].svc = p[1] /\ TunnelFits(t, bridge[t], routed[t], ch)
  BY <1>0, <1>1 DEF Sites, OnTheTunnels, TunnelFits
<1>4. /\ k \in ChannelTypes /\ k.server = "queue" /\ k.svc = ch[c].svc /\ k.cmd = ch[c].cmd
      /\ k.client = ch[c].client
  BY <1>0, <1>2, ServerEnd
<1> HIDE DEF c, p, k
<1>5. ch' \in [Channels -> ChannelTypes] /\ \A d \in Channels : ch'[d] = IF d = c THEN k ELSE ch[d]
  BY <1>0, <1>1, <1>2, <1>4
<1>6. /\ queue' \in [Pools -> Seq(Channels)]
      /\ \A q \in Pools : queue'[q] = IF q = p THEN Append(queue[p], c) ELSE queue[q]
  BY <1>0, <1>1, <1>2, AppendFacts
<1>7. routed' \in [Tunnels -> Routings] /\ routed'[t] = <<>>
      /\ \A u \in Tunnels \ {t} : bridge'[u] = bridge[u] /\ routed'[u] = routed[u]
  BY <1>0, <1>1 DEF Routings
<1>8. Shape'
  <2>1. /\ tun' \in [Tunnels -> {"up", "undispatched", "down"}] /\ faults' \in Nat /\ faults' <= faults
        /\ ctl' \in Seq(Commands) /\ bridge' \in [Tunnels -> Seq(Channels)]
        /\ UNCHANGED <<visitorVars, gen, handle, active, stones>>
    BY <1>0, <1>1, Numbers DEF PairingTypeOK
  <2> QED
    BY <1>0, <1>5, <1>6, <1>7, <2>1, ShapeOfTunnels
<1>9. \A d \in Channels : Fades(ch[d], ch'[d]) /\ Holds(ch[d], ch'[d])
  <2>1. Fades(ch[c], k) /\ Holds(ch[c], k)
    BY <1>3, <1>4 DEF Fades, Keeps, Holds, OnTunnel
  <2>2. \A d \in Channels : Fades(ch[d], ch[d]) /\ Holds(ch[d], ch[d])
    BY DEF Fades, Keeps, Holds
  <2> QED
    BY ONLY <1>5, <2>1, <2>2
<1>10. Labels'
  <2>1. PairingTypeOK' /\ UNCHANGED <<groups, vis>>
    BY <1>1, <1>8 DEF Shape, visitorVars
  <2> QED
    BY <1>9, <2>1, LabelStep
<1>11. TunnelFits(t, bridge'[t], routed'[t], ch')
  <2>1. \A i \in 1..Len(bridge[t]) : bridge[t][i] \in Channels /\ bridge[t][i] # c
    BY <1>0, <1>1, <1>3 DEF TunnelFits, c
  <2>2. \A i \in 1..Len(bridge[t]) : OnTunnel(t, ch'[bridge[t][i]])
    BY <1>3, <1>5, <2>1 DEF TunnelFits
  <2> QED
    BY <1>1, <1>3, <1>7, <2>2 DEF TunnelFits
<1>12. OnTheTunnels'
  <2>1. \A d \in Channels : ch[d].server = "bridge" /\ ch[d].tun # t => Waits(ch[d], ch'[d])
    BY <1>3, <1>5 DEF OnTunnel, Waits
  <2> QED
    BY <1>0, <1>7, <1>11, <2>1, TunnelChanges
<1>13. \A q \in Pools : \A i \in 1..Len(queue[q]) :
         queue[q][i] \in Channels /\ queue[q][i] # c /\ ch'[queue[q][i]] = ch[queue[q][i]]
  <2>1. \A q \in Pools : \A i \in 1..Len(queue[q]) : queue[q][i] \in Channels
    BY <1>0
  <2>2. \A q \in Pools : \A i \in 1..Len(queue[q]) : queue[q][i] # c
    BY <1>0, <1>3 DEF Sites, InQueue, OnTunnel
  <2> QED
    BY <1>5, <2>1, <2>2
<1>14. /\ Len(Append(queue[p], c)) = Len(queue[p]) + 1 /\ Len(queue[p]) \in Nat
       /\ \A j \in 1..Len(queue[p]) : Append(queue[p], c)[j] = queue[p][j]
       /\ Append(queue[p], c)[Len(queue[p]) + 1] = c
  BY <1>0, <1>2, AppendFacts
<1> DEFINE Old(x, i) == i \in 1..Len(queue[x]) /\ queue'[x][i] = queue[x][i]
           Last(x, i) == x = p /\ i = Len(queue[p]) + 1 /\ queue'[x][i] = c
<1>15. ASSUME NEW q \in Pools, NEW i \in 1..Len(queue'[q]) PROVE Old(q, i) \/ Last(q, i)
  <2>1. CASE q # p
    BY <1>6, <2>1
  <2>2. CASE q = p
    <3> DEFINE a == Append(queue[p], c)
               n == Len(queue[p])
    <3>1. queue'[q] = a
      BY <1>6, <2>2
    <3>2. Len(a) = n + 1 /\ n \in Nat /\ (\A j \in 1..n : a[j] = queue[p][j]) /\ a[n + 1] = c
      BY <1>14
    <3>3. i \in 1..Len(a)
      BY <3>1
    <3> HIDE DEF a
    <3>4. i \in 1..n \/ i = n + 1
      <4> HIDE DEF n
      <4> QED
        BY ONLY <3>2, <3>3
    <3> QED
      BY <2>2, <3>1, <3>2, <3>4
  <2> QED
    BY <2>1, <2>2
<1>16. InQueue'
  <2> SUFFICES ASSUME NEW q \in Pools, NEW i \in 1..Len(queue'[q])
               PROVE  ch'[queue'[q][i]].server = "queue" /\ ch'[queue'[q][i]].svc = q[1]
    BY DEF InQueue
  <2>1. CASE Old(q, i)
    BY <1>0, <1>13, <2>1 DEF Sites, InQueue
  <2>2. CASE Last(q, i)
    BY <1>2, <1>3, <1>4, <1>5, <2>2
  <2> QED
    BY <1>15, <2>1, <2>2
<1>17. OneQueue'
  <2> SUFFICES ASSUME NEW q \in Pools, NEW r \in Pools, NEW i \in 1..Len(queue'[q]),
                      NEW j \in 1..Len(queue'[r]), queue'[q][i] = queue'[r][j]
               PROVE  q = r /\ i = j
    BY DEF OneQueue
  <2>1. (Old(q, i) \/ Last(q, i)) /\ (Old(r, j) \/ Last(r, j))
    BY <1>15
  <2>2. CASE Old(q, i) /\ Old(r, j)
    <3>1. i \in 1..Len(queue[q]) /\ j \in 1..Len(queue[r]) /\ queue[q][i] = queue[r][j] /\ OneQueue
      BY <1>0, <2>2 DEF Sites
    <3> QED
      BY ONLY <3>1, q \in Pools, r \in Pools DEF OneQueue
  <2>3. ~(Old(q, i) /\ Last(r, j)) /\ ~(Last(q, i) /\ Old(r, j))
    BY <1>13
  <2>4. CASE Last(q, i) /\ Last(r, j)
    BY <2>4
  <2> QED
    BY <2>1, <2>2, <2>3, <2>4
<1> QED
  BY <1>8, <1>10, <1>12, <1>16, <1>17 DEF PairingInv, Sites

(* The queue of a pool that has ended.                                     *)
LEMMA DropQueueKeeps == ASSUME PairingInv, NEW p \in Pools, DropQueue(p) PROVE PairingInv'
<1>0. /\ ctl \in Seq(Commands) /\ ch \in [Channels -> ChannelTypes]
      /\ bridge \in [Tunnels -> Seq(Channels)] /\ routed \in [Tunnels -> Routings]
      /\ queue \in [Pools -> Seq(Channels)] /\ Shape /\ Sites /\ Labels /\ PairingTypeOK
  BY QueueTypes
<1> DEFINE S == RangeOf(queue[p])
<1>1. /\ ch' = CloseServer(S, ch) /\ queue' = [queue EXCEPT ![p] = <<>>]
      /\ UNCHANGED <<visitorVars, gen, handle, active, ctl, tunnelVars, stones, faults>>
  BY DEF DropQueue
<1>2. \A c \in S : (\E i \in 1..Len(queue[p]) : queue[p][i] = c) /\ ch[c].server = "queue"
  BY <1>0, RangeFacts DEF Sites, InQueue
<1>3. \A i \in 1..Len(queue[p]) : queue[p][i] \in S
  BY <1>0, RangeFacts
<1> HIDE DEF S
<1>4. /\ ch' \in [Channels -> ChannelTypes]
      /\ \A c \in Channels : Fades(ch[c], ch'[c]) /\ (c \notin S => ch'[c] = ch[c])
  <2>1. ch' \in [Channels -> ChannelTypes]
    BY <1>0, <1>1, CloseServerFacts
  <2>2. ASSUME NEW c \in Channels
        PROVE  Fades(ch[c], ch'[c]) /\ (c \notin S => ch'[c] = ch[c])
    BY <1>0, <1>1, ServerDrops
  <2> QED
    BY <2>1, <2>2
<1>5. queue' \in [Pools -> Seq(Channels)] /\ queue'[p] = <<>>
      /\ \A q \in Pools : q # p => queue'[q] = queue[q]
  BY <1>0, <1>1
<1>6. Shape'
  <2>1. /\ tun' \in [Tunnels -> {"up", "undispatched", "down"}] /\ faults' \in Nat /\ faults' <= faults
        /\ ctl' \in Seq(Commands) /\ bridge' \in [Tunnels -> Seq(Channels)]
        /\ routed' \in [Tunnels -> Routings]
        /\ UNCHANGED <<visitorVars, gen, handle, active, stones>>
    BY <1>0, <1>1, Numbers DEF PairingTypeOK, tunnelVars
  <2> QED
    BY <1>0, <1>4, <1>5, <2>1, ShapeOfTunnels
<1>7. Labels'
  <2>1. PairingTypeOK' /\ UNCHANGED <<groups, vis>>
    BY <1>1, <1>6 DEF Shape, visitorVars
  <2>2. \A c \in Channels : Fades(ch[c], ch'[c]) /\ Holds(ch[c], ch'[c])
    BY <1>2, <1>4 DEF Holds
  <2> QED
    BY <2>1, <2>2, LabelStep
<1>8. OnTheTunnels'
  <2>1. ASSUME NEW t \in Tunnels PROVE TunnelFits(t, bridge'[t], routed'[t], ch')
    <3>1. \A c \in Channels : OnTunnel(t, ch[c]) => OnTunnel(t, ch'[c]) /\ ch'[c].svc = ch[c].svc
      BY <1>2, <1>4 DEF OnTunnel
    <3> QED
      BY <1>0, <1>1, <3>1, TunnelKept DEF tunnelVars
  <2> QED
    BY <2>1 DEF OnTheTunnels, TunnelFits, OnTunnel
<1>9. InQueue' /\ OneQueue'
  <2>1. \A q \in Pools : \A i \in 1..Len(queue[q]) :
          q # p => queue[q][i] \in Channels /\ queue[q][i] \notin S
    BY <1>0, <1>2 DEF Sites, OneQueue
  <2>2. ASSUME NEW q \in Pools, NEW i \in 1..Len(queue'[q])
        PROVE  q # p /\ queue'[q] = queue[q] /\ ch'[queue[q][i]] = ch[queue[q][i]]
    BY <1>4, <1>5, <2>1
  <2>3. InQueue'
    BY <1>0, <2>2 DEF Sites, InQueue
  <2>4. OneQueue'
    BY <1>0, <2>2 DEF Sites, OneQueue
  <2> QED
    BY <2>3, <2>4
<1> QED
  BY <1>6, <1>7, <1>8, <1>9 DEF PairingInv, Sites

-----------------------------------------------------------------------------
(* Reloads.                                                                *)
LEMMA BeginReloadKeeps == ASSUME PairingInv, NEW s \in Services, BeginReload(s) PROVE PairingInv'
<1>0. Shape /\ ch \in [Channels -> ChannelTypes]
  BY QueueTypes
<1>1. \A c \in Channels : ch'[c] = ch[c] \/ ch'[c] = [ch[c] EXCEPT !.old = TRUE]
  BY <1>0 DEF BeginReload
<1>2. \A c \in Channels : [ch[c] EXCEPT !.old = TRUE] \in ChannelTypes
  BY <1>0, FieldFacts
<1>3. ch' \in [Channels -> ChannelTypes]
  BY <1>0, <1>2 DEF BeginReload
<1>4. Shape'
  <2>0. /\ UNCHANGED <<groups, vis, lock, queue, gen, handle, ctl, tun, bridge, routed, stones>>
        /\ active' \subseteq active /\ faults' \in 0..MaxFaults
    BY <1>0, Numbers DEF BeginReload, visitorVars, serverVars, tunnelVars, Shape, PairingTypeOK
  <2>1. PairingTypeOK' /\ routed' \in [Tunnels -> Routings]
    BY <1>0, <1>3, <2>0 DEF Shape, PairingTypeOK, Pools
  <2>2. ASSUME NEW r \in Services
        PROVE  gen'[r] + (IF r \in active' THEN 0 ELSE 1) + faults' <= MaxFaults
    BY <1>0, Numbers DEF BeginReload, Shape, PairingTypeOK, serverVars
  <2> QED
    BY <2>1, <2>2 DEF Shape
<1>5. ASSUME NEW c \in Channels
      PROVE  /\ ch'[c].svc = ch[c].svc /\ ch'[c].tun = ch[c].tun /\ ch'[c].server = ch[c].server
             /\ ch'[c].client = ch[c].client /\ ch'[c].cmd = ch[c].cmd
  <2>1. ch[c] \in ChannelTypes /\ (ch'[c] = ch[c] \/ ch'[c] = [ch[c] EXCEPT !.old = TRUE])
    BY <1>0, <1>1
  <2> QED
    BY ONLY <2>1 DEF ChannelTypes
<1>6. \A c \in Channels : Gentle(ch[c], ch'[c])
  BY <1>5 DEF Gentle, Fades, Keeps, Holds, Waits
<1> QED
  BY <1>4, <1>6, GentleStep DEF BeginReload, visitorVars, serverVars, tunnelVars

LEMMA RestartKeeps == ASSUME PairingInv, NEW s \in Services, Restart(s) PROVE PairingInv'
<1>0. Shape /\ ch \in [Channels -> ChannelTypes]
  BY QueueTypes
<1>1. Shape'
  <2>1. ASSUME NEW r \in Services
        PROVE  gen'[r] + (IF r \in active' THEN 0 ELSE 1) + faults' <= MaxFaults
    BY <1>0, Numbers DEF Restart, StopPool, StartPool, Shape, PairingTypeOK
  <2>2. gen' \in [Services -> 0..MaxFaults]
    <3>1. gen \in [Services -> 0..MaxFaults] /\ faults \in Nat
      BY <1>0, Numbers DEF Shape, PairingTypeOK
    <3>2. CASE StopPool(s)
      BY <3>1, <3>2 DEF StopPool
    <3>3. CASE StartPool(s)
      <4>1. gen[s] + 1 + faults <= MaxFaults
        BY <1>0, <3>3 DEF StartPool, Shape
      <4>2. gen[s] + 1 \in 0..MaxFaults
        BY <3>1, <4>1, Numbers
      <4> QED
        BY <3>1, <3>3, <4>2 DEF StartPool
    <3> QED
      BY <3>2, <3>3 DEF Restart
  <2>3. PairingTypeOK' /\ routed' \in [Tunnels -> Routings]
    <3>1. /\ UNCHANGED <<groups, vis, lock, queue, ctl, ch, tun, bridge, routed, stones, faults>>
          /\ handle' \in {handle \ {s}, handle \cup {s}} /\ active' \in {active, active \cup {s}}
      BY DEF Restart, StopPool, StartPool, visitorVars, tunnelVars
    <3>2. handle' \subseteq Services /\ active' \subseteq Services
      BY <1>0, <3>1 DEF Shape, PairingTypeOK
    <3>3. PairingTypeOK'
      BY <1>0, <2>2, <3>1, <3>2 DEF Shape, PairingTypeOK
    <3> QED
      BY <1>0, <3>1, <3>3 DEF Shape
  <2> QED
    BY <2>1, <2>3 DEF Shape
<1>2. \A c \in Channels : Gentle(ch[c], ch'[c])
  BY DEF Restart, StopPool, StartPool, Gentle, Fades, Keeps, Holds, Waits
<1> QED
  BY <1>1, <1>2, GentleStep DEF Restart, StopPool, StartPool, visitorVars, tunnelVars

-----------------------------------------------------------------------------
(* The visitors.                                                           *)
LEMMA AwayFacts ==
  /\ Away \in VisitorTypes /\ Away.got = <<>> /\ Away.group = 0 /\ Away.pc = "away"
  BY Numbers DEF Away, VisitorTypes

LEMMA ShapeOfVisitors ==
  ASSUME Shape, vis' \in [Visitors -> VisitorTypes], lock' \in [Pools -> Visitors \cup {Nobody}],
         groups' \in Nat, ch' \in [Channels -> ChannelTypes], ctl' \in Seq(Commands),
         queue' \in [Pools -> Seq(Channels)],
         UNCHANGED <<gen, handle, active, tunnelVars, stones, faults>>
  PROVE  Shape'
  BY DEF Shape, PairingTypeOK, tunnelVars, VisitorTypes, Routings, Pools

LEMMA PoolIsPool ==
  ASSUME PairingInv, NEW v \in Visitors
  PROVE  PoolOf(v) \in Pools /\ PoolOf(v)[1] = Of[v] /\ lock \in [Pools -> Visitors \cup {Nobody}]
<1>1. vis[v].gen \in 0..MaxFaults /\ Of[v] \in Services /\ lock \in [Pools -> Visitors \cup {Nobody}]
  BY Numbers, QueueTypes, VisitorFacts DEF PairingTypeOK
<1> QED
  BY <1>1 DEF PoolOf, Pools

LEMMA UnlockType ==
  ASSUME PairingInv, NEW v \in Visitors
  PROVE  Unlock(v) \in [Pools -> Visitors \cup {Nobody}]
  BY PoolIsPool DEF Unlock

(* A visitor moves, and no channel is labelled.                            *)
SameHand(r, q) == r.pc # "gone" /\ q.group = r.group /\ q.got = r.got /\ CountIn(q) = CountIn(r)

LEMMA VisitorMoves ==
  ASSUME PairingInv, PairingTypeOK', NEW v \in Visitors, NEW r \in VisitorTypes,
         vis' = [vis EXCEPT ![v] = r], Moves(vis[v], r, groups), OwnerFits(r),
         groups' >= groups, Owning(r) /\ ~Owning(vis[v]) => r.group = groups' /\ groups' > groups,
         Owning(r) /\ Owning(vis[v]) => r.group = vis[v].group,
         \A c \in Channels : Fades(ch[c], ch'[c]),
         \A w \in Visitors \ {v} : vis[w].pc # "gone" =>
           \A i \in 1..Len(vis[w].got) : Holds(ch[vis[w].got[i]], ch'[vis[w].got[i]]),
         r.pc = "gone" \/ r.got = <<>> \/ (SameHand(vis[v], r) /\ ch' = ch)
  PROVE  Labels'
<1>0. /\ Labels /\ PairingTypeOK /\ vis \in [Visitors -> VisitorTypes] /\ groups \in Nat
      /\ groups' \in Nat
  BY QueueTypes DEF PairingTypeOK
<1>1. \A w \in Visitors : vis'[w] = IF w = v THEN r ELSE vis[w]
  BY <1>0
<1>2. \A w \in Visitors : Moves(vis[w], vis'[w], groups)
  <2>1. \A w \in Visitors : Moves(vis[w], vis[w], groups)
    BY DEF Moves, Stays, GivesUp, Owning
  <2> QED
    BY <1>1, <2>1
<1>3. LabelsFit' /\ Claims' /\ Distinct'
  BY <1>0, <1>2, LabelsKept DEF Fades
<1>4. GroupsAgree'
  BY <1>0, <1>2, AgreementKept DEF Labels
<1>5. Owners'
  <2>1. \A w \in Visitors : OwnerFits(vis'[w])
    BY <1>0, <1>1 DEF Labels, Owners
  <2>2. \A w \in Visitors : Owning(vis'[w]) => vis'[w].group \in 1..groups'
    <3>1. \A w \in Visitors : Owning(vis[w]) => vis[w].group \in 1..groups
      BY <1>0 DEF Labels, Owners
    <3> QED
      BY <1>0, <1>1, <3>1
  <2>3. ASSUME NEW u \in Visitors, NEW w \in Visitors, Owning(vis'[u]), Owning(vis'[w]),
               vis'[u].group = vis'[w].group
        PROVE  u = w
    <3>1. \A x, y \in Visitors : Owning(vis[x]) /\ Owning(vis[y]) /\ vis[x].group = vis[y].group => x = y
      BY <1>0 DEF Labels, Owners
    <3>2. \A x \in Visitors : Owning(vis[x]) => vis[x].group <= groups
      BY <1>0 DEF Labels, Owners
    <3> QED
      BY <1>0, <1>1, <2>3, <3>1, <3>2
  <2> QED
    BY <2>1, <2>2, <2>3 DEF Owners, OwnerFits, Owning
<1>6. Holdings'
  <2>1. ASSUME NEW w \in Visitors, vis'[w].pc # "gone"
        PROVE  \/ vis'[w].got = <<>>
               \/ /\ vis[w].pc # "gone" /\ vis'[w].group = vis[w].group /\ vis'[w].got = vis[w].got
                  /\ CountIn(vis'[w]) = CountIn(vis[w])
                  /\ \A i \in 1..Len(vis[w].got) : Holds(ch[vis[w].got[i]], ch'[vis[w].got[i]])
    <3>1. CASE w # v
      BY <1>1, <2>1, <3>1
    <3>2. CASE w = v
      BY <1>1, <2>1, <3>2 DEF SameHand, Holds
    <3> QED
      BY <3>1, <3>2
  <2> QED
    BY <1>0, <2>1, HoldingsKept DEF Labels
<1> QED
  BY <1>3, <1>4, <1>5, <1>6 DEF Labels

(* Moves of a visitor that leave the channels alone.                       *)
LEMMA QuietVisitor ==
  ASSUME PairingInv, NEW v \in Visitors, NEW r \in VisitorTypes,
         vis' = [vis EXCEPT ![v] = r], Moves(vis[v], r, groups), OwnerFits(r),
         groups' \in Nat, groups' >= groups, lock' \in [Pools -> Visitors \cup {Nobody}],
         ctl' \in Seq(Commands),
         Owning(r) /\ ~Owning(vis[v]) => r.group = groups' /\ groups' > groups,
         Owning(r) /\ Owning(vis[v]) => r.group = vis[v].group,
         r.got = <<>> \/ SameHand(vis[v], r),
         UNCHANGED <<queue, gen, handle, active, ch, tunnelVars, stones, faults>>
  PROVE  PairingInv'
<1>0. /\ ch \in [Channels -> ChannelTypes] /\ vis \in [Visitors -> VisitorTypes]
      /\ queue \in [Pools -> Seq(Channels)] /\ Shape /\ Sites
  BY QueueTypes
<1>1. vis' \in [Visitors -> VisitorTypes]
  BY <1>0
<1>2. Shape'
  BY <1>0, <1>1, ShapeOfVisitors
<1>3. \A c \in Channels : Fades(ch[c], ch'[c]) /\ Holds(ch[c], ch'[c]) /\ Waits(ch[c], ch'[c])
  BY DEF Fades, Keeps, Holds, Waits
<1>4. Labels'
  <2>1. \A w \in Visitors \ {v} : vis[w].pc # "gone" =>
          \A i \in 1..Len(vis[w].got) : Holds(ch[vis[w].got[i]], ch'[vis[w].got[i]])
    BY DEF Holds
  <2>2. PairingTypeOK'
    BY <1>2 DEF Shape
  <2> QED
    BY <1>3, <2>1, <2>2, VisitorMoves
<1>5. Sites'
  BY <1>0, <1>3, SitesKept DEF tunnelVars
<1> QED
  BY <1>2, <1>4, <1>5 DEF PairingInv

LEMMA VisitorArrivesKeeps == ASSUME PairingInv, NEW v \in Visitors, VisitorArrives(v) PROVE PairingInv'
<1>0. /\ vis[v] \in VisitorTypes /\ ctl \in Seq(Commands) /\ groups \in Nat /\ PairingTypeOK
      /\ lock \in [Pools -> Visitors \cup {Nobody}] /\ gen[Of[v]] \in 0..MaxFaults
  BY Numbers, QueueTypes, PoolIsPool DEF PairingTypeOK
<1>1. PICK w \in 1..MaxWidth :
        vis' = [vis EXCEPT ![v] = [Away EXCEPT !.pc = IF w > 1 THEN "lock" ELSE "ask",
                                               !.width = w, !.gen = gen[Of[v]]]]
  BY DEF VisitorArrives
<1> DEFINE r == [Away EXCEPT !.pc = IF w > 1 THEN "lock" ELSE "ask", !.width = w, !.gen = gen[Of[v]]]
<1>2. r \in VisitorTypes /\ r.pc \in {"lock", "ask"} /\ r.width = w /\ r.got = <<>>
  <2> DEFINE x == IF w > 1 THEN "lock" ELSE "ask"
             g == gen[Of[v]]
  <2>1. x \in {"lock", "ask"} /\ w \in 0..MaxWidth /\ g \in 0..MaxFaults
    BY <1>0, Numbers
  <2>2. r = [Away EXCEPT !.pc = x, !.width = w, !.gen = g]
    OBVIOUS
  <2> HIDE DEF x, g, r
  <2> QED
    BY <2>1, <2>2, AwayFacts DEF VisitorTypes
<1> HIDE DEF r
<1>3. vis[v].pc = "away" /\ vis' = [vis EXCEPT ![v] = r]
      /\ UNCHANGED <<groups, lock, queue, gen, handle, active, ctl, ch, tunnelVars, stones, faults>>
  BY <1>1 DEF VisitorArrives, At, serverVars, r
<1>4. Moves(vis[v], r, groups) /\ OwnerFits(r) /\ ~Owning(r)
  BY <1>2, <1>3 DEF Moves, GivesUp, Owning, OwnerFits
<1>5. /\ groups' \in Nat /\ groups' >= groups /\ ctl' \in Seq(Commands)
      /\ lock' \in [Pools -> Visitors \cup {Nobody}]
  BY <1>0, <1>3
<1> QED
  BY <1>2, <1>3, <1>4, <1>5, QuietVisitor

LEMMA TakeLockKeeps == ASSUME PairingInv, NEW v \in Visitors, TakeLock(v) PROVE PairingInv'
<1>0. /\ vis[v] \in VisitorTypes /\ ctl \in Seq(Commands) /\ groups \in Nat /\ Labels
      /\ lock \in [Pools -> Visitors \cup {Nobody}] /\ PoolOf(v) \in Pools
  BY QueueTypes, PoolIsPool
<1> DEFINE r == [vis[v] EXCEPT !.pc = "ask"]
<1>1. r \in VisitorTypes /\ r.pc = "ask" /\ r.width = vis[v].width /\ r.got = vis[v].got
  BY <1>0 DEF VisitorTypes
<1>2. vis' = [vis EXCEPT ![v] = r] /\ vis[v].pc = "lock"
      /\ lock' \in [Pools -> Visitors \cup {Nobody}]
      /\ UNCHANGED <<groups, queue, gen, handle, active, ctl, ch, tunnelVars, stones, faults>>
  BY <1>0 DEF TakeLock, At, serverVars
<1>3. OwnerFits(vis[v])
  BY <1>0 DEF Labels, Owners
<1> HIDE DEF r
<1>4. Moves(vis[v], r, groups) /\ OwnerFits(r) /\ ~Owning(r) /\ r.got = <<>>
  BY <1>1, <1>2, <1>3 DEF Moves, GivesUp, Owning, OwnerFits
<1>5. groups' \in Nat /\ groups' >= groups /\ ctl' \in Seq(Commands)
  BY <1>0, <1>2
<1> QED
  BY <1>1, <1>2, <1>4, <1>5, QuietVisitor

(* What a visitor gathered it holds.                                       *)
LEMMA HeldHere ==
  ASSUME PairingInv, NEW v \in Visitors, vis[v].pc # "gone", NEW i \in 1..Len(vis[v].got)
  PROVE  vis[v].got[i] \in Channels /\ ch[vis[v].got[i]].server = "held"
<1>1. vis[v].got \in Seq(Channels) /\ Holdings
  BY QueueTypes, VisitorFacts DEF Labels
<1>2. HeldBy(ch[vis[v].got[i]], vis[v], i)
  BY <1>1 DEF Holdings
<1> QED
  BY <1>1, <1>2 DEF HeldBy

(* A visitor gives its attempt up and drops what it gathered, and with it  *)
(* a channel it had just taken from the queue.                             *)
LEMMA GiveUp ==
  ASSUME PairingInv, NEW v \in Visitors, vis[v].pc \in {"ask", "gather"},
         NEW r \in VisitorTypes, ~Owning(r), OwnerFits(r), vis' = [vis EXCEPT ![v] = r],
         NEW E, \A c \in Channels : c \in E => ch[c].server = "queue",
         ch' = CloseServer(E \cup RangeOf(vis[v].got), ch),
         lock' \in [Pools -> Visitors \cup {Nobody}], ctl' \in Seq(Commands),
         queue' \in [Pools -> Seq(Channels)],
         UNCHANGED <<groups, gen, handle, active, tunnelVars, stones, faults>>
  PROVE  /\ Shape' /\ Labels' /\ OnTheTunnels'
         /\ \A c \in Channels : c \notin E /\ ch[c].server = "queue" => ch'[c] = ch[c]
<1>0. /\ ch \in [Channels -> ChannelTypes] /\ vis \in [Visitors -> VisitorTypes]
      /\ Shape /\ Sites /\ Labels /\ groups \in Nat /\ PairingTypeOK
  BY QueueTypes
<1> DEFINE S == E \cup RangeOf(vis[v].got)
<1>1. \A c \in RangeOf(vis[v].got) : ch[c].server = "held" /\ \E i \in 1..Len(vis[v].got) : vis[v].got[i] = c
  <2>1. vis[v].got \in Seq(Channels)
    BY <1>0, VisitorFacts
  <2> QED
    BY <2>1, RangeFacts, HeldHere
<1>2. \A c \in Channels : c \in S => ch[c].server \in {"queue", "held"}
  BY <1>1
<1>3. \A w \in Visitors \ {v} : vis[w].pc # "gone" =>
        \A i \in 1..Len(vis[w].got) : vis[w].got[i] \in Channels /\ vis[w].got[i] \notin S
  <2> SUFFICES ASSUME NEW w \in Visitors \ {v}, vis[w].pc # "gone", NEW i \in 1..Len(vis[w].got)
               PROVE  vis[w].got[i] \in Channels /\ vis[w].got[i] \notin S
    OBVIOUS
  <2>1. vis[w].got[i] \in Channels /\ ch[vis[w].got[i]].server = "held"
    BY HeldHere
  <2>2. \A j \in 1..Len(vis[v].got) : vis[v].got[j] # vis[w].got[i]
    BY <1>0, NotShared
  <2> QED
    BY <1>1, <2>1, <2>2
<1> HIDE DEF S
<1>4. ch' \in [Channels -> ChannelTypes]
  BY <1>0, CloseServerFacts DEF S
<1>5. ASSUME NEW c \in Channels PROVE Fades(ch[c], ch'[c]) /\ (c \notin S => ch'[c] = ch[c])
  BY <1>0, ServerDrops DEF S
<1>6. Shape'
  <2>1. vis' \in [Visitors -> VisitorTypes] /\ groups' \in Nat
    BY <1>0
  <2> QED
    BY <1>0, <1>4, <2>1, ShapeOfVisitors
<1>7. Labels'
  <2>1. PairingTypeOK'
    BY <1>6 DEF Shape
  <2>2. \A w \in Visitors \ {v} : vis[w].pc # "gone" =>
          \A i \in 1..Len(vis[w].got) : Holds(ch[vis[w].got[i]], ch'[vis[w].got[i]])
    BY <1>3, <1>5 DEF Holds
  <2>3. Moves(vis[v], r, groups) /\ r.got = <<>> /\ groups' >= groups
    BY <1>0 DEF Moves, GivesUp, OwnerFits
  <2> QED
    BY <1>5, <2>1, <2>2, <2>3, VisitorMoves
<1>8. OnTheTunnels'
  <2>1. ASSUME NEW t \in Tunnels PROVE TunnelFits(t, bridge'[t], routed'[t], ch')
    <3>1. \A c \in Channels : OnTunnel(t, ch[c]) => OnTunnel(t, ch'[c]) /\ ch'[c].svc = ch[c].svc
      BY <1>2, <1>5 DEF OnTunnel
    <3> QED
      BY <1>0, <3>1, TunnelKept DEF tunnelVars
  <2> QED
    BY <2>1 DEF OnTheTunnels, TunnelFits, OnTunnel
<1>9. \A c \in Channels : c \notin E /\ ch[c].server = "queue" => ch'[c] = ch[c]
  BY <1>1, <1>5 DEF S
<1> QED
  BY <1>6, <1>7, <1>8, <1>9

LEMMA ShedKeeps ==
  ASSUME PairingInv, NEW v \in Visitors, vis[v].pc \in {"ask", "gather"}, Shed(v),
         ctl' \in Seq(Commands),
         UNCHANGED <<groups, serverVars, active, tunnelVars, stones, faults>>
  PROVE  PairingInv'
<1> DEFINE r == [Away EXCEPT !.pc = "shed"]
<1>1. r \in VisitorTypes /\ r.pc = "shed" /\ r.got = <<>>
  BY AwayFacts DEF VisitorTypes
<1>2. vis' = [vis EXCEPT ![v] = r] /\ ch' = CloseServer({} \cup RangeOf(vis[v].got), ch)
  BY DEF Shed
<1>3. ~Owning(r) /\ OwnerFits(r)
  BY <1>1 DEF Owning, OwnerFits
<1>4. /\ lock' \in [Pools -> Visitors \cup {Nobody}] /\ queue' \in [Pools -> Seq(Channels)]
      /\ UNCHANGED <<groups, gen, handle, active, tunnelVars, stones, faults>>
  BY UnlockType, QueueTypes DEF Shed, serverVars
<1> HIDE DEF r
<1>5. /\ Shape' /\ Labels' /\ OnTheTunnels'
      /\ \A c \in Channels : c \notin {} /\ ch[c].server = "queue" => ch'[c] = ch[c]
  <2> DEFINE E == {}
  <2>1. \A c \in Channels : c \in E => ch[c].server = "queue"
    OBVIOUS
  <2>2. ch' = CloseServer(E \cup RangeOf(vis[v].got), ch)
    BY <1>2
  <2> HIDE DEF E
  <2>3. /\ Shape' /\ Labels' /\ OnTheTunnels'
        /\ \A c \in Channels : c \notin E /\ ch[c].server = "queue" => ch'[c] = ch[c]
    BY <1>1, <1>2, <1>3, <1>4, <2>1, <2>2, GiveUp
  <2> QED
    BY <2>3 DEF E
<1>6. InQueue' /\ OneQueue'
  BY <1>5, QueuesKept, QueueTypes DEF serverVars
<1> QED
  BY <1>5, <1>6 DEF PairingInv, Sites

(* The first channel of a queue is taken.                                  *)
LEMMA QueueTail ==
  ASSUME PairingInv, NEW p \in Pools, queue[p] # <<>>, queue' = [queue EXCEPT ![p] = Tail(queue[p])],
         \A d \in Channels : d # Head(queue[p]) /\ ch[d].server = "queue" =>
           ch'[d].server = "queue" /\ ch'[d].svc = ch[d].svc
  PROVE  /\ InQueue' /\ OneQueue' /\ queue' \in [Pools -> Seq(Channels)]
         /\ Head(queue[p]) \in Channels /\ ch[Head(queue[p])].server = "queue"
         /\ ch[Head(queue[p])].svc = p[1]
<1>0. queue \in [Pools -> Seq(Channels)] /\ InQueue /\ OneQueue
  BY QueueTypes DEF Sites
<1> DEFINE b == queue[p]
           h == Head(b)
<1>1. /\ h \in Channels /\ h = b[1] /\ 1 \in 1..Len(b) /\ Tail(b) \in Seq(Channels)
      /\ \A j \in 1..Len(Tail(b)) : Tail(b)[j] = b[j + 1] /\ j + 1 \in 1..Len(b)
  BY <1>0, TailFacts
<1>2. queue' \in [Pools -> Seq(Channels)]
      /\ \A q \in Pools : queue'[q] = IF q = p THEN Tail(b) ELSE queue[q]
  BY <1>0, <1>1
<1>3. ch[h].server = "queue" /\ ch[h].svc = p[1]
  BY <1>0, <1>1 DEF InQueue
<1> HIDE DEF b, h
<1> DEFINE At0(q, i) == IF q = p THEN i + 1 ELSE i
<1>4. ASSUME NEW q \in Pools, NEW i \in 1..Len(queue'[q])
      PROVE  /\ At0(q, i) \in 1..Len(queue[q]) /\ queue'[q][i] = queue[q][At0(q, i)]
             /\ queue'[q][i] \in Channels /\ queue'[q][i] # h /\ i \in Nat
  <2>1. At0(q, i) \in 1..Len(queue[q]) /\ queue'[q][i] = queue[q][At0(q, i)] /\ i \in Nat \ {0}
    <3>1. CASE q = p
      BY <1>1, <1>2, <3>1 DEF b
    <3>2. CASE q # p
      BY <1>2, <3>2
    <3> QED
      BY <3>1, <3>2
  <2>2. queue'[q][i] \in Channels
    BY <1>2
  <2>3. ~(q = p /\ At0(q, i) = 1)
    BY <2>1
  <2>4. queue[p][1] = h /\ 1 \in 1..Len(queue[p])
    BY <1>1 DEF b
  <2> DEFINE k == At0(q, i)
  <2>5. k \in 1..Len(queue[q]) /\ ~(q = p /\ k = 1)
    BY <2>1, <2>3
  <2> HIDE DEF k
  <2>6. queue[q][k] # h
    BY ONLY <1>0, <2>4, <2>5, q \in Pools, p \in Pools DEF OneQueue
  <2> QED
    BY <2>1, <2>2, <2>6 DEF k
<1>5. InQueue'
  <2> SUFFICES ASSUME NEW q \in Pools, NEW i \in 1..Len(queue'[q])
               PROVE  ch'[queue'[q][i]].server = "queue" /\ ch'[queue'[q][i]].svc = q[1]
    BY DEF InQueue
  <2> DEFINE k == At0(q, i)
             d == queue'[q][i]
  <2>1. k \in 1..Len(queue[q]) /\ d = queue[q][k] /\ d \in Channels /\ d # h
    BY <1>4
  <2> HIDE DEF k
  <2>2. ch[d].server = "queue" /\ ch[d].svc = q[1]
    BY <1>0, <2>1 DEF InQueue
  <2> QED
    BY <2>1, <2>2 DEF h, b
<1>6. OneQueue'
  <2> SUFFICES ASSUME NEW q \in Pools, NEW r \in Pools, NEW i \in 1..Len(queue'[q]),
                      NEW j \in 1..Len(queue'[r]), queue'[q][i] = queue'[r][j]
               PROVE  q = r /\ i = j
    BY DEF OneQueue
  <2> DEFINE k == At0(q, i)
             l == At0(r, j)
  <2>1. k \in 1..Len(queue[q]) /\ l \in 1..Len(queue[r]) /\ queue[q][k] = queue[r][l]
        /\ i \in Nat /\ j \in Nat
    BY <1>4
  <2>2. q = r /\ k = l
    <3> HIDE DEF k, l
    <3> QED
      BY ONLY <1>0, <2>1, q \in Pools, r \in Pools DEF OneQueue
  <2> QED
    BY <2>1, <2>2
<1> QED
  BY <1>1, <1>2, <1>3, <1>5, <1>6 DEF b, h

LEMMA AskKeeps == ASSUME PairingInv, NEW v \in Visitors, Ask(v) PROVE PairingInv'
<1>0. /\ vis[v] \in VisitorTypes /\ ctl \in Seq(Commands) /\ groups \in Nat /\ Labels
      /\ lock \in [Pools -> Visitors \cup {Nobody}] /\ OwnerFits(vis[v]) /\ vis[v].pc = "ask"
  BY QueueTypes, PoolIsPool DEF Labels, Owners, Ask, At
<1>1. CASE Shed(v) /\ UNCHANGED <<groups, ctl>>
  <2>1. ctl' \in Seq(Commands) /\ UNCHANGED <<groups, serverVars, active, tunnelVars, stones, faults>>
    BY <1>0, <1>1 DEF Ask
  <2> QED
    BY <1>0, <1>1, <2>1, ShedKeeps
<1>2. CASE /\ groups' = groups + 1 /\ ctl' = ctl \o Requests(v, vis[v].width)
           /\ vis' = [vis EXCEPT ![v].pc = "gather", ![v].group = NextGroup(v),
                                 ![v].got = <<>>, ![v].tries = 0]
           /\ UNCHANGED <<lock, ch>>
  <2> DEFINE r == [vis[v] EXCEPT !.pc = "gather", !.group = groups + 1, !.got = <<>>, !.tries = 0]
  <2>1. /\ r \in VisitorTypes /\ r.pc = "gather" /\ r.group = groups + 1 /\ r.got = <<>>
        /\ r.width = vis[v].width
    <3> DEFINE g == groups + 1
               e == <<>>
    <3>1. g \in Nat /\ 0 \in 0..(Attempts - 1) /\ e \in Seq(Channels)
      BY <1>0, Numbers
    <3>2. r = [vis[v] EXCEPT !.pc = "gather", !.group = g, !.got = e, !.tries = 0]
      OBVIOUS
    <3> HIDE DEF g, e, r
    <3>3. /\ r \in VisitorTypes /\ r.pc = "gather" /\ r.group = g /\ r.got = e
          /\ r.width = vis[v].width
      BY ONLY <1>0, <3>1, <3>2 DEF VisitorTypes
    <3> QED
      BY <3>3 DEF g, e
  <2>2. vis' = [vis EXCEPT ![v] = r]
    BY <1>2, QueueTypes DEF NextGroup
  <2>3. ctl' \in Seq(Commands)
    <3>1. Requests(v, vis[v].width) \in Seq(Commands)
      BY <1>0, RequestFacts, VisitorFacts
    <3> QED
      BY <1>0, <1>2, <3>1, ConcatFacts
  <2> HIDE DEF r
  <2>4. Moves(vis[v], r, groups) /\ OwnerFits(r) /\ ~Owning(vis[v])
    <3>1. vis[v].width > 0
      BY <1>0 DEF OwnerFits
    <3> QED
      BY <1>0, <2>1, <3>1 DEF Moves, Starts, Owning, OwnerFits
  <2>5. groups' \in Nat /\ groups' >= groups /\ r.group = groups' /\ groups' > groups
    BY <1>0, <1>2, <2>1
  <2>6. /\ lock' \in [Pools -> Visitors \cup {Nobody}]
        /\ UNCHANGED <<queue, gen, handle, active, ch, tunnelVars, stones, faults>>
    BY <1>0, <1>2 DEF Ask, serverVars
  <2> QED
    BY <2>1, <2>2, <2>3, <2>4, <2>5, <2>6, QuietVisitor
<1> QED
  BY <1>1, <1>2 DEF Ask

LEMMA ReleaseType ==
  ASSUME PairingInv, NEW v \in Visitors
  PROVE  ReleaseOf(v) \in Commands /\ Append(ctl, ReleaseOf(v)) \in Seq(Commands)
<1>1. vis[v].group \in Nat /\ ctl \in Seq(Commands)
  BY QueueTypes, VisitorFacts
<1>2. ReleaseOf(v) \in Commands
  BY <1>1, Numbers DEF ReleaseOf, Commands
<1> QED
  BY <1>1, <1>2, AppendFacts

LEMMA TimeoutKeeps == ASSUME PairingInv, NEW v \in Visitors, Timeout(v) PROVE PairingInv'
<1>0. /\ vis[v] \in VisitorTypes /\ ctl \in Seq(Commands) /\ groups \in Nat /\ Labels
      /\ lock \in [Pools -> Visitors \cup {Nobody}] /\ OwnerFits(vis[v]) /\ vis[v].pc = "gather"
      /\ UNCHANGED <<groups, serverVars, active, tunnelVars, stones, faults>>
  BY QueueTypes, PoolIsPool DEF Labels, Owners, Timeout, At
<1>1. CASE /\ Shed(v)
           /\ ctl' = IF Stopped(PoolOf(v)) THEN ctl ELSE Append(ctl, ReleaseOf(v))
  <2>1. ctl' \in Seq(Commands)
    BY <1>0, <1>1, ReleaseType
  <2> QED
    BY <1>0, <1>1, <2>1, ShedKeeps
<1>2. CASE /\ ~LastTry(v)
           /\ ctl' = ctl \o Requests(v, vis[v].width - Len(vis[v].got))
           /\ vis' = [vis EXCEPT ![v].tries = @ + 1] /\ UNCHANGED <<lock, ch>>
  <2> DEFINE r == [vis[v] EXCEPT !.tries = vis[v].tries + 1]
  <2>1. /\ r \in VisitorTypes /\ r.pc = vis[v].pc /\ r.group = vis[v].group /\ r.got = vis[v].got
        /\ r.width = vis[v].width
    <3>1. vis[v].tries + 1 \in 0..(Attempts - 1)
      <4> DEFINE x == vis[v].tries
      <4>1. x \in 0..(Attempts - 1) /\ ~(x + 1 >= Attempts) /\ Attempts \in Nat \ {0}
        BY <1>0, <1>2, Numbers, VisitorFacts DEF LastTry
      <4> HIDE DEF x
      <4>2. x + 1 \in 0..(Attempts - 1)
        BY ONLY <4>1
      <4> QED
        BY <4>2 DEF x
    <3> QED
      BY <1>0, <3>1 DEF VisitorTypes
  <2>2. vis' = [vis EXCEPT ![v] = r]
    BY <1>2
  <2>3. ctl' \in Seq(Commands)
    <3>1. vis[v].width - Len(vis[v].got) \in Nat
      BY <1>0, VisitorFacts DEF OwnerFits
    <3>2. Requests(v, vis[v].width - Len(vis[v].got)) \in Seq(Commands)
      BY <3>1, RequestFacts
    <3> QED
      BY <1>0, <1>2, <3>2, ConcatFacts
  <2> HIDE DEF r
  <2>4. Moves(vis[v], r, groups) /\ OwnerFits(r) /\ Owning(vis[v]) /\ Owning(r) /\ SameHand(vis[v], r)
    BY <1>0, <2>1 DEF Moves, Stays, Owning, OwnerFits, CountIn, SameHand
  <2>5. groups' \in Nat /\ groups' >= groups
    BY <1>0
  <2>6. /\ lock' \in [Pools -> Visitors \cup {Nobody}]
        /\ UNCHANGED <<queue, gen, handle, active, ch, tunnelVars, stones, faults>>
    BY <1>0, <1>2 DEF serverVars
  <2> QED
    BY <2>1, <2>2, <2>3, <2>4, <2>5, <2>6, QuietVisitor
<1> QED
  BY <1>1, <1>2 DEF Timeout

LEMMA PoolGoneKeeps == ASSUME PairingInv, NEW v \in Visitors, PoolGone(v) PROVE PairingInv'
<1>1. /\ vis[v].pc \in {"ask", "gather"} /\ ctl' \in Seq(Commands) /\ Shed(v)
      /\ UNCHANGED <<groups, serverVars, active, tunnelVars, stones, faults>>
  BY QueueTypes DEF PoolGone, At
<1> QED
  BY <1>1, ShedKeeps

LEMMA LeaveKeeps == ASSUME PairingInv, NEW v \in Visitors, Leave(v) PROVE PairingInv'
<1>0. /\ ch \in [Channels -> ChannelTypes] /\ vis \in [Visitors -> VisitorTypes]
      /\ queue \in [Pools -> Seq(Channels)] /\ ctl \in Seq(Commands) /\ OwnerFits(vis[v])
      /\ Shape /\ Sites /\ Labels /\ groups \in Nat /\ PairingTypeOK
      /\ lock \in [Pools -> Visitors \cup {Nobody}]
  BY QueueTypes, PoolIsPool DEF Labels, Owners
<1> DEFINE S == RangeOf(vis[v].got)
           r == [vis[v] EXCEPT !.pc = "gone"]
<1>1. /\ vis[v].pc = "forward" /\ vis' = [vis EXCEPT ![v] = r] /\ ch' = CloseServer(S, ch)
      /\ UNCHANGED <<groups, lock, serverVars, active, ctl, tunnelVars, stones, faults>>
  BY DEF Leave, At
<1>2. /\ r \in VisitorTypes /\ r.pc = "gone" /\ r.got = vis[v].got /\ r.group = vis[v].group
  BY <1>0 DEF VisitorTypes
<1>3. \A c \in S : ch[c].server = "held" /\ \E i \in 1..Len(vis[v].got) : vis[v].got[i] = c
  <2>1. vis[v].got \in Seq(Channels)
    BY <1>0, VisitorFacts
  <2> QED
    BY <1>1, <2>1, RangeFacts, HeldHere
<1>4. \A w \in Visitors \ {v} : vis[w].pc # "gone" =>
        \A i \in 1..Len(vis[w].got) : vis[w].got[i] \in Channels /\ vis[w].got[i] \notin S
  <2> SUFFICES ASSUME NEW w \in Visitors \ {v}, vis[w].pc # "gone", NEW i \in 1..Len(vis[w].got)
               PROVE  vis[w].got[i] \in Channels /\ vis[w].got[i] \notin S
    OBVIOUS
  <2>1. vis[w].got[i] \in Channels
    BY HeldHere
  <2>2. \A j \in 1..Len(vis[v].got) : vis[v].got[j] # vis[w].got[i]
    BY <1>0, <1>1, NotShared
  <2> QED
    BY <1>3, <2>1, <2>2
<1> HIDE DEF S, r
<1>5. ch' \in [Channels -> ChannelTypes]
  BY <1>0, <1>1, CloseServerFacts
<1>6. ASSUME NEW c \in Channels PROVE Fades(ch[c], ch'[c]) /\ (c \notin S => ch'[c] = ch[c])
  BY <1>0, <1>1, ServerDrops
<1>7. Shape'
  <2>1. vis' \in [Visitors -> VisitorTypes] /\ groups' \in Nat /\ ctl' \in Seq(Commands)
        /\ queue' \in [Pools -> Seq(Channels)] /\ lock' \in [Pools -> Visitors \cup {Nobody}]
        /\ UNCHANGED <<gen, handle, active, tunnelVars, stones, faults>>
    BY <1>0, <1>1, <1>2 DEF serverVars
  <2> QED
    BY <1>0, <1>5, <2>1, ShapeOfVisitors
<1>8. Labels'
  <2>1. PairingTypeOK' /\ groups' >= groups
    BY <1>0, <1>1, <1>7 DEF Shape
  <2>2. \A w \in Visitors \ {v} : vis[w].pc # "gone" =>
          \A i \in 1..Len(vis[w].got) : Holds(ch[vis[w].got[i]], ch'[vis[w].got[i]])
    BY <1>4, <1>6 DEF Holds
  <2>3. Owning(vis[v]) /\ Owning(r) /\ OwnerFits(r) /\ Moves(vis[v], r, groups)
    BY <1>1, <1>2 DEF Moves, Stays, Owning, OwnerFits, CountIn
  <2> QED
    BY <1>1, <1>2, <1>6, <2>1, <2>2, <2>3, VisitorMoves
<1>9. Sites'
  <2>1. \A c \in Channels : Waits(ch[c], ch'[c])
    BY <1>3, <1>6 DEF Waits
  <2> QED
    BY <1>0, <1>1, <2>1, SitesKept DEF serverVars, tunnelVars
<1> QED
  BY <1>7, <1>8, <1>9 DEF PairingInv

LEMMA QueueHead ==
  ASSUME PairingInv, NEW p \in Pools, queue[p] # <<>>
  PROVE  /\ Head(queue[p]) \in Channels /\ ch[Head(queue[p])].server = "queue"
         /\ ch[Head(queue[p])].svc = p[1] /\ [queue EXCEPT ![p] = Tail(queue[p])] \in [Pools -> Seq(Channels)]
<1>1. queue \in [Pools -> Seq(Channels)] /\ InQueue
  BY QueueTypes DEF Sites
<1>2. /\ Head(queue[p]) \in Channels /\ Head(queue[p]) = queue[p][1] /\ 1 \in 1..Len(queue[p])
      /\ Tail(queue[p]) \in Seq(Channels)
  BY <1>1, TailFacts
<1> QED
  BY <1>1, <1>2 DEF InQueue

(* A channel that broke ends the attempt.                                  *)
LEMMA RegatherKeeps ==
  ASSUME PairingInv, NEW v \in Visitors, vis[v].pc = "gather", queue[PoolOf(v)] # <<>>,
         queue' = [queue EXCEPT ![PoolOf(v)] = Tail(queue[PoolOf(v)])],
         Regather(v, Head(queue[PoolOf(v)])),
         UNCHANGED <<groups, gen, handle, active, tunnelVars, stones, faults>>
  PROVE  PairingInv'
<1> DEFINE p == PoolOf(v)
           c == Head(queue[p])
           r == [vis[v] EXCEPT !.got = <<>>, !.pc = "ask"]
<1>0. /\ vis[v] \in VisitorTypes /\ OwnerFits(vis[v]) /\ p \in Pools
      /\ lock \in [Pools -> Visitors \cup {Nobody}]
  BY QueueTypes, PoolIsPool DEF Labels, Owners
<1>1. /\ c \in Channels /\ ch[c].server = "queue" /\ queue' \in [Pools -> Seq(Channels)]
  BY <1>0, QueueHead
<1>2. r \in VisitorTypes /\ r.pc = "ask" /\ r.got = <<>> /\ r.width = vis[v].width
  <2> DEFINE e == <<>>
  <2>1. e \in Seq(Channels) /\ r = [vis[v] EXCEPT !.got = e, !.pc = "ask"]
    OBVIOUS
  <2> HIDE DEF e, r
  <2>2. r \in VisitorTypes /\ r.pc = "ask" /\ r.got = e /\ r.width = vis[v].width
    BY ONLY <1>0, <2>1 DEF VisitorTypes
  <2> QED
    BY <2>2 DEF e
<1>3. /\ vis' = [vis EXCEPT ![v] = r] /\ ch' = CloseServer({c} \cup RangeOf(vis[v].got), ch)
      /\ ctl' \in Seq(Commands) /\ lock' \in [Pools -> Visitors \cup {Nobody}]
  BY <1>0, ReleaseType DEF Regather
<1> HIDE DEF r
<1>4. ~Owning(r) /\ OwnerFits(r)
  BY <1>0, <1>2 DEF Owning, OwnerFits
<1> DEFINE E == {c}
<1>5. /\ \A d \in Channels : d \in E => ch[d].server = "queue"
      /\ ch' = CloseServer(E \cup RangeOf(vis[v].got), ch)
  BY <1>1, <1>3
<1> HIDE DEF E, c, p
<1>6. /\ Shape' /\ Labels' /\ OnTheTunnels'
      /\ \A d \in Channels : d \notin E /\ ch[d].server = "queue" => ch'[d] = ch[d]
  BY <1>1, <1>2, <1>3, <1>4, <1>5, GiveUp
<1>7. InQueue' /\ OneQueue'
  <2>1. \A d \in Channels : d # Head(queue[p]) /\ ch[d].server = "queue" =>
          ch'[d].server = "queue" /\ ch'[d].svc = ch[d].svc
    BY <1>6 DEF E, c
  <2>2. queue[p] # <<>> /\ queue' = [queue EXCEPT ![p] = Tail(queue[p])]
    BY DEF p
  <2> QED
    BY <1>0, <2>1, <2>2, QueueTail
<1> QED
  BY <1>6, <1>7 DEF PairingInv, Sites

(* The visitor that appends a channel to what it gathered.                 *)
LEMMA Gathers ==
  ASSUME NEW s \in VisitorTypes, s.pc = "gather", OwnerFits(s), NEW c \in Channels
  PROVE  LET n == Len(s.got)
             r == IF n + 1 = s.width
                  THEN [Away EXCEPT !.pc = "forward", !.group = s.group, !.got = Append(s.got, c)]
                  ELSE [s EXCEPT !.got = Append(s.got, c)]
         IN  /\ r \in VisitorTypes /\ r.pc \in {"gather", "forward"} /\ r.group = s.group
             /\ r.got = Append(s.got, c) /\ CountIn(r) = s.width /\ OwnerFits(r)
             /\ n \in Nat /\ n < s.width /\ s.width \in 0..MaxWidth
<1> DEFINE n == Len(s.got)
           a == Append(s.got, c)
           f == [Away EXCEPT !.pc = "forward", !.group = s.group, !.got = a]
           h == [s EXCEPT !.got = a]
<1>1. /\ n \in Nat /\ n < s.width /\ s.width \in 0..MaxWidth /\ s.group \in Nat
      /\ a \in Seq(Channels) /\ Len(a) = n + 1
  BY VisitorFacts, AppendFacts DEF OwnerFits
<1> HIDE DEF n, a
<1>2. f \in VisitorTypes /\ f.pc = "forward" /\ f.group = s.group /\ f.got = a
  BY <1>1, AwayFacts DEF VisitorTypes
<1>3. h \in VisitorTypes /\ h.pc = "gather" /\ h.group = s.group /\ h.got = a /\ h.width = s.width
  BY <1>1 DEF VisitorTypes
<1> HIDE DEF f, h
<1>4. CASE n + 1 = s.width
  <2>1. CountIn(f) = s.width /\ OwnerFits(f)
    BY <1>1, <1>2, <1>4 DEF CountIn, OwnerFits, Owning
  <2> QED
    BY <1>1, <1>2, <1>4, <2>1 DEF f, n, a
<1>5. CASE n + 1 # s.width
  <2>1. n + 1 < s.width
    <3>1. s.width \in Nat
      BY <1>1
    <3> QED
      BY <1>1, <1>5, <3>1
  <2>2. CountIn(h) = s.width /\ OwnerFits(h)
    BY <1>1, <1>3, <2>1 DEF CountIn, OwnerFits, Owning
  <2> QED
    BY <1>1, <1>3, <1>5, <2>2 DEF h, n, a
<1> QED
  BY <1>4, <1>5

(* A visitor labels the channel it took: nobody else holds it, and its     *)
(* index is one that no channel of the group has.                          *)
LEMMA LabelKeeps ==
  ASSUME PairingInv, NEW v \in Visitors, vis[v].pc = "gather", queue[PoolOf(v)] # <<>>,
         queue' = [queue EXCEPT ![PoolOf(v)] = Tail(queue[PoolOf(v)])],
         Label(v, Head(queue[PoolOf(v)])),
         UNCHANGED <<groups, gen, handle, active, tunnelVars, stones, faults>>
  PROVE  PairingInv'
<1> DEFINE p == PoolOf(v)
           c == Head(queue[p])
           s == vis[v]
           n == Len(s.got)
           m == [group |-> s.group, index |-> n, count |-> s.width]
           k == [ch[c] EXCEPT !.server = "held", !.cmd = m]
           a == Append(s.got, c)
           r == IF n + 1 = s.width
                THEN [Away EXCEPT !.pc = "forward", !.group = s.group, !.got = a]
                ELSE [s EXCEPT !.got = a]
<1>0. /\ s \in VisitorTypes /\ OwnerFits(s) /\ p \in Pools /\ p[1] = Of[v]
      /\ lock \in [Pools -> Visitors \cup {Nobody}] /\ ch \in [Channels -> ChannelTypes]
      /\ vis \in [Visitors -> VisitorTypes] /\ ctl \in Seq(Commands) /\ groups \in Nat
      /\ Shape /\ Sites /\ LabelsFit /\ Owners /\ Holdings /\ Claims /\ Distinct /\ GroupsAgree
  BY QueueTypes, PoolIsPool DEF Labels, Owners
<1>1. /\ c \in Channels /\ ch[c].server = "queue" /\ ch[c].svc = Of[v]
      /\ queue' \in [Pools -> Seq(Channels)]
  BY <1>0, QueueHead
<1>2. /\ r \in VisitorTypes /\ r.pc \in {"gather", "forward"} /\ r.group = s.group
      /\ r.got = a /\ CountIn(r) = s.width /\ OwnerFits(r)
      /\ n \in Nat /\ n < s.width /\ s.width \in 0..MaxWidth
  BY <1>0, <1>1, Gathers
<1>3. /\ ch' = [ch EXCEPT ![c] = k] /\ vis' = [vis EXCEPT ![v] = r] /\ ctl' = ctl
      /\ lock' \in [Pools -> Visitors \cup {Nobody}]
  BY <1>0, UnlockType DEF Label
<1>4. m \in CommandTypes /\ m.group = s.group /\ m.index = n /\ m.count = s.width
  <2>1. s.group \in Nat /\ n \in 0..(MaxWidth - 1)
    <3> DEFINE w == s.width
    <3>1. s.group \in Nat
      BY <1>0, VisitorFacts
    <3>2. n \in Nat /\ n < w /\ w \in 0..MaxWidth /\ MaxWidth \in Nat \ {0}
      BY <1>2, Numbers
    <3> HIDE DEF n, w
    <3>3. n \in 0..(MaxWidth - 1)
      BY ONLY <3>2
    <3> QED
      BY <3>1, <3>3
  <2> QED
    BY <1>2, <2>1 DEF CommandTypes
<1>5. /\ k \in ChannelTypes /\ k.server = "held" /\ k.svc = ch[c].svc /\ k.cmd = m
      /\ k.client = ch[c].client
  <2> DEFINE x == ch[c]
             y == m
  <2>1. x \in ChannelTypes /\ y \in CommandTypes /\ k = [x EXCEPT !.server = "held", !.cmd = y]
    BY <1>0, <1>1, <1>4
  <2> HIDE DEF x, y, k
  <2>2. k \in ChannelTypes /\ k.server = "held" /\ k.svc = x.svc /\ k.cmd = y /\ k.client = x.client
    BY ONLY <2>1 DEF ChannelTypes, CommandTypes
  <2> QED
    BY <2>2 DEF x, y
<1>6. /\ Len(a) = n + 1 /\ (\A j \in 1..n : a[j] = s.got[j]) /\ a[n + 1] = c
      /\ s.got \in Seq(Channels)
  BY <1>0, <1>1, VisitorFacts, AppendFacts
<1>7. /\ Owning(s) /\ Owning(r) /\ s.group \in 1..groups /\ CountIn(s) = s.width
      /\ s.pc = "gather"
  BY <1>0, <1>2 DEF Owners, Owning, CountIn
<1>8. ~Labelled(ch[c]) /\ ch[c].client \notin {"parked", "forward"}
  BY <1>0, <1>1 DEF LabelsFit, LabelFits
<1>9. Labelled(k)
  <2>1. m.group # NoCmd.group
    BY <1>4, <1>7, BlankFacts
  <2> QED
    BY <1>5, <2>1 DEF Labelled
<1>10. m = [group |-> s.group, index |-> n, count |-> s.width]
  OBVIOUS
<1> HIDE DEF p, c, n, m, k, a, r
<1>11. /\ ch' \in [Channels -> ChannelTypes] /\ \A d \in Channels : ch'[d] = IF d = c THEN k ELSE ch[d]
       /\ vis' \in [Visitors -> VisitorTypes] /\ \A w \in Visitors : vis'[w] = IF w = v THEN r ELSE vis[w]
  BY <1>0, <1>1, <1>2, <1>3, <1>5
<1> HIDE DEF s
<1>s. s = vis[v]
  BY DEF s
<1>12. Shape'
  <2>1. groups' \in Nat /\ ctl' \in Seq(Commands)
    BY <1>0, <1>3
  <2> QED
    BY <1>0, <1>1, <1>3, <1>11, <2>1, ShapeOfVisitors
<1>13. LabelsFit'
  <2>1. LabelFits(k)
    BY <1>5, <1>9 DEF LabelFits
  <2>2. \A d \in Channels : LabelFits(ch'[d])
    BY <1>0, <1>11, <2>1 DEF LabelsFit
  <2> QED
    BY <2>2 DEF LabelsFit, LabelFits, Labelled
<1>14. Owners'
  <2>1. \A w \in Visitors : OwnerFits(vis'[w])
    BY <1>0, <1>2, <1>11 DEF Owners
  <2>2. \A w \in Visitors : Owning(vis'[w]) => Owning(vis[w]) /\ vis'[w].group = vis[w].group
    BY <1>2, <1>7, <1>11, <1>s
  <2>3. \A w \in Visitors : Owning(vis'[w]) => vis'[w].group \in 1..groups'
    BY <1>0, <2>2 DEF Owners
  <2>4. \A u, w \in Visitors :
          Owning(vis'[u]) /\ Owning(vis'[w]) /\ vis'[u].group = vis'[w].group => u = w
    BY <1>0, <2>2 DEF Owners
  <2> QED
    BY <2>1, <2>3, <2>4 DEF Owners, OwnerFits, Owning
<1>15. Holdings'
  <2> SUFFICES ASSUME NEW w \in Visitors, vis'[w].pc # "gone", NEW i \in 1..Len(vis'[w].got)
               PROVE  HeldBy(ch'[vis'[w].got[i]], vis'[w], i)
    BY DEF Holdings, HeldBy, CountIn
  <2>1. ASSUME NEW u \in Visitors, vis[u].pc # "gone", NEW j \in 1..Len(vis[u].got)
        PROVE  HeldBy(ch[vis[u].got[j]], vis[u], j) /\ ch'[vis[u].got[j]] = ch[vis[u].got[j]]
    <3>1. HeldBy(ch[vis[u].got[j]], vis[u], j)
      BY <1>0, <2>1 DEF Holdings
    <3>2. vis[u].got[j] \in Channels /\ ch[vis[u].got[j]].server = "held"
      BY <2>1, HeldHere
    <3> QED
      BY <1>1, <1>11, <3>1, <3>2
  <2>2. CASE w # v
    BY <1>11, <2>1, <2>2
  <2>3. CASE w = v
    <3>1. vis'[w] = r /\ i \in 1..(n + 1) /\ vis'[w].got = a
      BY <1>2, <1>6, <1>11, <2>3
    <3>2. CASE i \in 1..n
      <4>1. HeldBy(ch[s.got[i]], s, i) /\ ch'[s.got[i]] = ch[s.got[i]]
        <5>1. i \in 1..Len(vis[v].got) /\ vis[v].pc # "gone"
          BY <1>s, <3>2 DEF n
        <5> QED
          BY <1>s, <5>1, <2>1
      <4>2. a[i] = s.got[i]
        BY <1>6, <3>2
      <4> QED
        BY <1>2, <1>7, <3>1, <4>1, <4>2 DEF HeldBy
    <3>3. CASE i = n + 1
      <4>1. vis'[w].got[i] = c /\ ch'[c] = k /\ i - 1 = n
        BY <1>1, <1>2, <1>6, <1>11, <3>1, <3>3
      <4>2. k.cmd = [group |-> r.group, index |-> n, count |-> CountIn(r)]
        BY <1>2, <1>5, <1>10
      <4> QED
        BY <1>5, <3>1, <4>1, <4>2 DEF HeldBy
    <3>4. i \in 1..n \/ i = n + 1
      BY <1>2, <3>1
    <3> QED
      BY <3>2, <3>3, <3>4
  <2> QED
    BY <2>2, <2>3

<1>16. ASSUME NEW d \in Channels, d # c, Labelled(ch[d])
       PROVE  /\ ch'[d] = ch[d] /\ ch[d].cmd.group \in 1..groups
              /\ (\E w \in Visitors : Placed(d, ch[d], vis'[w], Of[w])) \/ Abandoned(ch[d], vis')
              /\ ch[d].cmd.group = s.group => ch[d].cmd.index # n
  <2>1. ch'[d] = ch[d] /\ ch[d].cmd.index \in Nat
    BY <1>0, <1>11, <1>16, ChannelFacts
  <2>2. /\ ch[d].cmd.group \in 1..groups
        /\ (\E w \in Visitors : Placed(d, ch[d], vis[w], Of[w])) \/ Abandoned(ch[d], vis)
    BY <1>0, <1>16 DEF Claims
  <2>3. CASE Abandoned(ch[d], vis)
    <3>1. ch[d].cmd.group # s.group
      BY <1>7, <1>s, <2>3 DEF Abandoned
    <3>2. \A w \in Visitors : Owning(vis'[w]) => vis'[w].group # ch[d].cmd.group
      BY <1>2, <1>11, <2>3, <3>1 DEF Abandoned
    <3> QED
      BY <2>1, <2>2, <2>3, <3>1, <3>2 DEF Abandoned
  <2>4. ASSUME NEW w \in Visitors, Placed(d, ch[d], vis[w], Of[w])
        PROVE  /\ Placed(d, ch[d], vis'[w], Of[w])
               /\ ch[d].cmd.group = s.group => ch[d].cmd.index # n
    <3>1. CASE w # v
      <4>1. vis'[w] = vis[w] /\ ch[d].cmd.group # s.group
        BY <1>0, <1>7, <1>11, <1>s, <2>4, <3>1 DEF Owners, Placed
      <4> QED
        BY <2>4, <4>1
    <3>2. CASE w = v
      <4>1. /\ r.group = ch[d].cmd.group /\ Of[w] = ch[d].svc /\ ch[d].cmd.count = CountIn(r)
            /\ ch[d].cmd.index + 1 <= n /\ s.got[ch[d].cmd.index + 1] = d
        BY <1>2, <1>7, <1>s, <2>4, <3>2 DEF Placed, n
      <4> DEFINE j == ch[d].cmd.index
      <4>2. j \in Nat /\ n \in Nat /\ j + 1 <= n
        BY <1>2, <2>1, <4>1
      <4>3. j + 1 \in 1..n /\ j + 1 <= n + 1 /\ j # n
        <5> HIDE DEF j
        <5> QED
          BY ONLY <4>2
      <4>4. r.got[j + 1] = d /\ j + 1 <= Len(r.got)
        BY <1>2, <1>6, <4>1, <4>3
      <4> QED
        BY <1>7, <1>11, <3>2, <4>1, <4>3, <4>4 DEF Placed
    <3> QED
      BY <3>1, <3>2
  <2> QED
    BY <2>1, <2>2, <2>3, <2>4
<1>17. Claims'
  <2>1. ASSUME NEW d \in Channels, Labelled(ch'[d])
        PROVE  /\ ch'[d].cmd.group \in 1..groups'
               /\ (\E w \in Visitors : Placed(d, ch'[d], vis'[w], Of[w])) \/ Abandoned(ch'[d], vis')
    <3>1. CASE d = c
      <4>1. ch'[d] = k /\ vis'[v] = r /\ k.cmd.group = s.group /\ k.cmd.index = n /\ k.cmd.count = s.width
        BY <1>4, <1>5, <1>11, <3>1
      <4>2. Placed(d, ch'[d], vis'[v], Of[v])
        <5>1. n + 1 <= Len(r.got) /\ r.got[n + 1] = c
          BY <1>2, <1>6
        <5> QED
          BY <1>1, <1>2, <1>5, <1>7, <3>1, <4>1, <5>1 DEF Placed
      <4> QED
        BY <1>7, <4>1, <4>2
    <3>2. CASE d # c
      <4>1. ch'[d] = ch[d] /\ Labelled(ch[d])
        BY <1>11, <2>1, <3>2
      <4> QED
        BY <1>16, <3>2, <4>1
    <3> QED
      BY <3>1, <3>2
  <2> QED
    BY <2>1 DEF Claims, Labelled, Placed, Abandoned, Owning, CountIn
<1>18. Distinct'
  <2>1. \A d \in Channels : d # c /\ Labelled(ch'[d]) => Labelled(ch[d]) /\ ch'[d] = ch[d]
    BY <1>11
  <2>2. k.cmd.group = s.group /\ k.cmd.index = n /\ ch'[c] = k
    BY <1>1, <1>4, <1>5, <1>11
  <2>3. \A d \in Channels : d # c /\ Labelled(ch'[d]) /\ ch'[d].cmd.group = s.group =>
          ch'[d].cmd.index # n
    BY <1>16, <2>1
  <2>4. ASSUME NEW d \in Channels, NEW e \in Channels, Labelled(ch'[d]), Labelled(ch'[e]),
               ch'[d].cmd.group = ch'[e].cmd.group, ch'[d].cmd.index = ch'[e].cmd.index
        PROVE  d = e
    <3>1. CASE d # c /\ e # c
      BY <1>0, <2>1, <2>4, <3>1 DEF Distinct
    <3>2. CASE d = c \/ e = c
      BY <2>2, <2>3, <2>4, <3>2
    <3> QED
      BY <3>1, <3>2
  <2> QED
    BY <2>4 DEF Distinct, Labelled
<1>19. GroupsAgree'
  <2> SUFFICES ASSUME NEW d \in Channels, ch'[d].client = "forward"
               PROVE  \E w \in Visitors :
                        /\ vis'[w].pc \in {"forward", "gone"} /\ vis'[w].group = ch'[d].cmd.group
                        /\ Of[w] = ch'[d].svc /\ vis'[w].got[ch'[d].cmd.index + 1] = d
    BY DEF GroupsAgree
  <2>1. ch'[d] = ch[d]
    BY <1>5, <1>8, <1>11
  <2>2. PICK w \in Visitors :
          /\ vis[w].pc \in {"forward", "gone"} /\ vis[w].group = ch[d].cmd.group
          /\ Of[w] = ch[d].svc /\ vis[w].got[ch[d].cmd.index + 1] = d
    BY <1>0, <2>1 DEF GroupsAgree
  <2>3. w # v /\ vis'[w] = vis[w]
    BY <1>11, <2>2
  <2> QED
    BY <2>1, <2>2, <2>3
<1>20. OnTheTunnels'
  <2>1. ASSUME NEW t \in Tunnels PROVE TunnelFits(t, bridge'[t], routed'[t], ch')
    <3>1. \A d \in Channels : OnTunnel(t, ch[d]) => OnTunnel(t, ch'[d]) /\ ch'[d].svc = ch[d].svc
      BY <1>1, <1>11 DEF OnTunnel
    <3> QED
      BY <1>0, <3>1, TunnelKept DEF tunnelVars
  <2> QED
    BY <2>1 DEF OnTheTunnels, TunnelFits, OnTunnel
<1>21. InQueue' /\ OneQueue'
  <2>1. \A d \in Channels : d # Head(queue[p]) /\ ch[d].server = "queue" =>
          ch'[d].server = "queue" /\ ch'[d].svc = ch[d].svc
    BY <1>11 DEF c
  <2>2. queue[p] # <<>> /\ queue' = [queue EXCEPT ![p] = Tail(queue[p])]
    BY DEF p
  <2> QED
    BY <1>0, <2>1, <2>2, QueueTail
<1> QED
  BY <1>12, <1>13, <1>14, <1>15, <1>17, <1>18, <1>19, <1>20, <1>21 DEF PairingInv, Sites, Labels

LEMMA TakeChannelKeeps == ASSUME PairingInv, NEW v \in Visitors, TakeChannel(v) PROVE PairingInv'
<1>1. /\ vis[v].pc = "gather" /\ queue[PoolOf(v)] # <<>>
      /\ queue' = [queue EXCEPT ![PoolOf(v)] = Tail(queue[PoolOf(v)])]
      /\ UNCHANGED <<groups, gen, handle, active, tunnelVars, stones, faults>>
      /\ Label(v, Head(queue[PoolOf(v)])) \/ Regather(v, Head(queue[PoolOf(v)]))
  BY DEF TakeChannel, At
<1> QED
  BY <1>1, LabelKeeps, RegatherKeeps

-----------------------------------------------------------------------------
(* Initially every channel is blank and every visitor away.                *)
LEMMA PairingInit == PairInit => PairingInv
<1> SUFFICES ASSUME PairInit PROVE PairingInv
  OBVIOUS
<1>1. /\ \A v \in Visitors : vis[v] = Away
      /\ \A c \in Channels : ch[c] = Blank
      /\ \A p \in Pools : queue[p] = <<>>
      /\ \A t \in Tunnels : bridge[t] = <<>> /\ routed[t] = <<>>
  BY DEF PairInit
<1>2. PairingTypeOK
  <2>1. vis \in [Visitors -> VisitorTypes] /\ ch \in [Channels -> ChannelTypes]
    BY AwayFacts, BlankFacts DEF PairInit
  <2>2. /\ lock \in [Pools -> Visitors \cup {Nobody}] /\ queue \in [Pools -> Seq(Channels)]
        /\ gen \in [Services -> 0..MaxFaults] /\ faults \in 0..MaxFaults
    BY Numbers DEF PairInit
  <2>3. /\ groups \in Nat /\ stones \subseteq Nat /\ ctl \in Seq(Commands)
        /\ handle \subseteq Services /\ active \subseteq Services
    BY DEF PairInit
  <2>4. tun \in [Tunnels -> {"up", "undispatched", "down"}] /\ bridge \in [Tunnels -> Seq(Channels)]
    BY DEF PairInit
  <2> QED
    BY <1>1, <2>1, <2>2, <2>3, <2>4 DEF PairingTypeOK, VisitorTypes
<1>3. Shape
  <2>1. routed \in [Tunnels -> Routings]
    BY DEF PairInit, Routings
  <2>2. \A s \in Services : gen[s] + (IF s \in active THEN 0 ELSE 1) + faults <= MaxFaults
    BY Numbers DEF PairInit
  <2> QED
    BY <1>2, <2>1, <2>2 DEF Shape
<1>4. Sites
  <2>1. OnTheTunnels
    BY <1>1 DEF OnTheTunnels, TunnelFits
  <2>2. InQueue /\ OneQueue
    BY <1>1 DEF InQueue, OneQueue
  <2> QED
    BY <2>1, <2>2 DEF Sites
<1>5. Labels
  <2>1. \A c \in Channels : ~Labelled(ch[c]) /\ LabelFits(ch[c]) /\ ch[c].client # "forward"
    BY <1>1, BlankFacts DEF Labelled, LabelFits
  <2>2. \A v \in Visitors : ~Owning(vis[v]) /\ OwnerFits(vis[v]) /\ vis[v].got = <<>>
    BY <1>1, AwayFacts DEF Owning, OwnerFits
  <2>3. LabelsFit /\ Claims /\ Distinct /\ GroupsAgree
    BY <2>1 DEF LabelsFit, Claims, Distinct, GroupsAgree
  <2>4. Owners /\ Holdings
    BY <2>2 DEF Owners, Holdings
  <2> QED
    BY <2>3, <2>4 DEF Labels
<1> QED
  BY <1>3, <1>4, <1>5 DEF PairingInv

LEMMA VisitorKeeps ==
  ASSUME PairingInv, NEW v \in Visitors, Visitor(v) \/ VisitorArrives(v) \/ Leave(v)
  PROVE  PairingInv'
<1>1. CASE TakeLock(v)
  BY <1>1, TakeLockKeeps
<1>2. CASE Ask(v)
  BY <1>2, AskKeeps
<1>3. CASE TakeChannel(v)
  BY <1>3, TakeChannelKeeps
<1>4. CASE Timeout(v)
  BY <1>4, TimeoutKeeps
<1>5. CASE PoolGone(v)
  BY <1>5, PoolGoneKeeps
<1>6. CASE VisitorArrives(v)
  BY <1>6, VisitorArrivesKeeps
<1>7. CASE Leave(v)
  BY <1>7, LeaveKeeps
<1> QED
  BY <1>1, <1>2, <1>3, <1>4, <1>5, <1>6, <1>7 DEF Visitor

LEMMA PairingStep == PairingInv /\ [PairNext]_pairVars => PairingInv'
<1> SUFFICES ASSUME PairingInv, [PairNext]_pairVars PROVE PairingInv'
  OBVIOUS
<1>1. ASSUME NEW v \in Visitors, Visitor(v) \/ VisitorArrives(v) \/ Leave(v) PROVE PairingInv'
  BY <1>1, VisitorKeeps
<1>2. CASE Client
  BY <1>2, TakeRequestKeeps, TakeReleaseKeeps DEF Client
<1>3. ASSUME NEW c \in Channels, Channel(c) PROVE PairingInv'
  BY <1>3, ReadCommandKeeps, ReadEofKeeps, ForwardEndsKeeps DEF Channel
<1>4. ASSUME NEW t \in Tunnels, Dispatch(t) \/ Redial(t) \/ CutTunnel(t) PROVE PairingInv'
  BY <1>4, RouteKeeps, EnqueueKeeps, EndDispatchKeeps, RedialKeeps, CutTunnelKeeps DEF Dispatch
<1>5. ASSUME NEW s \in Services, Restart(s) \/ BeginReload(s) \/ DropRegistry(s) PROVE PairingInv'
  BY <1>5, RestartKeeps, BeginReloadKeeps, DropRegistryKeeps
<1>6. ASSUME NEW p \in Pools, DropQueue(p) PROVE PairingInv'
  BY <1>6, DropQueueKeeps
<1>7. CASE UNCHANGED pairVars
  <2>1. UNCHANGED <<groups, vis, lock, queue, gen, handle, active, ctl, ch, tun, bridge, routed, stones, faults>>
    BY <1>7 DEF pairVars
  <2>2. Shape'
    BY <2>1 DEF PairingInv, Shape, PairingTypeOK, Routings, Pools
  <2>3. \A c \in Channels : Gentle(ch[c], ch'[c])
    BY <2>1 DEF Gentle, Fades, Keeps, Holds, Waits
  <2> QED
    BY <2>1, <2>2, <2>3, GentleStep
<1> QED
  BY <1>1, <1>2, <1>3, <1>4, <1>5, <1>6, <1>7 DEF PairNext

(* The client connects a group to its local service only for a visitor of  *)
(* that service, paired with exactly those channels under exactly those    *)
(* indices: register on the client and pair_striped_group on the server    *)
(* agree, whatever was gathered, broken, released, timed out or reloaded   *)
(* in between, for every number of visitors, channels and stripes.         *)
THEOREM PairingIsSafe == PairSpec => []PairingSafe
<1>1. PairingInv => PairingSafe
  BY DEF PairingInv, Shape, Labels, PairingSafe
<1> QED
  BY PairingInit, PairingStep, <1>1, PTL DEF PairSpec

=============================================================================
