-------------------------- MODULE ServerQueryProofs --------------------------
(***************************************************************************)
(* Theorems about ServerQuery: the reply to a getservers request is whole, *)
(* in order and cut into full packets, for any servers, games, requests    *)
(* and sizes of a packet.                                                  *)
(*                                                                         *)
(* The properties speak of the packets of an answer.  While the loop runs, *)
(* the packet that is being filled is the last of them, a page that is     *)
(* still open: QueryInv says of the pages so far what the properties say   *)
(* of the reply, for the servers before "next".                            *)
(***************************************************************************)
EXTENDS ServerQuery, FiniteSetTheorems, SequenceTheorems, TLAPS

Lists == SeqOf(Servers, MaxVisited)

----------------------------------------------------------------------------
(* Lists of servers and their size.                                        *)

\* What the assumption says of the sizes.
LEMMA Sizes ==
  /\ MaxVisited \in Nat /\ HeaderSize \in Nat /\ MAX_PACKET_SIZE_OUT \in Nat
  /\ HeaderSize + 19 <= MAX_PACKET_SIZE_OUT
  /\ RecordSize("ipv4") = 7 /\ RecordSize("ipv6") = 19
  BY QueryAssumption DEF RecordSize

\* A server has an entry with a game's name and one of two families.
LEMMA ServerEntry ==
  ASSUME NEW s \in Servers
  PROVE  /\ Server[s].game \in Names /\ Server[s].game # NoName
         /\ Server[s].family \in {"ipv4", "ipv6"}
         /\ SizeOf(s) = IF Server[s].family = "ipv4" THEN 7 ELSE 19
         /\ SizeOf(s) \in {7, 19}
<1>1. Server[s] \in Entries
  BY QueryAssumption
<1> QED BY <1>1, QueryAssumption DEF Entries, SizeOf, RecordSize

\* A list is a sequence of bounded length.
LEMMA ListIsSeq ==
  ASSUME NEW q
  PROVE  q \in Lists <=> q \in Seq(Servers) /\ Len(q) <= MaxVisited
<1>1. ASSUME q \in Lists PROVE q \in Seq(Servers) /\ Len(q) <= MaxVisited
  <2>1. PICK m \in 0 .. MaxVisited : q \in [1 .. m -> Servers]
    BY <1>1 DEF Lists, SeqOf
  <2>2. m \in Nat
    BY Sizes
  <2>3. q \in Seq(Servers) /\ Len(q) = m
    BY <2>1, <2>2
  <2> QED BY <2>1, <2>3, Sizes
<1>2. ASSUME q \in Seq(Servers), Len(q) <= MaxVisited PROVE q \in Lists
  <2>1. Len(q) \in 0 .. MaxVisited /\ q \in [1 .. Len(q) -> Servers]
    BY <1>2, Sizes
  <2> QED BY <2>1 DEF Lists, SeqOf
<1> QED BY <1>1, <1>2

\* The records of a family in a list can be counted.
LEMMA RecordsFinite ==
  ASSUME NEW q \in Seq(Servers), NEW family
  PROVE  /\ IsFiniteSet(Records(q, family)) /\ Cardinality(Records(q, family)) \in Nat
         /\ Records(q, family) \subseteq 1 .. Len(q)
<1>1. Records(q, family) \subseteq 1 .. Len(q) /\ IsFiniteSet(1 .. Len(q))
  BY FS_Interval DEF Records
<1> QED BY <1>1, FS_Subset, FS_CardinalityType

\* A list has its size, and each server adds its own.
LEMMA SizeGrows ==
  ASSUME NEW q \in Seq(Servers), NEW s \in Servers
  PROVE  /\ SizeOfAll(q) \in Nat
         /\ SizeOfAll(Append(q, s)) = SizeOfAll(q) + SizeOf(s)
<1>1. PICK r \in Seq(Servers) : r = Append(q, s)
  BY AppendProperties
<1>2. /\ Len(r) = Len(q) + 1 /\ DOMAIN r = 1 .. Len(q) + 1 /\ DOMAIN q = 1 .. Len(q)
      /\ r[Len(q) + 1] = s
      /\ \A i \in 1 .. Len(q) : r[i] = q[i]
  <2>1. DOMAIN q = 1 .. Len(q) /\ DOMAIN r = 1 .. Len(r)
    OBVIOUS
  <2>2. /\ Len(r) = Len(q) + 1 /\ r[Len(q) + 1] = s
        /\ \A i \in 1 .. Len(q) : r[i] = q[i]
    BY <1>1, AppendProperties
  <2> QED BY <2>1, <2>2
<1>3. Len(q) \in Nat
  OBVIOUS
<1>4. ASSUME NEW family
      PROVE  Cardinality(Records(r, family)) =
               Cardinality(Records(q, family)) + IF Server[s].family = family THEN 1 ELSE 0
  <2>1. Len(q) + 1 \notin Records(q, family)
    BY <1>3, RecordsFinite
  <2>2. CASE Server[s].family = family
    <3>1. Records(r, family) = Records(q, family) \cup {Len(q) + 1}
      BY <1>2, <1>3, <2>2 DEF Records
    <3> QED BY <2>1, <2>2, <3>1, RecordsFinite, FS_AddElement
  <2>3. CASE Server[s].family # family
    <3>1. Records(r, family) = Records(q, family)
      BY <1>2, <1>3, <2>3 DEF Records
    <3> QED BY <2>3, <3>1, RecordsFinite
  <2> QED BY <2>2, <2>3
<1>5. PICK n4 \in Nat : n4 = Cardinality(Records(q, "ipv4"))
  BY RecordsFinite
<1>6. PICK n6 \in Nat : n6 = Cardinality(Records(q, "ipv6"))
  BY RecordsFinite
<1>7. SizeOfAll(q) = HeaderSize + 7 * n4 + 19 * n6
  BY <1>5, <1>6, Sizes DEF SizeOfAll
<1>8. CASE Server[s].family = "ipv4"
  <2>1. SizeOfAll(r) = HeaderSize + 7 * (n4 + 1) + 19 * (n6 + 0)
    <3>1. Cardinality(Records(r, "ipv4")) = n4 + 1
      BY <1>4, <1>5, <1>8
    <3>2. Cardinality(Records(r, "ipv6")) = n6 + 0
      BY <1>4, <1>6, <1>8
    <3> QED BY <3>1, <3>2, Sizes DEF SizeOfAll
  <2>2. SizeOf(s) = 7
    BY <1>8, ServerEntry
  <2> QED BY <1>1, <1>7, <2>1, <2>2, Sizes
<1>9. CASE Server[s].family = "ipv6"
  <2>1. SizeOfAll(r) = HeaderSize + 7 * (n4 + 0) + 19 * (n6 + 1)
    <3>1. Cardinality(Records(r, "ipv4")) = n4 + 0
      BY <1>4, <1>5, <1>9
    <3>2. Cardinality(Records(r, "ipv6")) = n6 + 1
      BY <1>4, <1>6, <1>9
    <3> QED BY <3>1, <3>2, Sizes DEF SizeOfAll
  <2>2. SizeOf(s) = 19
    BY <1>9, ServerEntry
  <2> QED BY <1>1, <1>7, <2>1, <2>2, Sizes
<1> QED BY <1>8, <1>9, ServerEntry

\* The packet starts with its header, and one server always fits.
LEMMA SizeOfFirst ==
  /\ <<>> \in Seq(Servers) /\ SizeOfAll(<<>>) = HeaderSize
  /\ \A s \in Servers : /\ <<s>> \in Seq(Servers)
                        /\ SizeOfAll(<<s>>) \in Nat
                        /\ SizeOfAll(<<s>>) <= MAX_PACKET_SIZE_OUT
<1>1. <<>> \in Seq(Servers) /\ SizeOfAll(<<>>) = HeaderSize
  <2>1. \A family : Records(<<>>, family) = {}
    BY DEF Records
  <2>2. Cardinality(Records(<<>>, "ipv4")) = 0 /\ Cardinality(Records(<<>>, "ipv6")) = 0
    BY <2>1, FS_EmptySet
  <2> QED BY <2>2, Sizes DEF SizeOfAll
<1>2. ASSUME NEW s \in Servers
      PROVE  <<s>> \in Seq(Servers) /\ SizeOfAll(<<s>>) \in Nat
               /\ SizeOfAll(<<s>>) <= MAX_PACKET_SIZE_OUT
  <2>1. <<s>> = Append(<<>>, s)
    OBVIOUS
  <2>2. SizeOfAll(Append(<<>>, s)) = HeaderSize + SizeOf(s)
    BY <1>1, SizeGrows
  <2> QED BY <2>1, <2>2, Sizes, ServerEntry
<1> QED BY <1>1, <1>2

----------------------------------------------------------------------------
(* The pages.                                                              *)

\* The packets so far, the one that is being filled as the last of them.
PageCount == Len(sent) + 1
Page(i)   == IF i = PageCount THEN packet ELSE sent[i].servers
Slot(i, k) == i \in 1 .. PageCount /\ k \in 1 .. Len(Page(i))
Earlier(i, k, j, l) == i < j \/ (i = j /\ k < l)

\* The server that came m-th is to be in the reply: it passes, and if the client
\* did not name its game, a server has lent its name by then.
Eligible(m) ==
  /\ PassesFor(visited[m], gamename)
  /\ Named(request) # NoName \/ \E j \in 1 .. m : Lends(visited[j])

\* The game is the one of the request, or that of the first server that lends it.
NameInv ==
  /\ Named(request) # NoName => gamename = Named(request)
  /\ Named(request) = NoName =>
       /\ gamename = NoName <=> \A m \in 1 .. next - 1 : ~ Lends(visited[m])
       /\ \A m \in 1 .. next - 1 :
            Lends(visited[m]) /\ (\A j \in 1 .. m - 1 : ~ Lends(visited[j])) =>
              gamename = Server[visited[m]].game

\* Every page but the last is a packet that was full.
FullInv ==
  \A i \in 1 .. Len(sent) :
    /\ ~ sent[i].eot /\ Page(i) # <<>> /\ Page(i + 1) # <<>>
    /\ SizeOfAll(Page(i)) <= MAX_PACKET_SIZE_OUT
    /\ SizeOfAll(Page(i)) + SizeOf(Page(i + 1)[1]) > MAX_PACKET_SIZE_OUT

\* The pages hold the servers that are to be in the reply, in their order.
ShownInv ==
  /\ \A i, k : Slot(i, k) =>
       \E m \in 1 .. next - 1 : Eligible(m) /\ Page(i)[k] = visited[m]
  /\ \A m \in 1 .. next - 1 : Eligible(m) =>
       \E i, k : Slot(i, k) /\ Page(i)[k] = visited[m]
  /\ \A i, k, j, l : Slot(i, k) /\ Slot(j, l) /\ Earlier(i, k, j, l) =>
       ComesBefore(Page(i)[k], Page(j)[l])

Untouched == next = 1 /\ packet = <<>> /\ sent = <<>>

QueryInv ==
  /\ TypeOK
  /\ next \in 1 .. Len(visited) + 1 /\ Len(packet) < next
  /\ status = "parsing" => Untouched /\ gamename = NoName
  /\ status = "running" => NameInv /\ FullInv /\ ShownInv
  /\ PacketsAreFull /\ KnownGameGetsAll /\ UnknownGameGetsOne

\* The variables are sequences and numbers.
LEMMA Types ==
  ASSUME QueryInv
  PROVE  /\ visited \in Lists /\ visited \in Seq(Servers) /\ Len(visited) \in Nat
         /\ Len(visited) <= MaxVisited /\ IsInjective(visited)
         /\ packet \in Lists /\ packet \in Seq(Servers) /\ Len(packet) \in Nat
         /\ sent \in Seq([servers : Lists, eot : BOOLEAN]) /\ Len(sent) \in Nat
         /\ DOMAIN sent = 1 .. Len(sent) /\ DOMAIN visited = 1 .. Len(visited)
         /\ next \in Nat
         /\ \A i \in 1 .. PageCount : Page(i) \in Lists /\ Page(i) \in Seq(Servers)
<1>1. /\ visited \in Lists /\ IsInjective(visited) /\ packet \in Lists
      /\ sent \in Seq([servers : Lists, eot : BOOLEAN])
  BY DEF QueryInv, TypeOK, Iterations, Lists
<1>2. visited \in Seq(Servers) /\ Len(visited) <= MaxVisited /\ packet \in Seq(Servers)
  BY <1>1, ListIsSeq
<1>3. Len(visited) \in Nat /\ Len(packet) \in Nat /\ DOMAIN visited = 1 .. Len(visited)
  BY <1>2
<1>4. Len(sent) \in Nat /\ DOMAIN sent = 1 .. Len(sent)
  BY <1>1
<1>5. next \in Nat
  BY Sizes DEF QueryInv, TypeOK
<1>6. ASSUME NEW i \in 1 .. PageCount PROVE Page(i) \in Lists
  <2>1. CASE i = PageCount
    BY <1>1, <2>1 DEF Page
  <2>2. CASE i # PageCount
    <3>1. i \in 1 .. Len(sent)
      BY <1>4, <2>2 DEF PageCount
    <3>2. sent[i] \in [servers : Lists, eot : BOOLEAN]
      BY <1>1, <3>1, ElementOfSeq
    <3>3. sent[i].servers \in Lists
      BY <3>2
    <3> QED BY <2>2, <3>3 DEF Page
  <2> QED BY <2>1, <2>2
<1>7. \A i \in 1 .. PageCount : Page(i) \in Seq(Servers)
  BY <1>6, ListIsSeq
<1> QED BY <1>1, <1>2, <1>3, <1>4, <1>5, <1>6, <1>7

\* The request does not change, nor does what fits it.
LEMMA SameRequest ==
  ASSUME UNCHANGED request
  PROVE  /\ Named(request)' = Named(request)
         /\ \A s, game : PassesFor(s, game)' <=> PassesFor(s, game)
         /\ \A s : Lends(s)' <=> Lends(s)
  BY DEF Named, PassesFor, Lends, Comparable, Wanted, Families

\* A server that is put into the packet is the last of the pages, and nothing else
\* moves; the page before it was full.
LEMMA PutPages ==
  ASSUME QueryInv, FullInv, NEW s \in Servers, Put(s), Len(packet) < MaxVisited
  PROVE  /\ packet' \in Lists /\ packet' # <<>> /\ Len(packet') <= Len(packet) + 1
         /\ SizeOfAll(packet') <= MAX_PACKET_SIZE_OUT
         /\ sent' \in Seq([servers : Lists, eot : BOOLEAN])
         /\ FullInv'
         /\ \E j, l : /\ Slot(j, l)' /\ Page(j)'[l] = s
                      /\ \A i, k : Slot(i, k)' <=> Slot(i, k) \/ (i = j /\ k = l)
                      /\ \A i, k : Slot(i, k) => /\ Page(i)'[k] = Page(i)[k]
                                                 /\ Earlier(i, k, j, l)
<1>0. PICK p, n : p = PageCount /\ n = Len(packet)
  OBVIOUS
<1> p \in Nat /\ n \in Nat /\ p = Len(sent) + 1 /\ p = PageCount /\ n = Len(packet) /\ Page(p) = packet
  BY <1>0, Types DEF PageCount, Page
<1>1. CASE HasRoom(SizeOf(s))
  <2>1. packet' = Append(packet, s) /\ sent' = sent
    BY <1>1 DEF Put
  <2>2. /\ packet' \in Seq(Servers) /\ packet' # <<>> /\ Len(packet') = n + 1
        /\ packet'[n + 1] = s
        /\ \A k \in 1 .. n : packet'[k] = packet[k]
    BY <2>1, Types, AppendProperties
  <2>3. packet' \in Lists
    <3>1. Len(packet') <= MaxVisited
      BY <2>2, Sizes
    <3> QED BY <2>2, <3>1, ListIsSeq
  <2>4. SizeOfAll(packet') <= MAX_PACKET_SIZE_OUT
    BY <1>1, <2>1, Types, SizeGrows DEF HasRoom
  <2>5. PageCount' = p
    BY <2>1 DEF PageCount
  <2>6. ASSUME NEW i, i # p PROVE Page(i)' = Page(i)
    BY <2>1, <2>5, <2>6 DEF Page
  <2>7. Page(p)' = packet'
    BY <2>5 DEF Page
  <2>8. FullInv'
    <3> SUFFICES ASSUME NEW i \in 1 .. Len(sent)
                 PROVE  /\ ~ sent[i].eot /\ Page(i)' # <<>> /\ Page(i + 1)' # <<>>
                        /\ SizeOfAll(Page(i)') <= MAX_PACKET_SIZE_OUT
                        /\ SizeOfAll(Page(i)') + SizeOf(Page(i + 1)'[1]) > MAX_PACKET_SIZE_OUT
      BY <2>1 DEF FullInv
    <3>1. Page(i)' = Page(i)
      BY <2>6, Types
    <3>2. Page(i + 1)' # <<>> /\ Page(i + 1)'[1] = Page(i + 1)[1]
      <4>1. CASE i + 1 = p
        <5>1. packet # <<>>
          BY <4>1 DEF FullInv
        <5>2. 1 \in 1 .. n
          BY <5>1, Types
        <5>3. packet'[1] = packet[1]
          BY <2>2, <5>2
        <5> QED BY <2>2, <2>7, <4>1, <5>3
      <4>2. CASE i + 1 # p
        BY <2>6, <4>2 DEF FullInv
      <4> QED BY <4>1, <4>2
    <3> QED BY <3>1, <3>2 DEF FullInv
  <2>9. Slot(p, n + 1)'
    BY <2>2, <2>5, <2>7 DEF Slot
  <2>10. ASSUME NEW i, NEW k
         PROVE  Slot(i, k)' <=> Slot(i, k) \/ (i = p /\ k = n + 1)
    <3>1. CASE i = p
      <4>1. Slot(i, k)' <=> k \in 1 .. n + 1
        BY <2>2, <2>5, <2>7, <3>1 DEF Slot
      <4>2. Slot(i, k) <=> k \in 1 .. n
        BY <3>1 DEF Slot
      <4> QED BY <3>1, <4>1, <4>2
    <3>2. CASE i # p
      BY <2>5, <2>6, <3>2 DEF Slot
    <3> QED BY <3>1, <3>2
  <2>11. ASSUME NEW i, NEW k, Slot(i, k)
         PROVE  Page(i)'[k] = Page(i)[k] /\ Earlier(i, k, p, n + 1)
    <3>1. i \in 1 .. p /\ k \in 1 .. Len(Page(i))
      BY <2>11 DEF Slot
    <3>2. CASE i = p
      BY <2>2, <2>7, <3>1, <3>2 DEF Earlier
    <3>3. CASE i # p
      BY <2>6, <3>1, <3>3 DEF Earlier
    <3> QED BY <3>2, <3>3
  <2>12. Page(p)'[n + 1] = s
    BY <2>2, <2>7
  <2>13. sent' \in Seq([servers : Lists, eot : BOOLEAN])
    BY <2>1, Types
  <2> QED BY <2>2, <2>3, <2>4, <2>8, <2>9, <2>10, <2>11, <2>12, <2>13
<1>2. CASE ~ HasRoom(SizeOf(s))
  <2>1. packet' = <<s>> /\ sent' = Append(sent, [servers |-> packet, eot |-> FALSE])
    BY <1>2 DEF Put, Sending
  <2>2. /\ packet' \in Seq(Servers) /\ packet' # <<>> /\ Len(packet') = 1 /\ packet'[1] = s
        /\ SizeOfAll(packet') <= MAX_PACKET_SIZE_OUT
    BY <2>1, SizeOfFirst
  <2>3. packet' \in Lists
    <3>1. Len(packet') <= MaxVisited
      BY <2>2, Sizes
    <3> QED BY <2>2, <3>1, ListIsSeq
  <2>4. [servers |-> packet, eot |-> FALSE] \in [servers : Lists, eot : BOOLEAN]
    BY Types
  <2>5. /\ sent' \in Seq([servers : Lists, eot : BOOLEAN])
        /\ Len(sent') = p
        /\ sent'[p] = [servers |-> packet, eot |-> FALSE]
        /\ \A i \in 1 .. Len(sent) : sent'[i] = sent[i]
    BY <2>1, <2>4, Types, AppendProperties
  <2>6. PageCount' = p + 1
    BY <2>5 DEF PageCount
  <2>7. Page(p + 1)' = packet'
    BY <2>6 DEF Page
  <2>8. ASSUME NEW i \in 1 .. p PROVE Page(i)' = Page(i)
    <3>1. Page(i)' = sent'[i].servers
      BY <2>6 DEF Page
    <3>2. CASE i = p
      BY <2>5, <3>1, <3>2
    <3>3. CASE i # p
      <4>1. i \in 1 .. Len(sent)
        BY <3>3, Types
      <4> QED BY <2>5, <3>1, <3>3, <4>1 DEF Page
    <3> QED BY <3>2, <3>3
  <2>9. packet # <<>>
    BY <1>2, SizeOfFirst, ServerEntry, Sizes DEF HasRoom
  <2>10. SizeOfAll(packet) + SizeOf(s) > MAX_PACKET_SIZE_OUT
    <3>1. SizeOfAll(packet) \in Nat /\ SizeOf(s) \in Nat /\ MAX_PACKET_SIZE_OUT \in Nat
      <4>1. SizeOf(s) \in {7, 19}
        BY ServerEntry
      <4> QED BY <4>1, Types, SizeGrows, Sizes
    <3> QED BY <1>2, <3>1 DEF HasRoom
  <2>11. SizeOfAll(packet) <= MAX_PACKET_SIZE_OUT
    BY DEF QueryInv, TypeOK
  <2>12. FullInv'
    <3> SUFFICES ASSUME NEW i \in 1 .. p
                 PROVE  /\ ~ sent'[i].eot /\ Page(i)' # <<>> /\ Page(i + 1)' # <<>>
                        /\ SizeOfAll(Page(i)') <= MAX_PACKET_SIZE_OUT
                        /\ SizeOfAll(Page(i)') + SizeOf(Page(i + 1)'[1]) > MAX_PACKET_SIZE_OUT
      BY <2>5 DEF FullInv
    <3>1. CASE i = p
      <4>1. Page(i)' = packet /\ Page(i + 1)' = packet' /\ ~ sent'[i].eot
        BY <2>5, <2>7, <2>8, <3>1
      <4> QED BY <2>2, <2>9, <2>10, <2>11, <4>1
    <3>2. CASE i # p
      <4>1. i \in 1 .. Len(sent) /\ i + 1 \in 1 .. p
        BY <3>2, Types
      <4>2. Page(i)' = Page(i) /\ Page(i + 1)' = Page(i + 1) /\ sent'[i] = sent[i]
        BY <2>5, <2>8, <4>1
      <4> QED BY <4>1, <4>2 DEF FullInv
    <3> QED BY <3>1, <3>2
  <2>13. Slot(p + 1, 1)'
    BY <2>2, <2>6, <2>7 DEF Slot
  <2>14. ASSUME NEW i, NEW k
         PROVE  Slot(i, k)' <=> Slot(i, k) \/ (i = p + 1 /\ k = 1)
    <3>1. CASE i = p + 1
      <4>1. Slot(i, k)' <=> k \in 1 .. 1
        <5>1. Len(Page(i)') = 1 /\ i \in 1 .. p + 1
          BY <2>2, <2>7, <3>1
        <5> QED BY <2>6, <5>1 DEF Slot
      <4>2. ~ Slot(i, k)
        BY <3>1 DEF Slot
      <4> QED BY <3>1, <4>1, <4>2
    <3>2. CASE i # p + 1
      <4>1. i \in 1 .. p + 1 <=> i \in 1 .. p
        BY <3>2
      <4> QED BY <2>6, <2>8, <3>2, <4>1 DEF Slot
    <3> QED BY <3>1, <3>2
  <2>15. ASSUME NEW i, NEW k, Slot(i, k)
         PROVE  Page(i)'[k] = Page(i)[k] /\ Earlier(i, k, p + 1, 1)
    <3>1. i \in 1 .. p
      BY <2>15 DEF Slot
    <3> QED BY <2>8, <3>1 DEF Earlier
  <2>16. Page(p + 1)'[1] = s
    BY <2>2, <2>7
  <2>17. Len(packet') <= Len(packet) + 1
    BY <2>2
  <2> QED BY <2>2, <2>3, <2>5, <2>12, <2>13, <2>14, <2>15, <2>16, <2>17
<1> QED BY <1>1, <1>2

----------------------------------------------------------------------------
(* The steps.                                                              *)

\* Nothing has been looked at yet.
LEMMA InitInv == Init => QueryInv
<1> SUFFICES ASSUME Init PROVE QueryInv
  OBVIOUS
<1>1. visited \in Lists /\ visited \in Iterations /\ visited \in Seq(Servers)
  BY ListIsSeq DEF Init, Iterations, Lists
<1>2. Len(visited) \in Nat /\ next = 1 /\ packet = <<>> /\ sent = <<>> /\ status = "parsing"
  BY <1>1 DEF Init
<1>3. packet \in Lists
  <2>1. packet \in Seq(Servers) /\ Len(packet) = 0 /\ 0 <= MaxVisited
    BY <1>2, Sizes, SizeOfFirst
  <2> QED BY <2>1, ListIsSeq
<1>4. SizeOfAll(packet) <= MAX_PACKET_SIZE_OUT
  BY <1>2, SizeOfFirst, Sizes
<1>5. next \in 1 .. MaxVisited + 1 /\ next \in 1 .. Len(visited) + 1 /\ Len(packet) < next
  BY <1>2, Sizes
<1>6. TypeOK
  BY <1>1, <1>2, <1>3, <1>4, <1>5 DEF Init, TypeOK, Lists
<1>7. ~ IsAnswered /\ status # "running"
  BY <1>2 DEF IsAnswered
<1> QED BY <1>2, <1>5, <1>6, <1>7 DEF Init, QueryInv, Untouched, PacketsAreFull, KnownGameGetsAll,
           UnknownGameGetsOne

\* The name of a request is that of a game, or none.
LEMMA NameType == ASSUME QueryInv PROVE Named(request) \in Names \cup {NoName}
<1>1. request \in Requests
  BY DEF QueryInv, TypeOK
<1> QED BY <1>1, QueryAssumption DEF Named

\* The request is read: the pages are empty, and no server has come yet.
LEMMA ParseInv == ASSUME QueryInv, Parse PROVE QueryInv'
<1>1. /\ UNCHANGED <<request, visited, next, packet, sent>> /\ gamename' = Named(request)
      /\ status' \in {"running", "rejected"} /\ Untouched
  BY DEF Parse, QueryInv
<1>2. TypeOK'
  <2>1. gamename' \in Names \cup {NoName}
    BY <1>1, NameType
  <2> QED BY <1>1, <2>1 DEF QueryInv, TypeOK, Iterations, SizeOfAll, Records
<1>3. ASSUME status' = "running" PROVE NameInv' /\ FullInv' /\ ShownInv'
  <2>1. Named(request)' = Named(request)
    BY <1>1, SameRequest
  <2>2. next' = 1 /\ sent' = <<>> /\ packet' = <<>>
    BY <1>1 DEF Untouched
  <2>3. NameInv'
    <3>1. 1 .. next' - 1 = {}
      BY <2>2
    <3> QED BY <1>1, <2>1, <3>1 DEF NameInv
  <2>4. FullInv'
    BY <2>2 DEF FullInv
  <2>5. \A i, k : ~ Slot(i, k)'
    BY <2>2 DEF Slot, PageCount, Page
  <2>6. 1 .. next' - 1 = {}
    BY <2>2
  <2> QED BY <2>3, <2>4, <2>5, <2>6 DEF ShownInv
<1>4. ~ IsAnswered'
  BY <1>1 DEF IsAnswered
<1>5. status' # "parsing"
  BY <1>1
<1> QED BY <1>1, <1>2, <1>3, <1>4, <1>5 DEF QueryInv, PacketsAreFull, KnownGameGetsAll,
           UnknownGameGetsOne

\* The game is found when it was not known and the server lends its name.
LEMMA VisitName ==
  ASSUME QueryInv, Visit, NEW n \in Nat, n = next
  PROVE  /\ NameInv' /\ gamename' \in Names \cup {NoName}
         /\ \A m \in 1 .. n - 1 : Eligible(m)' <=> Eligible(m)
         /\ Eligible(n)' <=> PassesFor(visited[n], gamename')
<1>1. /\ NameInv /\ next \in 1 .. Len(visited) /\ next' = next + 1
      /\ UNCHANGED <<request, visited>>
  BY Types DEF QueryInv, Visit
<1>2. PICK s \in Servers : s = visited[next]
  BY <1>1, Types, ElementOfSeq
<1>3. gamename' = IF gamename = NoName /\ Lends(s) THEN Server[s].game ELSE gamename
  BY <1>2 DEF Visit
<1>4. /\ Server[s].game \in Names /\ NoName \notin Names /\ gamename \in Names \cup {NoName}
      /\ next \in Nat
  BY ServerEntry, QueryAssumption, Types DEF QueryInv, TypeOK
<1>5. /\ Named(request)' = Named(request)
      /\ \A x, game : PassesFor(x, game)' <=> PassesFor(x, game)
      /\ \A x : Lends(x)' <=> Lends(x)
  BY <1>1, SameRequest
<1>6. \A m : m \in 1 .. next' - 1 <=> m \in 1 .. next - 1 \/ m = next
  BY <1>1, <1>4
<1>7. NameInv'
  <2>1. CASE Named(request) # NoName
    BY <1>1, <1>3, <1>5, <2>1 DEF NameInv
  <2>2. CASE Named(request) = NoName
    <3>1. (\A m \in 1 .. next' - 1 : ~ Lends(visited[m])) <=>
            (\A m \in 1 .. next - 1 : ~ Lends(visited[m])) /\ ~ Lends(s)
      BY <1>2, <1>6
    <3>2. gamename' = NoName <=> gamename = NoName /\ ~ Lends(s)
      BY <1>3, <1>4
    <3>3. gamename = NoName <=> \A m \in 1 .. next - 1 : ~ Lends(visited[m])
      BY <1>1, <2>2 DEF NameInv
    <3>4. ASSUME NEW m \in 1 .. next' - 1, Lends(visited[m]),
                 \A j \in 1 .. m - 1 : ~ Lends(visited[j])
          PROVE  gamename' = Server[visited[m]].game
      <4>1. CASE m \in 1 .. next - 1
        <5>1. gamename = Server[visited[m]].game
          BY <1>1, <2>2, <3>4, <4>1 DEF NameInv
        <5>2. gamename # NoName
          BY <3>3, <3>4, <4>1
        <5> QED BY <1>3, <5>1, <5>2
      <4>2. CASE m = next
        <5>1. gamename = NoName
          BY <3>3, <3>4, <4>2
        <5> QED BY <1>2, <1>3, <3>4, <4>2, <5>1
      <4> QED BY <1>6, <4>1, <4>2
    <3>5. \A m : Lends(visited[m])' <=> Lends(visited[m])
      BY <1>1, <1>5
    <3>6. gamename' = NoName <=> \A m \in 1 .. next' - 1 : ~ Lends(visited[m])
      BY <3>1, <3>2, <3>3
    <3> QED BY <1>1, <1>5, <2>2, <3>4, <3>5, <3>6 DEF NameInv
  <2> QED BY <2>1, <2>2
<1>8. ASSUME NEW m \in 1 .. n - 1 PROVE Eligible(m)' <=> Eligible(m)
  <2>1. visited[m] \in Servers
    BY <1>1, <1>4, Types, ElementOfSeq
  <2>2. Server[visited[m]].game # NoName
    BY <2>1, ServerEntry
  <2>3. CASE gamename' = gamename
    BY <1>1, <1>5, <2>3 DEF Eligible
  <2>4. CASE gamename' # gamename
    <3>1. gamename = NoName /\ Named(request) = NoName
      BY <1>1, <1>3, <2>4 DEF NameInv
    <3>2. \A j \in 1 .. m : ~ Lends(visited[j])
      <4>1. \A j \in 1 .. m : j \in 1 .. n - 1
        BY <1>4
      <4> QED BY <1>1, <3>1, <4>1 DEF NameInv
    <3>3. ~ Eligible(m)
      BY <3>1, <3>2 DEF Eligible
    <3>4. ~ Eligible(m)'
      BY <1>1, <1>5, <3>1, <3>2 DEF Eligible
    <3> QED BY <3>3, <3>4
  <2> QED BY <2>3, <2>4
<1>9. Eligible(n)' <=> PassesFor(visited[n], gamename')
  <2>1. ASSUME PassesFor(s, gamename'), Named(request) = NoName
        PROVE  \E j \in 1 .. n : Lends(visited[j])
    <3>1. gamename' # NoName
      BY <1>4, <2>1 DEF PassesFor
    <3>2. CASE Lends(s)
      BY <1>1, <1>2, <3>2
    <3>3. CASE ~ Lends(s)
      <4>1. PICK j \in 1 .. n - 1 : Lends(visited[j])
        BY <1>1, <1>3, <2>1, <3>1, <3>3 DEF NameInv
      <4>2. j \in 1 .. n
        BY <1>4
      <4> QED BY <4>1, <4>2
    <3> QED BY <3>2, <3>3
  <2>2. Eligible(n)' <=>
          /\ PassesFor(visited[n], gamename')
          /\ Named(request) # NoName \/ \E j \in 1 .. n : Lends(visited[j])
    BY <1>1, <1>5 DEF Eligible
  <2> QED BY <1>2, <2>1, <2>2
<1>10. gamename' \in Names \cup {NoName}
  BY <1>3, <1>4
<1> QED BY <1>7, <1>8, <1>9, <1>10

\* A server that passes is put behind those that passed before it.
LEMMA VisitShown ==
  ASSUME QueryInv, Visit, NEW n \in Nat, n = next
  PROVE  /\ packet' \in Lists /\ Len(packet') < next'
         /\ SizeOfAll(packet') <= MAX_PACKET_SIZE_OUT
         /\ sent' \in Seq([servers : Lists, eot : BOOLEAN])
         /\ FullInv' /\ ShownInv'
<1>1. /\ FullInv /\ ShownInv /\ n \in 1 .. Len(visited) /\ next' = n + 1
      /\ UNCHANGED <<request, visited>>
  BY Types DEF QueryInv, Visit
<1>2. PICK s \in Servers : s = visited[n]
  BY <1>1, Types, ElementOfSeq
<1>3. /\ \A m \in 1 .. n - 1 : Eligible(m)' <=> Eligible(m)
      /\ Eligible(n)' <=> PassesFor(s, gamename')
  BY <1>2, VisitName
<1>4. \A m : m \in 1 .. next' - 1 <=> m \in 1 .. n - 1 \/ m = n
  BY <1>1
<1>5. CASE PassesFor(s, gamename')
  <2>1. Put(s) /\ Len(packet) < MaxVisited
    <3>1. Put(s)
      BY <1>2, <1>5 DEF Visit
    <3>2. Len(packet) < n /\ n <= Len(visited)
      BY <1>1, Types DEF QueryInv
    <3> QED BY <3>1, <3>2, Types, Sizes
  <2>2. /\ packet' \in Lists /\ Len(packet') <= Len(packet) + 1
        /\ SizeOfAll(packet') <= MAX_PACKET_SIZE_OUT
        /\ sent' \in Seq([servers : Lists, eot : BOOLEAN])
        /\ FullInv'
    BY <1>1, <2>1, PutPages
  <2>3. PICK j, l : /\ Slot(j, l)' /\ Page(j)'[l] = s
                    /\ \A i, k : Slot(i, k)' <=> Slot(i, k) \/ (i = j /\ k = l)
                    /\ \A i, k : Slot(i, k) => /\ Page(i)'[k] = Page(i)[k]
                                               /\ Earlier(i, k, j, l)
    BY <1>1, <2>1, PutPages
  <2>4. Eligible(n)'
    BY <1>3, <1>5
  <2>5. ASSUME NEW i, NEW k, Slot(i, k)'
        PROVE  \E m \in 1 .. next' - 1 : Eligible(m)' /\ Page(i)'[k] = visited[m]
    <3>1. CASE Slot(i, k)
      <4>1. PICK m \in 1 .. n - 1 : Eligible(m) /\ Page(i)[k] = visited[m]
        BY <1>1, <3>1 DEF ShownInv
      <4> QED BY <1>3, <1>4, <2>3, <3>1, <4>1
    <3>2. CASE i = j /\ k = l
      BY <1>2, <1>4, <2>3, <2>4, <3>2
    <3> QED BY <2>3, <2>5, <3>1, <3>2
  <2>6. ASSUME NEW m \in 1 .. next' - 1, Eligible(m)'
        PROVE  \E i, k : Slot(i, k)' /\ Page(i)'[k] = visited[m]
    <3>1. CASE m = n
      BY <1>2, <2>3, <3>1
    <3>2. CASE m \in 1 .. n - 1
      <4>1. PICK i, k : Slot(i, k) /\ Page(i)[k] = visited[m]
        BY <1>1, <1>3, <2>6, <3>2 DEF ShownInv
      <4> QED BY <2>3, <4>1
    <3> QED BY <1>4, <3>1, <3>2
  <2>7. ASSUME NEW i, NEW k, NEW i2, NEW k2,
               Slot(i, k)', Slot(i2, k2)', Earlier(i, k, i2, k2)
        PROVE  ComesBefore(Page(i)'[k], Page(i2)'[k2])
    <3>1. CASE Slot(i, k) /\ Slot(i2, k2)
      <4>1. ComesBefore(Page(i)[k], Page(i2)[k2])
        BY <1>1, <2>7, <3>1 DEF ShownInv
      <4> QED BY <2>3, <3>1, <4>1
    <3>2. CASE Slot(i, k) /\ i2 = j /\ k2 = l
      <4>1. PICK m \in 1 .. n - 1 : Page(i)[k] = visited[m]
        BY <1>1, <3>2 DEF ShownInv
      <4>2. m \in DOMAIN visited /\ n \in DOMAIN visited /\ m < n
        BY <1>1, Types
      <4> QED BY <1>2, <2>3, <3>2, <4>1, <4>2 DEF ComesBefore
    <3>3. CASE i = j /\ k = l
      <4>1. Earlier(i2, k2, j, l) \/ (i2 = j /\ k2 = l)
        BY <2>3, <2>7
      <4>2. i \in Nat /\ k \in Nat /\ i2 \in Nat /\ k2 \in Nat
        <5>1. \A x, y : Slot(x, y)' => x \in Nat /\ y \in Nat
          BY DEF Slot
        <5> QED BY <2>7, <5>1
      <4> QED BY <2>7, <3>3, <4>1, <4>2 DEF Earlier
    <3> QED BY <2>3, <2>7, <3>1, <3>2, <3>3
  <2>8. ShownInv'
    <3>1. visited' = visited
      BY <1>1
    <3>2. \A x, y : ComesBefore(x, y)' <=> ComesBefore(x, y)
      BY <3>1 DEF ComesBefore
    <3> QED BY <2>5, <2>6, <2>7, <3>1, <3>2 DEF ShownInv
  <2>9. Len(packet') < next'
    <3>1. Len(packet) < n /\ Len(packet') \in Nat
      BY <2>2, ListIsSeq DEF QueryInv
    <3> QED BY <1>1, <2>2, <3>1, Types
  <2> QED BY <2>2, <2>8, <2>9
<1>6. CASE ~ PassesFor(s, gamename')
  <2>1. packet' = packet /\ sent' = sent
    BY <1>2, <1>6 DEF Visit
  <2>2. /\ \A i : Page(i)' = Page(i)
        /\ \A i, k : Slot(i, k)' <=> Slot(i, k)
        /\ \A x, y : ComesBefore(x, y)' <=> ComesBefore(x, y)
    BY <1>1, <2>1 DEF Page, Slot, PageCount, ComesBefore
  <2>3. \A m \in 1 .. next' - 1 : Eligible(m)' <=> m \in 1 .. n - 1 /\ Eligible(m)
    BY <1>3, <1>4, <1>6
  <2>4. ShownInv'
    <3>1. ASSUME NEW i, NEW k, Slot(i, k)'
          PROVE  \E m \in 1 .. next' - 1 : Eligible(m)' /\ Page(i)'[k] = visited'[m]
      <4>1. PICK m \in 1 .. n - 1 : Eligible(m) /\ Page(i)[k] = visited[m]
        BY <1>1, <2>2, <3>1 DEF ShownInv
      <4> QED BY <1>1, <1>3, <1>4, <2>2, <4>1
    <3>2. ASSUME NEW m \in 1 .. next' - 1, Eligible(m)'
          PROVE  \E i, k : Slot(i, k)' /\ Page(i)'[k] = visited'[m]
      <4>1. PICK i, k : Slot(i, k) /\ Page(i)[k] = visited[m]
        BY <1>1, <2>3, <3>2 DEF ShownInv
      <4> QED BY <1>1, <2>2, <4>1
    <3>3. \A i, k, j, l : Slot(i, k)' /\ Slot(j, l)' /\ Earlier(i, k, j, l) =>
            ComesBefore(Page(i)[k], Page(j)[l])'
      BY <1>1, <2>2 DEF ShownInv
    <3> QED BY <3>1, <3>2, <3>3 DEF ShownInv
  <2>5. FullInv'
    BY <1>1, <2>1, <2>2 DEF FullInv
  <2>6. SizeOfAll(packet') <= MAX_PACKET_SIZE_OUT /\ Len(packet') < next'
    BY <1>1, <2>1, Types DEF QueryInv, TypeOK
  <2> QED BY <2>1, <2>4, <2>5, <2>6, Types
<1> QED BY <1>5, <1>6

\* The loop goes on to the next server.
LEMMA VisitInv == ASSUME QueryInv, Visit PROVE QueryInv'
<1>1. PICK n \in Nat : n = next
  BY Types
<1>2. /\ packet' \in Lists /\ Len(packet') < next' /\ SizeOfAll(packet') <= MAX_PACKET_SIZE_OUT
      /\ sent' \in Seq([servers : Lists, eot : BOOLEAN])
      /\ FullInv' /\ ShownInv'
  BY <1>1, VisitShown
<1>3. NameInv' /\ gamename' \in Names \cup {NoName}
  BY <1>1, VisitName
<1>4. /\ status = "running" /\ UNCHANGED <<request, visited, status>>
      /\ n \in 1 .. Len(visited) /\ next' = n + 1
  BY <1>1, Types DEF Visit, QueryInv
<1>5. next' \in 1 .. Len(visited) + 1 /\ next' \in 1 .. MaxVisited + 1
  BY <1>4, Types, Sizes
<1>6. TypeOK'
  BY <1>2, <1>3, <1>4, <1>5 DEF QueryInv, TypeOK, Lists, Iterations
<1>7. ~ IsAnswered' /\ status' = "running"
  BY <1>4 DEF IsAnswered
<1> QED BY <1>2, <1>3, <1>4, <1>5, <1>6, <1>7 DEF QueryInv, PacketsAreFull, KnownGameGetsAll,
           UnknownGameGetsOne

\* The packets of the answer are the pages, and one for the mark alone when the
\* last of them has no room for it.
LEMMA FinishPages ==
  ASSUME QueryInv, Finish, NEW p \in Nat, p = PageCount
  PROVE  /\ sent' \in Seq([servers : Lists, eot : BOOLEAN])
         /\ Len(sent') \in {p, p + 1} /\ DOMAIN sent' = 1 .. Len(sent')
         /\ \A i \in 1 .. p : sent'[i].servers = Page(i)
         /\ \A i \in 1 .. Len(sent') : sent'[i].eot <=> i = Len(sent')
         /\ Len(sent') = p => HasRoom(EOTSize)
         /\ Len(sent') = p + 1 => /\ ~ HasRoom(EOTSize) /\ packet # <<>>
                                  /\ sent'[p + 1].servers = <<>>
<1> DEFINE Packets == [servers : Lists, eot : BOOLEAN]
<1>1. /\ FullInv /\ sent \in Seq(Packets) /\ packet \in Lists /\ p = Len(sent) + 1
      /\ Len(sent) \in Nat
  BY Types DEF QueryInv, Finish, PageCount
<1>2. /\ [servers |-> packet, eot |-> TRUE] \in Packets
      /\ [servers |-> packet, eot |-> FALSE] \in Packets
      /\ [servers |-> <<>>, eot |-> TRUE] \in Packets
  <2>1. <<>> \in Seq(Servers) /\ Len(<<>>) = 0 /\ 0 <= MaxVisited
    BY SizeOfFirst, Sizes
  <2>2. <<>> \in Lists
    BY <2>1, ListIsSeq
  <2> QED BY <1>1, <2>2
<1>3. \A i \in 1 .. p : Page(i) = IF i = p THEN packet ELSE sent[i].servers
  BY DEF Page
<1>4. \A i \in 1 .. p : i # p => i \in 1 .. Len(sent)
  BY <1>1
<1>5. \A i \in 1 .. Len(sent) : ~ sent[i].eot
  BY <1>1 DEF FullInv
<1>6. CASE HasRoom(EOTSize)
  <2>1. sent' = Append(sent, [servers |-> packet, eot |-> TRUE])
    BY <1>6 DEF Finish
  <2> HIDE DEF Packets
  <2>2. /\ sent' \in Seq(Packets) /\ Len(sent') = p
        /\ sent'[p] = [servers |-> packet, eot |-> TRUE]
        /\ \A i \in 1 .. Len(sent) : sent'[i] = sent[i]
    BY <1>1, <1>2, <2>1, AppendProperties
  <2>3. DOMAIN sent' = 1 .. Len(sent')
    BY <2>2
  <2>4. \A i \in 1 .. p : sent'[i].servers = Page(i)
    BY <1>3, <1>4, <2>2
  <2>5. \A i \in 1 .. p : sent'[i].eot <=> i = p
    BY <1>4, <1>5, <2>2
  <2>6. Len(sent') # p + 1
    BY <2>2
  <2> QED BY <1>6, <2>2, <2>3, <2>4, <2>5, <2>6 DEF Packets
<1>7. CASE ~ HasRoom(EOTSize)
  <2>1. PICK q : q = Sending(packet)
    OBVIOUS
  <2>2. sent' = Append(q, [servers |-> <<>>, eot |-> TRUE])
    BY <1>7, <2>1 DEF Finish
  <2> HIDE DEF Packets
  <2>3. /\ q \in Seq(Packets) /\ Len(q) = p
        /\ q[p] = [servers |-> packet, eot |-> FALSE]
        /\ \A i \in 1 .. Len(sent) : q[i] = sent[i]
    BY <1>1, <1>2, <2>1, AppendProperties DEF Sending
  <2>4. /\ sent' \in Seq(Packets) /\ Len(sent') = p + 1
        /\ sent'[p + 1] = [servers |-> <<>>, eot |-> TRUE]
        /\ \A i \in 1 .. p : sent'[i] = q[i]
    BY <1>2, <2>2, <2>3, AppendProperties
  <2>5. DOMAIN sent' = 1 .. Len(sent')
    BY <2>4
  <2>6. \A i \in 1 .. p : sent'[i].servers = Page(i)
    BY <1>3, <1>4, <2>3, <2>4
  <2>7. \A i \in 1 .. p : ~ sent'[i].eot
    BY <1>4, <1>5, <2>3, <2>4
  <2>8. \A i \in 1 .. p + 1 : sent'[i].eot <=> i = p + 1
    BY <2>4, <2>7
  <2>9. packet # <<>>
    BY <1>7, SizeOfFirst, Sizes DEF HasRoom, EOTSize
  <2>10. Len(sent') # p
    BY <2>4
  <2> QED BY <1>7, <2>4, <2>5, <2>6, <2>8, <2>9, <2>10 DEF Packets
<1> QED BY <1>6, <1>7

\* The packets of the answer hold what the pages held.
LEMMA FinishSlots ==
  ASSUME QueryInv, Finish
  PROVE  \A i, k : /\ i \in DOMAIN sent' /\ k \in DOMAIN sent'[i].servers <=> Slot(i, k)
                   /\ Slot(i, k) => sent'[i].servers[k] = Page(i)[k]
<1>1. PICK p \in Nat : p = PageCount
  BY Types DEF PageCount
<1>2. /\ DOMAIN sent' = 1 .. Len(sent') /\ Len(sent') \in {p, p + 1}
      /\ \A i \in 1 .. p : sent'[i].servers = Page(i)
      /\ Len(sent') = p + 1 => sent'[p + 1].servers = <<>>
  BY <1>1, FinishPages
<1>3. PICK r \in {p, p + 1} : r = Len(sent') /\ DOMAIN sent' = 1 .. r
  BY <1>2
<1>4. ASSUME NEW i, NEW k
      PROVE  i \in DOMAIN sent' /\ k \in DOMAIN sent'[i].servers <=> Slot(i, k)
  <2>1. CASE i \in 1 .. p
    <3>1. Page(i) \in Seq(Servers)
      BY <1>1, <2>1, Types
    <3>2. DOMAIN Page(i) = 1 .. Len(Page(i))
      BY <3>1
    <3>3. sent'[i].servers = Page(i)
      BY <1>2, <2>1
    <3>4. i \in DOMAIN sent'
      BY <1>3, <2>1
    <3> QED BY <1>1, <2>1, <3>2, <3>3, <3>4 DEF Slot
  <2>2. CASE i \notin 1 .. p
    <3>1. ASSUME i \in DOMAIN sent' PROVE sent'[i].servers = <<>>
      <4>1. r = p + 1 /\ i = p + 1
        BY <1>3, <2>2, <3>1
      <4> QED BY <1>2, <1>3, <4>1
    <3>2. DOMAIN <<>> = {}
      OBVIOUS
    <3> QED BY <1>1, <2>2, <3>1, <3>2 DEF Slot
  <2> QED BY <2>1, <2>2
<1>5. \A i, k : Slot(i, k) => sent'[i].servers[k] = Page(i)[k]
  BY <1>1, <1>2 DEF Slot
<1> QED BY <1>4, <1>5

\* The packets fit and are full.
LEMMA FinishFull == ASSUME QueryInv, Finish PROVE PacketsAreFull'
<1>1. PICK p \in Nat : p = PageCount
  BY Types DEF PageCount
<1>2. /\ Len(sent') \in {p, p + 1} /\ DOMAIN sent' = 1 .. Len(sent')
      /\ \A i \in 1 .. p : sent'[i].servers = Page(i)
      /\ \A i \in 1 .. Len(sent') : sent'[i].eot <=> i = Len(sent')
      /\ Len(sent') = p => HasRoom(EOTSize)
      /\ Len(sent') = p + 1 => /\ ~ HasRoom(EOTSize) /\ packet # <<>>
                               /\ sent'[p + 1].servers = <<>>
  BY <1>1, FinishPages
<1> PICK r \in {p, p + 1} : r = Len(sent')
  BY <1>2
<1>3. FullInv /\ Page(p) = packet /\ p = Len(sent) + 1 /\ Len(sent) \in Nat
  BY <1>1, Types DEF QueryInv, Finish, Page, PageCount
<1>4. \A i \in 1 .. p : Page(i) \in Seq(Servers) /\ SizeOfAll(Page(i)) \in Nat
  <2>1. ASSUME NEW q \in Seq(Servers) PROVE SizeOfAll(q) \in Nat
    <3>1. /\ Cardinality(Records(q, "ipv4")) \in Nat /\ Cardinality(Records(q, "ipv6")) \in Nat
      BY RecordsFinite
    <3> QED BY <3>1, Sizes DEF SizeOfAll
  <2> QED BY <1>1, <2>1, Types
<1>5. SizeOfAll(packet) <= MAX_PACKET_SIZE_OUT
  BY DEF QueryInv, TypeOK
<1>6. SizeOfAll(<<>>) + EOTSize <= MAX_PACKET_SIZE_OUT
  BY SizeOfFirst, Sizes DEF EOTSize
<1>7. HasRoom(EOTSize) <=> SizeOfAll(packet) + EOTSize <= MAX_PACKET_SIZE_OUT
  BY DEF HasRoom
<1>8. ASSUME NEW i \in 1 .. r
      PROVE  PacketSize(sent'[i]) <= MAX_PACKET_SIZE_OUT
  <2>1. PacketSize(sent'[i]) = SizeOfAll(sent'[i].servers) + (IF i = Len(sent') THEN EOTSize ELSE 0)
    BY <1>2 DEF PacketSize
  <2>2. CASE i = r
    <3>1. CASE r = p
      <4>1. p \in 1 .. p
        BY <1>3
      <4> QED BY <1>2, <1>3, <1>7, <2>1, <2>2, <3>1, <4>1
    <3>2. CASE r = p + 1
      BY <1>2, <1>6, <2>1, <2>2, <3>2
    <3> QED BY <1>2, <3>1, <3>2
  <2>3. CASE i # r
    <3>1. i \in 1 .. p
      BY <2>3
    <3>2. SizeOfAll(Page(i)) <= MAX_PACKET_SIZE_OUT
      <4>1. CASE i = p
        BY <1>3, <1>5, <4>1
      <4>2. CASE i # p
        <5>1. i \in 1 .. Len(sent)
          BY <1>3, <3>1, <4>2
        <5> QED BY <1>3, <5>1 DEF FullInv
      <4> QED BY <4>1, <4>2
    <3>3. PacketSize(sent'[i]) = SizeOfAll(Page(i)) + 0
      BY <1>2, <2>1, <2>3, <3>1
    <3> QED BY <1>4, <3>1, <3>2, <3>3
  <2> QED BY <2>2, <2>3
<1>9. ASSUME NEW i \in 1 .. r, i < r
      PROVE  /\ sent'[i].servers # <<>>
             /\ PacketSize(sent'[i]) + Following(i)' > MAX_PACKET_SIZE_OUT
  <2>1. i \in 1 .. p /\ i # r /\ i + 1 \in 1 .. r
    BY <1>9
  <2>2. sent'[i].servers = Page(i) /\ PacketSize(sent'[i]) = SizeOfAll(Page(i))
    <3>1. PacketSize(sent'[i]) = SizeOfAll(sent'[i].servers) + 0
      BY <1>2, <2>1 DEF PacketSize
    <3>2. sent'[i].servers = Page(i)
      BY <1>2, <2>1
    <3> QED BY <1>4, <2>1, <3>1, <3>2
  <2>3. CASE i = p
    <3>1. r = p + 1
      BY <1>9, <2>3
    <3>3. sent'[i + 1].servers = <<>> /\ ~ HasRoom(EOTSize)
      BY <1>2, <2>3, <3>1
    <3>2. Following(i)' = EOTSize
      BY <3>3 DEF Following
    <3> QED BY <1>2, <1>3, <1>4, <1>7, <2>1, <2>2, <2>3, <3>2, <3>3, Sizes DEF EOTSize
  <2>4. CASE i # p
    <3>1. i \in 1 .. Len(sent) /\ i + 1 \in 1 .. p
      BY <1>3, <2>1, <2>4
    <3>2. Page(i) # <<>> /\ Page(i + 1) # <<>>
          /\ SizeOfAll(Page(i)) + SizeOf(Page(i + 1)[1]) > MAX_PACKET_SIZE_OUT
      BY <1>3, <3>1 DEF FullInv
    <3>3. sent'[i + 1].servers = Page(i + 1)
      BY <1>2, <3>1
    <3>4. Following(i)' = SizeOf(Head(Page(i + 1)))
      BY <3>2, <3>3 DEF Following
    <3>5. Head(Page(i + 1)) = Page(i + 1)[1]
      BY <1>4, <3>1, <3>2
    <3> QED BY <2>2, <3>2, <3>4, <3>5
  <2> QED BY <2>3, <2>4
<1>10. \A i \in DOMAIN sent' :
         /\ PacketSize(sent[i])' <= MAX_PACKET_SIZE_OUT
         /\ sent'[i].eot <=> i = Len(sent')
         /\ i < Len(sent') => /\ sent'[i].servers # <<>>
                              /\ PacketSize(sent[i])' + Following(i)' > MAX_PACKET_SIZE_OUT
  <2>1. \A i : PacketSize(sent[i])' = PacketSize(sent'[i])
    BY DEF PacketSize, SizeOfAll, Records
  <2> QED BY <1>2, <1>8, <1>9, <2>1
<1> QED BY <1>10 DEF PacketsAreFull

\* The reply is what the pages showed.
LEMMA FinishReply ==
  ASSUME QueryInv, Finish
  PROVE  /\ InOrder'
         /\ \A s : s \in Reply' <=>
                     \E m \in DOMAIN visited : Eligible(m) /\ s = visited[m]
<1>1. /\ ShownInv /\ UNCHANGED visited /\ 1 .. next - 1 = DOMAIN visited
  <2>1. next \in 1 .. Len(visited) + 1 /\ next > Len(visited)
    BY DEF QueryInv, Finish
  <2>2. next - 1 = Len(visited)
    BY <2>1, Types
  <2> QED BY <2>2, Types DEF QueryInv, Finish
<1>2. \A i, k : /\ i \in DOMAIN sent' /\ k \in DOMAIN sent'[i].servers <=> Slot(i, k)
                /\ Slot(i, k) => sent'[i].servers[k] = Page(i)[k]
  BY FinishSlots
<1>3. InOrder'
  <2>1. \A x, y : ComesBefore(x, y)' <=> ComesBefore(x, y)
    BY <1>1 DEF ComesBefore
  <2>2. \A i, k, j, l : Slot(i, k) /\ Slot(j, l) /\ Earlier(i, k, j, l) =>
          ComesBefore(sent'[i].servers[k], sent'[j].servers[l])
    BY <1>1, <1>2 DEF ShownInv
  <2>3. \A i, j \in DOMAIN sent' :
          \A k \in DOMAIN sent'[i].servers, l \in DOMAIN sent'[j].servers :
            Earlier(i, k, j, l) => ComesBefore(sent'[i].servers[k], sent'[j].servers[l])
    BY <1>2, <2>2
  <2> QED BY <2>1, <2>3 DEF InOrder, Earlier
<1>4. ASSUME NEW s
      PROVE  s \in Reply' <=> \E i, k : Slot(i, k) /\ s = Page(i)[k]
  <2>1. s \in Reply' <=>
          \E i \in DOMAIN sent' : \E k \in DOMAIN sent'[i].servers : s = sent'[i].servers[k]
    BY DEF Reply, ToSet
  <2> QED BY <1>2, <2>1
<1>5. ASSUME NEW s
      PROVE  (\E i, k : Slot(i, k) /\ s = Page(i)[k]) <=>
               \E m \in DOMAIN visited : Eligible(m) /\ s = visited[m]
  <2>1. ASSUME NEW i, NEW k, Slot(i, k)
        PROVE  \E m \in DOMAIN visited : Eligible(m) /\ Page(i)[k] = visited[m]
    <3>1. PICK m \in 1 .. next - 1 : Eligible(m) /\ Page(i)[k] = visited[m]
      BY <1>1, <2>1 DEF ShownInv
    <3> QED BY <1>1, <3>1
  <2>2. \A m \in DOMAIN visited : Eligible(m) => \E i, k : Slot(i, k) /\ Page(i)[k] = visited[m]
    BY <1>1 DEF ShownInv
  <2> QED BY <2>1, <2>2
<1> QED BY <1>3, <1>4, <1>5

\* The answer is complete.
LEMMA FinishInv == ASSUME QueryInv, Finish PROVE QueryInv'
<1>1. /\ NameInv /\ UNCHANGED <<request, visited, next, gamename>> /\ packet' = <<>>
      /\ status' = "answered" /\ 1 .. next - 1 = DOMAIN visited
  <2>1. next \in 1 .. Len(visited) + 1 /\ next > Len(visited)
    BY DEF QueryInv, Finish
  <2>2. next - 1 = Len(visited)
    BY <2>1, Types
  <2> QED BY <2>2, Types DEF QueryInv, Finish
<1>2. /\ Named(request)' = Named(request)
      /\ \A s, game : PassesFor(s, game)' <=> PassesFor(s, game)
      /\ \A s : Lends(s)' <=> Lends(s)
  BY <1>1, SameRequest
<1>3. /\ InOrder'
      /\ \A s : s \in Reply' <=> \E m \in DOMAIN visited : Eligible(m) /\ s = visited[m]
  BY FinishReply
<1>4. \A s, game : PassesFor(s, game) => Validated(s)
  BY DEF PassesFor, Comparable, Validated
<1>5. TypeOK'
  <2>1. packet' \in Seq(Servers) /\ Len(packet') = 0 /\ 0 <= MaxVisited
        /\ SizeOfAll(packet') <= MAX_PACKET_SIZE_OUT
    BY <1>1, SizeOfFirst, Sizes
  <2>2. packet' \in Lists
    BY <2>1, ListIsSeq
  <2>3. sent' \in Seq([servers : Lists, eot : BOOLEAN])
    <3>1. PICK p \in Nat : p = PageCount
      BY Types DEF PageCount
    <3> QED BY <3>1, FinishPages
  <2> QED BY <1>1, <2>1, <2>2, <2>3 DEF QueryInv, TypeOK, Lists, Iterations
<1>6. KnownGameGetsAll'
  <2> SUFFICES ASSUME Named(request) # NoName
               PROVE  Reply' = {s \in ToSet(visited) : Validated(s)
                                                        /\ PassesFor(s, Named(request))}
    BY <1>1, <1>2, <1>3 DEF KnownGameGetsAll, Validated
  <2>1. gamename = Named(request)
    BY <1>1 DEF NameInv
  <2>2. \A m : Eligible(m) <=> PassesFor(visited[m], Named(request))
    BY <2>1 DEF Eligible
  <2>3. \A s : s \in Reply' <=> \E m \in DOMAIN visited :
                                  PassesFor(visited[m], Named(request)) /\ s = visited[m]
    BY <1>3, <2>2
  <2>4. \A s : s \in ToSet(visited) <=> \E m \in DOMAIN visited : s = visited[m]
    BY DEF ToSet
  <2> QED BY <1>4, <2>3, <2>4
<1>7. UnknownGameGetsOne'
  <2>1. \A s : MayLend(s) <=> Lends(s)
    BY DEF MayLend, Lends, Comparable, Validated
  <2>2. /\ \A s : MayLend(s)' <=> MayLend(s)
        /\ \A m : IsLender(m)' <=> IsLender(m)
    BY <1>1 DEF MayLend, IsLender, Validated
  <2> SUFFICES ASSUME Named(request) = NoName
               PROVE  /\ \A m \in DOMAIN visited : IsLender(m) =>
                           Reply' = {visited[n] : n \in {k \in m .. Len(visited) :
                                       /\ Validated(visited[k])
                                       /\ PassesFor(visited[k], Server[visited[m]].game)}}
                      /\ (\A m \in DOMAIN visited : ~ MayLend(visited[m])) => Reply' = {}
    BY <1>1, <1>2, <1>3, <2>2 DEF UnknownGameGetsOne, Validated
  <2>3. ASSUME NEW m \in DOMAIN visited, IsLender(m)
        PROVE  Reply' = {visited[n] : n \in {k \in m .. Len(visited) :
                           /\ Validated(visited[k])
                           /\ PassesFor(visited[k], Server[visited[m]].game)}}
    <3>1. Lends(visited[m]) /\ \A j \in 1 .. m - 1 : ~ Lends(visited[j])
      BY <2>1, <2>3 DEF IsLender
    <3>2. gamename = Server[visited[m]].game
      BY <1>1, <3>1 DEF NameInv
    <3>3. ASSUME NEW n \in DOMAIN visited
          PROVE  (\E j \in 1 .. n : Lends(visited[j])) <=> n \in m .. Len(visited)
      <4>1. n \in 1 .. Len(visited) /\ m \in 1 .. Len(visited) /\ Len(visited) \in Nat
        BY Types
      <4>2. ASSUME NEW j \in 1 .. n, Lends(visited[j]) PROVE n \in m .. Len(visited)
        <5>1. j \notin 1 .. m - 1
          BY <3>1, <4>2
        <5> QED BY <4>1, <5>1
      <4>3. ASSUME n \in m .. Len(visited) PROVE m \in 1 .. n
        BY <4>1, <4>3
      <4> QED BY <3>1, <4>2, <4>3
    <3>4. m .. Len(visited) \subseteq DOMAIN visited
      BY Types
    <3>5. \A n \in DOMAIN visited :
            Eligible(n) <=> /\ n \in m .. Len(visited)
                            /\ PassesFor(visited[n], Server[visited[m]].game)
      BY <3>2, <3>3 DEF Eligible
    <3>6. \A s : s \in Reply' <=>
                   \E n \in m .. Len(visited) :
                     PassesFor(visited[n], Server[visited[m]].game) /\ s = visited[n]
      BY <1>3, <3>4, <3>5
    <3> QED BY <1>4, <3>6
  <2>4. ASSUME \A m \in DOMAIN visited : ~ MayLend(visited[m])
        PROVE  Reply' = {}
    <3>1. \A n \in DOMAIN visited : 1 .. n \subseteq DOMAIN visited
      BY Types
    <3>2. \A n \in DOMAIN visited : ~ Eligible(n)
      BY <2>1, <2>4, <3>1 DEF Eligible
    <3> QED BY <1>3, <3>2
  <2> QED BY <2>3, <2>4
<1>8. next' \in 1 .. Len(visited') + 1 /\ Len(packet') < next'
  BY <1>1, Types DEF QueryInv
<1> QED BY <1>1, <1>5, <1>6, <1>7, <1>8, FinishFull DEF QueryInv

\* The next-state relation, one step per action.
LEMMA NextInv == QueryInv /\ [Next]_vars => QueryInv'
<1>1. ASSUME QueryInv, UNCHANGED vars PROVE QueryInv'
  <2>1. TypeOK' /\ Untouched' = Untouched
    BY <1>1 DEF vars, QueryInv, TypeOK, Iterations, Untouched, SizeOfAll, Records
  <2>2. /\ Named(request)' = Named(request)
        /\ \A s, game : PassesFor(s, game)' <=> PassesFor(s, game)
        /\ \A s : Lends(s)' <=> Lends(s)
    BY <1>1, SameRequest DEF vars
  <2>3. NameInv' <=> NameInv
    BY <1>1, <2>2 DEF vars, NameInv
  <2>4. FullInv' <=> FullInv
    BY <1>1 DEF vars, FullInv, Page, PageCount
  <2>5. ShownInv' <=> ShownInv
    <3>1. /\ \A m : Eligible(m)' <=> Eligible(m)
          /\ \A i, k : (Slot(i, k)' <=> Slot(i, k)) /\ Page(i)'[k] = Page(i)[k]
          /\ \A s, t : ComesBefore(s, t)' <=> ComesBefore(s, t)
      BY <1>1, <2>2 DEF vars, Eligible, Slot, Page, PageCount, ComesBefore
    <3>2. UNCHANGED <<visited, next>>
      BY <1>1 DEF vars
    <3> QED BY <3>1, <3>2 DEF ShownInv
  <2>6. PacketsAreFull' <=> PacketsAreFull
    BY <1>1 DEF vars, PacketsAreFull, IsAnswered, PacketSize, Following, SizeOfAll, Records
  <2>7. /\ KnownGameGetsAll' <=> KnownGameGetsAll
        /\ UnknownGameGetsOne' <=> UnknownGameGetsOne
    <3>1. InOrder' <=> InOrder
      BY <1>1 DEF vars, InOrder, ComesBefore
    <3>2. /\ \A s : MayLend(s)' <=> MayLend(s)
          /\ \A m : IsLender(m)' <=> IsLender(m)
      BY <1>1 DEF vars, MayLend, IsLender, Validated
    <3>3. Reply' = Reply /\ (IsAnswered' <=> IsAnswered) /\ UNCHANGED <<request, visited>>
      BY <1>1 DEF vars, Reply, IsAnswered
    <3>4. KnownGameGetsAll' <=> KnownGameGetsAll
      BY <2>2, <3>1, <3>3 DEF KnownGameGetsAll, Validated
    <3>5. UnknownGameGetsOne' <=> UnknownGameGetsOne
      BY <2>2, <3>1, <3>2, <3>3 DEF UnknownGameGetsOne, Validated
    <3> QED BY <3>4, <3>5
  <2>8. UNCHANGED <<visited, next, packet, status, gamename>>
    BY <1>1 DEF vars
  <2> QED BY <1>1, <2>1, <2>3, <2>4, <2>5, <2>6, <2>7, <2>8 DEF QueryInv
<1> QED BY <1>1, ParseInv, VisitInv, FinishInv DEF Next

\* The invariant holds in every reachable state.
LEMMA Invariance == Spec => []QueryInv
  BY InitInv, NextInv, PTL DEF Spec

\* The variables have their types, and the packet that is being filled never
\* outgrows its buffer.
THEOREM QueryTypeCorrect == Spec => []TypeOK
<1>1. QueryInv => TypeOK
  BY DEF QueryInv
<1> QED BY <1>1, Invariance, PTL

\* Whatever the servers and the size of a packet, the packets of a reply fit in
\* their buffer, none could have taken what follows it, and only the last one
\* carries the end mark.
THEOREM RepliesArePacked == Spec => []PacketsAreFull
<1>1. QueryInv => PacketsAreFull
  BY DEF QueryInv
<1> QED BY <1>1, Invariance, PTL

\* A client whose game is known gets all the servers that fit its request, once
\* and in order, however many packets they take.
THEOREM KnownGamesAnswered == Spec => []KnownGameGetsAll
<1>1. QueryInv => KnownGameGetsAll
  BY DEF QueryInv
<1> QED BY <1>1, Invariance, PTL

\* A client whose game is not known gets exactly the servers of the lender's game
\* that fit its request, from the lender on, whatever comes before it, and nothing
\* when no server lends its name.
THEOREM UnknownGamesAnswered == Spec => []UnknownGameGetsOne
<1>1. QueryInv => UnknownGameGetsOne
  BY DEF QueryInv
<1> QED BY <1>1, Invariance, PTL
=============================================================================
