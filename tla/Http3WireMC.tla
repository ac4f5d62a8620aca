---------------------------- MODULE Http3WireMC ----------------------------
EXTENDS Http3Wire

Letter == 97
Word(n) == [i \in 1 .. n |-> Letter]

\* Published examples of both integer codes (RFC 9000 A.1, RFC 7541 C.1).
ASSUME VarintExamples ==
  /\ WriteQuicVarint(37) = <<37>> /\ WriteQuicVarint(15293) = <<123, 189>>
  /\ WriteQuicVarint(494878333) = <<157, 127, 62, 125>>
  /\ WriteQuicVarint(1073741824) = <<192, 0, 0, 0, 64, 0, 0, 0>>
  /\ \A v \in {0, 63, 64, 16383, 16384, 1073741823, 1073741824} :
       ReadQuicVarint(WriteQuicVarint(v), 1) = [n |-> VarintLength(v), value |-> v]
ASSUME QpackIntExamples ==
  /\ WriteQpackInt(5, 0, 10) = <<10>> /\ WriteQpackInt(5, 0, 1337) = <<31, 154, 10>>
  /\ \A bits \in 3 .. 7, v \in 0 .. 300 :
       ReadQpackInt(WriteQpackInt(bits, 0, v), 1, bits).value = v
ASSUME HuffmanExample ==  \* "302", RFC 7541 C.6.1
  HuffmanEncode(<<51, 48, 50>>) = <<100, 2>>

Hosts == {Word(2)}
Ports == {0, 443, 8443}
\* A path that fills the URL's buffer with the longest port, and one too long for it.
Paths == {<<>>, <<Slash>>, <<Slash>> \o Word(2), <<Slash>> \o Word(127), <<Slash>> \o Word(140)}
Get == <<71, 69, 84>>
Post == <<80, 79, 83, 84>>
MethodTexts == {Get, Post, <<80, 65, 84>>}
\* A POST with a byte after its NUL, a method too long for its buffer, none at all.
OddMethods == {Post \o <<NUL, Letter>>, Word(9), <<>>}
Names == {<<65, Letter>>, Word(1), Word(6), Word(7), Word(8)}
Texts == {<<>>, <<Letter, Colon, Space>>, <<Space>>, <<Letter, NUL, Letter>>}
HeaderLists ==
  {<<>>} \cup {<< <<n, t>> >> : n \in Names, t \in Texts}
  \cup {<< <<Word(1), t>>, <<n, <<>> >> >> : n \in Names, t \in {<<>>, Word(1)}}
  \cup {[i \in 1 .. 6 |-> <<Word(1), Word(k)>>] : k \in {0, 1}}
Bodies == {<<>>, Word(1), Word(70)}

UrlOf(host, port, path) ==
  [secure |-> TRUE,
   rest |-> host \o (IF port = 0 THEN <<>> ELSE <<Colon>> \o MyIntToStr(port)) \o path]
RequestOf(host, port, path, method, headers, body) ==
  [url |-> UrlOf(host, port, path), host |-> host, port |-> port, path |-> path,
   method |-> method, headers |-> headers, body |-> body]

MCRequests ==
  {RequestOf(h, p, q, m, <<>>, b) : h \in Hosts, p \in Ports, q \in Paths, m \in MethodTexts, b \in Bodies}
  \cup {RequestOf(Word(2), 0, <<Slash>>, m, l, Word(1)) : m \in MethodTexts \cup OddMethods, l \in HeaderLists}

Ok == [kind |-> "indexed", idx |-> 25]
Early == [kind |-> "indexed", idx |-> 24]
Late == [kind |-> "indexed", idx |-> 71]
Server == [kind |-> "ref", idx |-> 92, text |-> <<Letter, 49>>, huffman |-> TRUE]
Status(h) == [kind |-> "ref", idx |-> 24, text |-> <<52, 50, 51>>, huffman |-> h]
Spelt(n) == [kind |-> "literal", name |-> Word(n), text |-> Word(40), huffman |-> n = 9]
\* Three letters spelt out before a text with two bytes of UTF-8 after its 64th.
Shifted == [kind |-> "literal", name |-> Word(3), huffman |-> FALSE,
            text |-> Word(31) \o <<Space>> \o Word(32) \o <<216, 182>>]

Fields(lines) == [type |-> HEADERS, lines |-> lines]
Data(n) == [type |-> DATA, bytes |-> [i \in 1 .. n |-> 200 + (i % 50)]]
Grease == [type |-> 33, bytes |-> <<1, 0>>]

PlainGet == RequestOf(Word(2), 0, <<Slash>>, Get, <<>>, <<>>)

\* The plain GET is answered in every way, the others not at all.
MCReplies(r) ==
  {[frames |-> f, short |-> s] :
     f \in {<<Fields(<<Ok>>)>>, <<Fields(<<Late, Server>>), Data(3), Data(2)>>,
            <<Fields(<<Early>>), Fields(<<Status(TRUE), Server>>), Grease, Data(1)>>,
            <<Fields(<<Server, Status(FALSE)>>), Data(70), Fields(<<Server>>)>>,
            <<Fields(<<Ok, Spelt(3)>>), Data(2)>>, <<Fields(<<Ok, Spelt(9)>>), Data(0)>>,
            <<Fields(<<Ok, Shifted>>), Data(1)>>},
     s \in IF r = PlainGet THEN {0, 1, 4} ELSE {}}

AgentText == Word(3)
=============================================================================
