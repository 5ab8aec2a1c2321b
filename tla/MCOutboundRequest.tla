------------------------- MODULE MCOutboundRequest -------------------------
(* Addresses at both ends of every reserved block, alone and beside an     *)
(* allowed one, and a few of the public ones next to them.                 *)
EXTENDS OutboundRequest

V4(p) == [family |-> "v4", a |-> p[1], b |-> p[2]]
V6(h) == [family |-> "v6", group |-> h, rest |-> "one"]
Mapped(p) == [family |-> "mapped", a |-> p[1], b |-> p[2]]

Edges ==
    { <<0, 0>>, <<0, 255>>, <<10, 0>>, <<10, 255>>, <<100, 64>>, <<100, 127>>, <<127, 0>>,
      <<127, 255>>, <<169, 254>>, <<172, 16>>, <<172, 31>>, <<172, 32>>, <<192, 168>> }

\* 0, 00fc, 0fe8, fc00, fdff, fe80, febf, fec0
Groups == { 0, 252, 4072, 64512, 65023, 65152, 65215, 65216 }

Public == V4(<<8, 8>>)

MCAnswers ==
    { <<>> }
    \cup { <<V4(p)>> : p \in Edges } \cup { <<V6(h)>> : h \in Groups }
    \cup { <<Mapped(<<8, 8>>)>>, <<Mapped(<<10, 0>>)>>, <<Public>> }
    \cup { <<Public, V4(<<10, 0>>)>>, <<V4(<<10, 0>>), Public>>, <<Public, V6(8193)>> }

MCUrls ==
    { [scheme |-> "http", host |-> Name], [scheme |-> "https", host |-> Name],
      [scheme |-> "ftp", host |-> Name],
      [scheme |-> "http", host |-> Public], [scheme |-> "http", host |-> V4(<<172, 31>>)] }

=============================================================================
