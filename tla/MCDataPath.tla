----------------------------- MODULE MCDataPath ------------------------------
(* Values of the constants of DataPath for TLC. *)
EXTENDS DataProperties

\* Bars relative to the last close, each with its mirror image: a displacement, a small bar,
\* one that opens with a body gap, one that leaves its neighbour's range.
Up(o, h, l, c) == [o |-> o, h |-> h, l |-> l, c |-> c]
Down(s) == [o |-> -s.o, h |-> -s.l, l |-> -s.h, c |-> -s.c]
Big == Up(0, 24, -2, 24)
Small == Up(0, 8, -4, 2)
Jump == Up(2, 8, -2, 6)
Leap == Up(10, 14, 8, 12)
Pin == Up(0, 4, -40, 2)
Spike == Up(0, 20, -2, 2)
ShapeSet == {Big, Small, Jump, Leap} \cup {Down(Big), Down(Small), Down(Jump), Down(Leap)}

\* Series of eight bars: swings, displacements and long wicks two by two, and a swing that
\* stands out of its neighbours, each way.
Motifs == {<<Small, Down(Jump), Jump, Down(Small)>>, <<Down(Small), Down(Small), Big, Small>>,
           <<Small, Small, Down(Big), Down(Leap)>>, <<Pin, Small, Down(Small), Small>>}
Peak == <<Down(Small), Small, Down(Small), Small, Down(Small), Spike, Down(Small), Small>>
Drawn(w) ==
  LET bar[i \in 1 .. Len(w)] == Follow(w[i], IF i = 1 THEN 200 ELSE bar[i - 1].c) IN [i \in 1 .. Len(w) |-> bar[i]]
BeginningSet == {Drawn(v \o w) : v \in Motifs, w \in Motifs} \cup {Drawn(Peak), Drawn([i \in 1 .. 8 |-> Down(Peak[i])])}
=============================================================================
