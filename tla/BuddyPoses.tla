----------------------------- MODULE BuddyPoses -----------------------------
\* What the functions of src/firmware/src/buddies/*.cpp paint: eighteen
\* species, each with seven states, as a function of the tick.  A drawing is
\* the pose of the body, where the body is moved to, and the characters that
\* fly around it.  The coordinates are those the species are written in: 135
\* wide, before the scale and the place of the pet are applied.  What the
\* characters are and their colours are left out; "inTables" says whether
\* every table was read inside its bounds.
EXTENDS Integers, Sequences

XCenter == 67
YBase == 30
YOverlay == 6
CharW == 6
CharH == 8

Still == <<>>
Sway == <<-3, 3, -3, 3, 0, 0, -3, 3, -3, 3, 0, 0, 0, 0>>
Hop == <<0, -3, -6, -3, 0, 0, 0, 0, 0, 0, -3, -6, -3, 0, 0, 0>>
Bob == <<0, -1, 0, -1, 0, -1, 0, -1, 0, 0, -1, 0, 0, 0, -1, 0, -1, 0, -1, 0>>
JumpSeq == <<0, 1, 2, 1, 0, 3, 4, 3, 4, 0, 1, 2, 1, 0, 5, 5>>
SwaySeq == <<0, 1, 0, 1, 2, 3, 0, 1, 0, 1, 4, 4, 2, 3>>

Odd(n) == n % 2 = 1
When(condition, cells) == IF condition THEN cells ELSE {}

\* A character: its left upper corner and how many characters long it is.
Over(x, y) == <<XCenter + x, YOverlay + y, 1>>
Low(x, y) == <<XCenter + x, YBase + y, 1>>
Wide(cell) == <<cell[1], cell[2], 3>>

Fits(table, beat) == table = Still \/ beat \in DOMAIN table
Entry(table, beat) == IF table = Still THEN 0
                      ELSE IF beat \in DOMAIN table THEN table[beat] ELSE 0

\* The body at tick t: every "div" ticks the next entry of the sequence, which
\* names one of n poses; xs and ys say how far the body is moved on each beat.
Frame(n, div, t, sequence, xs, ys) ==
  LET beat == ((t \div div) % Len(sequence)) + 1 IN
  [pose |-> sequence[beat], dx |-> Entry(xs, beat), dy |-> Entry(ys, beat),
   inTables |-> sequence[beat] < n /\ Fits(xs, beat) /\ Fits(ys, beat),
   ink |-> {}]
Draw(frame, cells) == [frame EXCEPT !.ink = @ \cup cells]
Shaken(frame, t, pose, amount) ==
  IF frame.pose # pose THEN frame
  ELSE [frame EXCEPT !.dx = IF Odd(t) THEN amount ELSE -amount]
Nodding(frame, t, pose) ==
  IF frame.pose = pose /\ Odd(t) THEN [frame EXCEPT !.dy = 1] ELSE frame

\* The stars of a dizzy pet, on an ellipse; the chonk's is wider.
Around(xs, ys, t, offsets, y) ==
  LET Step(o) == ((t + o) % 8) + 1 IN
  {Over(xs[Step(o)] - 2, y + ys[Step(o)]) : o \in offsets}
Stars(t, offsets, y) ==
  Around(<<0, 5, 7, 5, 0, -5, -7, -5>>, <<-5, -3, 0, 3, 5, 3, 0, -3>>,
         t, offsets, y)
WideStars(t, offsets, y) ==
  Around(<<0, 6, 9, 6, 0, -6, -9, -6>>, <<-6, -4, 0, 4, 6, 4, 0, -4>>,
         t, offsets, y)

\* Hearts that rise and confetti that falls, dropped near the edges.
Hearts(t, n, step, cycle, x0) ==
  LET Phase(i) == (t + i * step) % cycle
      Heart(i) == <<XCenter - x0 + i * 8 + ((Phase(i) \div 3) % 2) * 2 - 1,
                    YOverlay + 16 - Phase(i), 1>>
  IN {Heart(i) : i \in {j \in 0..n - 1 : Heart(j)[2] \in -2..YBase}}
Confetti(t, n, step, cycle, x0, dx, y0, low) ==
  LET Y(i) == YOverlay - y0 + ((t * 2 + i * step) % cycle)
  IN {<<XCenter - x0 + i * dx, Y(i), 1>> :
        i \in {j \in 0..n - 1 : Y(j) \in 0..YBase + low}}

CapybaraSleep(t) ==
  LET p1 == t % 10
      p2 == (t + 4) % 10
      p3 == (t + 7) % 10
  IN  Draw(Frame(6, 5, t, <<0, 1, 0, 1, 0, 1, 2, 1, 0, 1, 0, 1, 3, 4, 3, 4,
           3, 4, 3, 3, 1, 5, 1, 1>>, Still, Still),
           {Over(20 + p1, 18 - p1 * 2), Over(26 + p2, 14 - p2),
             Over(16 + p3 \div 2, 10 - p3 \div 2)})
CapybaraIdle(t) ==
  Frame(10, 5, t, <<0, 0, 0, 1, 0, 2, 0, 4, 0, 5, 0, 0, 6, 7, 6, 7, 0, 0,
    3, 3, 0, 4, 8, 8, 0, 0, 9, 9, 0, 0>>, Still, Still)
CapybaraBusy(t) ==
  Draw(Frame(6, 5, t, <<0, 1, 0, 1, 0, 1, 2, 2, 0, 1, 0, 1, 3, 3, 2, 4, 0, 1,
       0, 1, 5>>, Still, Still),
       {Wide(Over(22, 14))})
CapybaraAttention(t) ==
  Draw(Shaken(Frame(6, 5, t, <<0, 4, 0, 1, 0, 2, 0, 3, 4, 4, 0, 1, 2, 0, 5,
       0>>, Still, Still), t, 4, 1),
       When(Odd(t \div 2), {Over(-4, 0)})
         \cup When(Odd(t \div 3), {Over(4, 4)}))
CapybaraCelebrate(t) ==
  Draw(Frame(6, 3, t, JumpSeq, Still, Hop),
       Confetti(t, 6, 11, 22, 36, 14, 6, 20))
CapybaraDizzy(t) ==
  Draw(Frame(5, 4, t, SwaySeq, Sway, Still),
       Stars(t, {0, 4}, 6))
CapybaraHeart(t) ==
  Draw(Frame(5, 5, t, <<0, 0, 1, 0, 2, 2, 0, 1, 0, 4, 0, 0, 3, 3, 0, 1, 0, 2,
       1, 0>>, Still, Bob),
       Hearts(t, 5, 4, 16, 20))
DuckSleep(t) ==
  LET p1 == t % 10
      p2 == (t + 4) % 10
      p3 == (t + 7) % 10
  IN  Draw(Frame(6, 5, t, <<0, 0, 1, 0, 1, 2, 1, 0, 1, 0, 1, 3, 3, 4, 4, 3,
           4, 0, 0, 1, 5, 1, 1>>, Still, Still),
           {Over(18 + p1, 18 - p1 * 2), Over(24 + p2, 14 - p2),
             Over(14 + p3 \div 2, 10 - p3 \div 2)})
DuckIdle(t) ==
  Frame(10, 5, t, <<0, 0, 0, 1, 0, 2, 0, 4, 0, 5, 0, 0, 6, 7, 6, 7, 0, 0,
    3, 3, 0, 4, 8, 0, 8, 0, 9, 9, 0, 0>>, Still, Still)
DuckBusy(t) ==
  Draw(Frame(6, 5, t, <<0, 1, 0, 1, 0, 1, 5, 5, 0, 1, 0, 1, 2, 3, 3, 2, 4, 4,
       0, 1, 0, 1, 5>>, Still, Still),
       {Wide(Over(22, 14))})
DuckAttention(t) ==
  Draw(Shaken(Frame(6, 5, t, <<0, 5, 0, 1, 0, 2, 0, 3, 4, 4, 0, 1, 2, 0, 5,
       0>>, Still, Still), t, 4, 1),
       When(Odd(t \div 2), {Over(-4, 0)})
         \cup When(Odd(t \div 3), {Over(4, 4)}))
DuckCelebrate(t) ==
  Draw(Frame(6, 3, t, JumpSeq, Still, Hop),
       Confetti(t, 6, 11, 22, 36, 14, 6, 20))
DuckDizzy(t) ==
  Draw(Frame(5, 4, t, SwaySeq, Sway, Still),
       Stars(t, {0, 4}, 6))
DuckHeart(t) ==
  Draw(Frame(5, 5, t, <<0, 0, 1, 0, 2, 2, 0, 1, 0, 4, 0, 0, 3, 3, 0, 1, 0, 2,
       1, 0>>, Still, Bob),
       Hearts(t, 5, 4, 16, 20))
GooseSleep(t) ==
  LET p1 == t % 10
      p2 == (t + 4) % 10
      p3 == (t + 7) % 10
  IN  Draw(Frame(6, 5, t, <<0, 1, 0, 1, 0, 1, 2, 1, 0, 1, 0, 3, 4, 4, 4, 1,
           0, 1, 2, 2, 0, 1, 5, 1>>, Still, Still),
           {Over(18 + p1, 18 - p1 * 2), Over(24 + p2, 14 - p2),
             Over(14 + p3 \div 2, 10 - p3 \div 2)})
GooseIdle(t) ==
  Frame(10, 5, t, <<0, 0, 4, 0, 1, 0, 2, 0, 7, 8, 7, 8, 0, 0, 3, 0, 4, 5,
    5, 0, 6, 6, 0, 0, 9, 9, 0, 4, 0>>, Still, Still)
GooseBusy(t) ==
  Draw(Frame(6, 5, t, <<0, 1, 0, 1, 0, 1, 3, 3, 0, 1, 0, 1, 2, 2, 4, 4, 0, 1,
       5, 5, 0>>, Still, Still),
       {Wide(Over(22, 14))})
GooseAttention(t) ==
  Draw(Shaken(Shaken(Frame(6, 5, t, <<0, 3, 0, 1, 0, 2, 0, 3, 4, 4, 0, 1, 2,
       0, 5, 0>>, Still, Still), t, 4, 2), t, 3, 1),
       When(Odd(t \div 2), {Over(-6, 0)})
         \cup When(Odd(t \div 3), {Over(6, 4)})
         \cup When(Odd(t \div 4), {Over(14, 8)}))
GooseCelebrate(t) ==
  Draw(Frame(6, 3, t, JumpSeq, Still, <<0, -3, -7, -3, 0, 0, 0, 0, 0, 0, -3,
       -7, -3, 0, 0, 0>>),
       Confetti(t, 7, 9, 22, 40, 12, 6, 20))
GooseDizzy(t) ==
  Draw(Frame(5, 4, t, SwaySeq, Sway, Still),
       Stars(t, {0, 4, 2}, 6))
GooseHeart(t) ==
  Draw(Frame(5, 5, t, <<0, 0, 1, 0, 2, 2, 0, 1, 0, 4, 0, 0, 3, 3, 0, 1, 0, 2,
       1, 0>>, Still, Bob),
       Hearts(t, 5, 4, 16, 20))
BlobSleep(t) ==
  LET p1 == t % 10
      p2 == (t + 4) % 10
      p3 == (t + 7) % 10
      dphase == (t \div 2) % 12
  IN  Draw(Frame(6, 5, t, <<0, 1, 2, 1, 0, 1, 2, 1, 0, 4, 4, 0, 1, 2, 5, 2,
           1, 3, 3, 0, 0, 1, 2, 1, 0>>, Still, Still),
           {Over(20 + p1, 18 - p1 * 2), Over(26 + p2, 14 - p2),
             Over(16 + p3 \div 2, 10 - p3 \div 2), Low(-6, 26 + dphase)})
BlobIdle(t) ==
  Frame(10, 5, t, <<1, 2, 1, 0, 1, 2, 1, 3, 1, 4, 1, 5, 2, 2, 8, 8, 2, 6,
    7, 6, 7, 1, 1, 2, 9, 9, 1, 1, 3, 4, 3, 4, 1, 5, 1, 0, 0, 2, 2>>, Still,
    Still)
BlobBusy(t) ==
  LET b == (t \div 2) % 8
  IN  Draw(Frame(6, 5, t, <<0, 1, 0, 1, 0, 1, 2, 2, 0, 1, 0, 1, 3, 3, 4, 4,
           0, 1, 5, 5, 2>>, Still, Still),
           {Wide(Over(22, 14)), Over(-2, 18 - b)})
BlobAttention(t) ==
  Draw(Shaken(Frame(7, 5, t, <<0, 4, 0, 1, 0, 2, 0, 3, 4, 4, 0, 1, 2, 0, 5,
       3, 0, 0, 6, 0>>, Still, Still), t, 4, 1),
       When(Odd(t \div 2), {Over(-8, -4)})
         \cup When(Odd(t \div 3), {Over(8, 0)})
         \cup When(Odd(t \div 4), {Over(0, -8)}))
BlobCelebrate(t) ==
  Draw(Frame(6, 3, t, JumpSeq, Still, <<0, -2, -7, -2, 0, 0, 0, 0, 0, 0, -2,
       -7, -2, 0, 0, 0>>),
       Confetti(t, 6, 11, 22, 36, 14, 6, 20))
BlobDizzy(t) ==
  Draw(Frame(5, 4, t, SwaySeq, Sway, Still),
       Stars(t, {0, 4, 2}, 6))
BlobHeart(t) ==
  Draw(Frame(5, 5, t, <<0, 0, 1, 0, 2, 2, 0, 1, 0, 4, 0, 0, 3, 3, 0, 1, 0, 2,
       1, 0>>, Still, Bob),
       Hearts(t, 5, 4, 16, 20))
CatSleep(t) ==
  LET p1 == t % 12
      p2 == (t + 5) % 12
      p3 == (t + 9) % 12
  IN  Draw(Frame(6, 5, t, <<0, 1, 0, 1, 0, 1, 3, 3, 0, 1, 4, 5, 4, 5, 4, 5,
           2, 2, 0, 1, 0, 1, 5, 5, 4, 4>>, Still, Still),
           {Over(18 + p1, 18 - p1 * 2), Over(24 + p2, 14 - p2),
             Over(14 + p3 \div 2, 8 - p3 \div 2)})
CatIdle(t) ==
  Frame(10, 5, t, <<0, 0, 0, 3, 0, 1, 0, 2, 0, 7, 8, 7, 8, 7, 0, 5, 0, 6,
    0, 4, 4, 0, 9, 9, 9, 0, 0, 3, 0, 8, 7, 8, 7, 0, 0, 4, 0>>, Still, Still)
CatBusy(t) ==
  Draw(Frame(6, 5, t, <<2, 2, 2, 0, 1, 0, 1, 3, 4, 3, 4, 5, 5, 2, 2, 0, 1, 0,
       1, 5, 2>>, Still, Still),
       {Wide(Over(22, 14))})
CatAttention(t) ==
  Draw(Shaken(Frame(6, 5, t, <<0, 4, 0, 1, 0, 2, 0, 3, 4, 4, 0, 1, 2, 0, 5,
       0>>, Still, Still), t, 4, 1),
       When(Odd(t \div 2), {Over(-4, 0)})
         \cup When(Odd(t \div 3), {Over(4, 4)}))
CatCelebrate(t) ==
  Draw(Frame(6, 3, t, JumpSeq, Still, Hop),
       Confetti(t, 6, 11, 22, 36, 14, 6, 20))
CatDizzy(t) ==
  Draw(Frame(5, 4, t, SwaySeq, Sway, Still),
       Stars(t, {0, 4}, 6))
CatHeart(t) ==
  Draw(Frame(5, 5, t, <<0, 0, 1, 0, 2, 2, 0, 1, 0, 4, 0, 0, 3, 3, 0, 1, 0, 2,
       1, 0>>, Still, Bob),
       Hearts(t, 5, 4, 16, 20))
DragonSleep(t) ==
  LET p1 == t % 10
      p2 == (t + 4) % 10
      p3 == (t + 7) % 12
  IN  Draw(Frame(6, 5, t, <<0, 1, 0, 1, 0, 1, 2, 1, 0, 1, 0, 1, 3, 4, 3, 4,
           1, 2, 1, 5, 5, 0, 0, 1, 2, 1, 2>>, Still, Still),
           {Over(22 + p1, 18 - p1 * 2), Over(28 + p2, 12 - p2), Over(18,
             16 - p3)})
DragonIdle(t) ==
  LET f == Frame(10, 5, t, <<0, 0, 1, 0, 2, 0, 3, 4, 5, 4, 5, 4, 5, 0, 0, 6,
           7, 0, 3, 0, 8, 8, 0, 1, 2, 0, 9, 9, 0, 0, 7, 0, 8, 0>>, Still,
           Still)
      s == t % 8
  IN  Draw(f,
           When(f.pose \in {6, 7}, {Over((IF f.pose = 7 THEN 14 ELSE 0),
             -4 - s)}))
DragonBusy(t) ==
  Draw(Frame(6, 5, t, <<0, 1, 0, 1, 0, 1, 2, 2, 0, 1, 0, 1, 3, 3, 2, 4, 0, 1,
       0, 1, 5>>, Still, Still),
       {Wide(Over(22, 14))}
         \cup When(Odd(t \div 2), {Over(24, 10)}))
DragonAttention(t) ==
  LET f == Shaken(Frame(6, 5, t, <<0, 4, 0, 1, 0, 2, 0, 3, 4, 4, 0, 1, 2, 3,
           5, 0>>, Still, Still), t, 4, 1)
  IN  Draw(f,
           When(Odd(t \div 2), {Over(-6, 0)})
             \cup When(Odd(t \div 3), {Over(6, 4)})
             \cup When(f.pose \in {3, 4}, {Over(18, 12 - ((t * 2) % 8))}))
DragonCelebrate(t) ==
  Draw(Frame(6, 3, t, JumpSeq, Still, Hop),
       Confetti(t, 6, 11, 22, 36, 14, 6, 20))
DragonDizzy(t) ==
  Draw(Frame(5, 4, t, SwaySeq, Sway, Still),
       Stars(t, {0, 4, 2}, 6))
DragonHeart(t) ==
  LET sp == (t * 2) % 18
  IN  Draw(Frame(5, 5, t, <<0, 0, 1, 0, 2, 2, 0, 1, 0, 4, 0, 0, 3, 3, 0, 1,
           0, 2, 1, 0>>, Still, Bob),
           {Over(14, 14 - sp)}
             \cup Hearts(t, 5, 4, 16, 20))
OctopusSleep(t) ==
  LET p1 == t % 10
      p2 == (t + 4) % 10
      p3 == (t + 7) % 10
  IN  Draw(Frame(6, 5, t, <<0, 0, 1, 1, 0, 0, 2, 2, 1, 1, 0, 0, 3, 3, 4, 4,
           3, 4, 1, 1, 2, 2, 0, 5, 1, 1>>, Still, Still),
           {Over(18 + p1, 16 - p1 * 2), Over(24 + p2, 12 - p2),
             Over(14 + p3 \div 2, 8 - p3 \div 2)})
OctopusIdle(t) ==
  Frame(10, 5, t, <<0, 1, 0, 1, 0, 2, 1, 3, 0, 1, 4, 0, 5, 6, 5, 6, 0, 1,
    0, 4, 1, 0, 7, 7, 0, 1, 8, 8, 0, 1, 9, 9, 0, 1>>, Still, Still)
OctopusBusy(t) ==
  LET b == (t * 2) % 18
  IN  Draw(Frame(6, 5, t, <<0, 1, 0, 1, 0, 1, 2, 2, 0, 1, 0, 1, 3, 3, 2, 4,
           0, 1, 0, 1, 5>>, Still, Still),
           {Wide(Over(22, 14)), Over(-30, 18 - b)})
OctopusAttention(t) ==
  Draw(Shaken(Frame(6, 5, t, <<0, 4, 0, 1, 0, 2, 0, 3, 4, 4, 0, 1, 2, 0, 5,
       0>>, Still, Still), t, 4, 1),
       When(Odd(t \div 2), {Over(-6, 0)})
         \cup When(Odd(t \div 3), {Over(6, 4)}))
OctopusCelebrate(t) ==
  Draw(Frame(6, 3, t, JumpSeq, Still, Hop),
       Confetti(t, 6, 11, 22, 36, 14, 6, 20))
OctopusDizzy(t) ==
  LET puff == t % 8
  IN  Draw(Frame(5, 4, t, SwaySeq, Sway, Still),
           Stars(t, {0, 4}, 4)
             \cup When(Odd(t \div 8), {Over(-24 - puff, 10 + puff),
             Over(24 + puff, 10 + puff)}))
OctopusHeart(t) ==
  Draw(Frame(6, 5, t, <<0, 0, 1, 0, 2, 2, 0, 1, 0, 4, 0, 0, 3, 3, 0, 1, 0, 2,
       5, 5, 1, 0>>, Still, <<0, -1, 0, -1, 0, -1, 0, -1, 0, 0, -1, 0, 0, 0,
       -1, 0, -1, 0, 0, -1, 0, -1>>),
       Hearts(t, 5, 4, 16, 20))
OwlSleep(t) ==
  LET p1 == t % 12
      p2 == (t + 5) % 12
      p3 == (t + 9) % 12
  IN  Draw(Frame(6, 5, t, <<0, 1, 0, 1, 2, 2, 1, 0, 1, 0, 3, 3, 0, 4, 4, 0,
           1, 2, 2, 1, 0, 5, 0, 0>>, Still, Still),
           {Over(18 + p1, 20 - p1 * 2), Over(24 + p2, 16 - p2),
             Over(14 + p3 \div 2, 12 - p3 \div 2)})
OwlIdle(t) ==
  Frame(10, 5, t, <<0, 0, 0, 1, 0, 0, 2, 2, 0, 3, 3, 0, 1, 0, 4, 4, 0, 5,
    5, 0, 6, 0, 7, 7, 0, 8, 8, 0, 9, 9, 0, 0>>, Still, Still)
OwlBusy(t) ==
  Draw(Frame(6, 5, t, <<0, 1, 0, 2, 0, 1, 0, 2, 3, 3, 0, 1, 0, 2, 5, 5, 0, 1,
       4, 4, 0, 2, 0, 1, 3>>, Still, Still),
       {Wide(Over(22, 14))})
OwlAttention(t) ==
  Draw(Shaken(Frame(6, 5, t, <<0, 4, 0, 1, 0, 2, 0, 3, 4, 4, 0, 1, 2, 0, 5,
       0>>, Still, Still), t, 4, 1),
       When(Odd(t \div 2), {Over(-4, 0)})
         \cup When(Odd(t \div 3), {Over(6, 4)}))
OwlCelebrate(t) ==
  Draw(Frame(6, 3, t, JumpSeq, Still, <<0, -4, -7, -4, 0, 0, 0, 0, 0, 0, -4,
       -7, -4, 0, 0, 0>>),
       Confetti(t, 6, 11, 22, 36, 14, 6, 20))
OwlDizzy(t) ==
  Draw(Frame(5, 4, t, SwaySeq, Sway, Still),
       Stars(t, {0, 4}, 6))
OwlHeart(t) ==
  Draw(Frame(5, 5, t, <<0, 0, 1, 0, 2, 2, 0, 1, 0, 4, 0, 0, 3, 3, 0, 1, 0, 2,
       1, 0>>, Still, Bob),
       Hearts(t, 5, 4, 16, 20))
PenguinSleep(t) ==
  LET p1 == t % 10
      p2 == (t + 4) % 10
      p3 == (t + 7) % 10
  IN  Draw(Frame(6, 5, t, <<0, 1, 0, 1, 0, 1, 2, 1, 0, 1, 0, 1, 3, 4, 3, 4,
           3, 4, 3, 3, 1, 5, 1, 1>>, Still, Still),
           {Over(20 + p1, 18 - p1 * 2), Over(26 + p2, 14 - p2),
             Over(16 + p3 \div 2, 10 - p3 \div 2)})
PenguinIdle(t) ==
  Frame(10, 5, t, <<0, 0, 1, 2, 1, 2, 0, 3, 0, 4, 0, 5, 0, 6, 6, 0, 3, 0,
    1, 2, 1, 2, 0, 7, 7, 0, 0, 8, 8, 0, 9, 9, 0, 0>>, Still, Still)
PenguinBusy(t) ==
  Draw(Frame(6, 5, t, <<0, 1, 0, 1, 0, 1, 2, 2, 0, 1, 0, 1, 3, 3, 2, 4, 0, 1,
       0, 1, 5>>, Still, Still),
       {Wide(Over(22, 14))})
PenguinAttention(t) ==
  Draw(Shaken(Frame(6, 5, t, <<0, 4, 0, 1, 0, 2, 0, 3, 4, 4, 0, 1, 2, 0, 5,
       0>>, Still, Still), t, 4, 1),
       When(Odd(t \div 2), {Over(-4, 0)})
         \cup When(Odd(t \div 3), {Over(4, 4)}))
PenguinCelebrate(t) ==
  Draw(Frame(6, 3, t, JumpSeq, Still, Hop),
       Confetti(t, 6, 11, 22, 36, 14, 6, 20))
PenguinDizzy(t) ==
  Draw(Frame(5, 4, t, SwaySeq, Sway, Still),
       Stars(t, {0, 4}, 6))
PenguinHeart(t) ==
  Draw(Frame(5, 5, t, <<0, 0, 1, 0, 2, 2, 0, 1, 0, 4, 0, 0, 3, 3, 0, 1, 0, 2,
       1, 0>>, Still, Bob),
       Hearts(t, 5, 4, 16, 20))
TurtleSleep(t) ==
  LET p1 == t % 12
      p2 == (t + 5) % 12
      p3 == (t + 9) % 12
  IN  Draw(Frame(6, 5, t, <<0, 0, 0, 0, 1, 0, 2, 3, 2, 3, 2, 3, 2, 3, 0, 0,
           4, 4, 4, 2, 3, 2, 3, 1, 5, 1, 0>>, Still, Still),
           {Over(18 + p1, 16 - p1 * 2), Over(24 + p2 \div 2, 12 - p2),
             Over(14 + p3 \div 2, 8 - p3 \div 2)})
TurtleIdle(t) ==
  Frame(10, 5, t, <<0, 0, 0, 1, 0, 2, 0, 3, 0, 0, 4, 4, 0, 5, 5, 0, 0, 3,
    0, 0, 7, 8, 7, 8, 7, 8, 0, 0, 6, 6, 0, 0, 3, 0, 0, 9, 9, 9, 0, 0>>,
    Still, Still)
TurtleBusy(t) ==
  Draw(Frame(6, 5, t, <<0, 1, 0, 1, 0, 1, 2, 2, 0, 1, 0, 1, 3, 3, 3, 2, 4, 0,
       1, 0, 1, 5>>, Still, Still),
       {Wide(Over(22, 14))})
TurtleAttention(t) ==
  Draw(Shaken(Frame(6, 5, t, <<0, 4, 0, 1, 0, 2, 0, 3, 4, 4, 0, 1, 2, 0, 5,
       0>>, Still, Still), t, 4, 1),
       When(Odd(t \div 2), {Over(-4, 0)})
         \cup When(Odd(t \div 3), {Over(6, 4)}))
TurtleCelebrate(t) ==
  Draw(Frame(6, 3, t, JumpSeq, Still, Hop),
       Confetti(t, 6, 11, 22, 36, 14, 6, 20))
TurtleDizzy(t) ==
  Draw(Frame(5, 4, t, SwaySeq, Sway, Still),
       Stars(t, {0, 4}, 6))
TurtleHeart(t) ==
  Draw(Frame(5, 5, t, <<0, 0, 1, 0, 2, 2, 0, 1, 0, 4, 0, 0, 3, 3, 0, 1, 0, 2,
       1, 0>>, Still, Bob),
       Hearts(t, 5, 4, 16, 20))
SnailSleep(t) ==
  LET p1 == t % 12
      p2 == (t + 5) % 12
      p3 == (t + 9) % 12
  IN  Draw(Frame(6, 5, t, <<0, 1, 0, 1, 0, 1, 2, 1, 0, 1, 0, 1, 3, 3, 3, 3,
           4, 4, 4, 4, 1, 5, 1, 1>>, Still, Still),
           {Over(8 - p1, 14 - p1), Over(14 - p2, 10 - p2),
             Over(4 - p3 \div 2, 6 - p3 \div 2)})
SnailIdle(t) ==
  Draw(Frame(10, 5, t, <<0, 0, 0, 1, 0, 2, 0, 4, 0, 5, 6, 5, 6, 0, 0, 0, 3,
       3, 0, 4, 7, 8, 7, 8, 0, 9, 9, 9, 0, 0>>, Still, Still),
       When(Odd(t \div 6), {Low(-10, 32)}))
SnailBusy(t) ==
  Draw(Frame(6, 5, t, <<0, 1, 2, 3, 0, 1, 2, 3, 4, 4, 0, 1, 2, 3, 4, 4, 5, 0,
       1, 2, 3>>, Still, Still),
       {Wide(Over(24, 12))})
SnailAttention(t) ==
  Draw(Shaken(Frame(6, 5, t, <<0, 4, 0, 1, 0, 2, 0, 3, 4, 4, 0, 1, 2, 0, 5,
       0>>, Still, Still), t, 4, 1),
       When(Odd(t \div 2), {Over(-6, 0)})
         \cup When(Odd(t \div 3), {Over(6, 4)}))
SnailCelebrate(t) ==
  Draw(Frame(6, 3, t, JumpSeq, Still, Hop),
       Confetti(t, 6, 11, 22, 36, 14, 6, 20))
SnailDizzy(t) ==
  Draw(Frame(5, 4, t, SwaySeq, Sway, Still),
       Stars(t, {0, 4}, 4))
SnailHeart(t) ==
  Draw(Frame(5, 5, t, <<0, 0, 1, 0, 2, 2, 0, 1, 0, 4, 0, 0, 3, 3, 0, 1, 0, 2,
       1, 0>>, Still, Bob),
       Hearts(t, 5, 4, 16, 20))
GhostSleep(t) ==
  LET p1 == t % 12
      p2 == (t + 4) % 12
      p3 == (t + 8) % 12
  IN  Draw(Frame(6, 5, t, <<0, 1, 0, 1, 0, 1, 5, 5, 0, 1, 0, 1, 2, 2, 3, 3,
           4, 4, 0, 1, 0, 1, 5, 5, 2, 3, 4, 0, 1>>, Still, <<0, -1, 0, -1, 0,
           -1, 0, -1, -1, -2, -1, -2, -2, -3, -3, -3, -2, -1, -1, 0, 0, -1,
           0, -1, -1, -2, -1, 0, -1>>),
           {Over(18 + p1, 16 - p1 * 2), Over(24 + p2, 12 - p2),
             Over(14 + p3 \div 2, 8 - p3 \div 2)})
GhostIdle(t) ==
  Frame(10, 5, t, <<0, 0, 6, 7, 0, 1, 0, 2, 0, 4, 0, 6, 5, 5, 0, 0, 7, 6,
    0, 3, 0, 4, 8, 8, 0, 0, 9, 9, 0, 6, 7, 0>>, Still, <<0, -1, -1, 0, -1, 0,
    -1, 0, -1, 0, -1, -1, -1, 0, -1, 0, 0, -1, 0, -1, 0, -1, -2, -1, -1, 0,
    -1, 0, -1, 0, -1, 0>>)
GhostBusy(t) ==
  Draw(Frame(6, 5, t, <<0, 1, 0, 1, 0, 1, 2, 2, 0, 1, 0, 1, 3, 3, 2, 4, 0, 1,
       0, 1, 5>>, Still, Still),
       {Wide(Over(22, 14))})
GhostAttention(t) ==
  Draw(Shaken(Frame(6, 5, t, <<0, 4, 0, 1, 0, 2, 0, 3, 4, 4, 0, 1, 2, 0, 5,
       0>>, Still, Still), t, 4, 1),
       When(Odd(t \div 2), {Over(-6, 0)})
         \cup When(Odd(t \div 3), {Over(6, 4)}))
GhostCelebrate(t) ==
  Draw(Frame(6, 3, t, JumpSeq, Still, Hop),
       Confetti(t, 6, 11, 22, 36, 14, 6, 20))
GhostDizzy(t) ==
  Draw(Frame(5, 4, t, SwaySeq, Sway, Still),
       Stars(t, {0, 4}, 6))
GhostHeart(t) ==
  Draw(Frame(5, 5, t, <<0, 0, 1, 0, 2, 2, 0, 1, 0, 4, 0, 0, 3, 3, 0, 1, 0, 2,
       1, 0>>, Still, <<-1, -2, -1, -2, -1, -2, -1, -2, -1, -1, -2, -1, -1,
       -1, -2, -1, -2, -1, -2, -1>>),
       Hearts(t, 5, 4, 16, 20))
AxolotlSleep(t) ==
  LET p1 == t % 12
      p2 == (t + 5) % 12
      p3 == (t + 9) % 12
  IN  Draw(Frame(6, 5, t, <<0, 1, 0, 1, 0, 1, 2, 1, 0, 1, 0, 1, 3, 3, 4, 4,
           3, 4, 3, 3, 1, 5, 1, 1>>, Still, Still),
           {Over(18 + (p1 % 3), 20 - p1 * 2), Over(26 - (p2 % 4), 18 - p2),
             Over(14 + (p3 % 5), 12 - p3 \div 2)})
AxolotlIdle(t) ==
  LET p == (t \div 2) % 14
  IN  Draw(Frame(10, 5, t, <<0, 0, 0, 1, 0, 2, 0, 4, 0, 5, 0, 6, 0, 7, 8, 7,
           8, 0, 0, 3, 3, 0, 4, 9, 9, 0, 0, 1, 2, 1, 2, 0>>, Still, Still),
           {Over(24, 16 - p)})
AxolotlBusy(t) ==
  LET b == (t * 2) % 10
  IN  Draw(Frame(6, 5, t, <<0, 1, 0, 1, 0, 1, 2, 2, 0, 1, 0, 1, 3, 3, 2, 4,
           0, 1, 0, 1, 5>>, Still, Still),
           {Wide(Over(22, 14)), Over(-28, 18 - b)})
AxolotlAttention(t) ==
  Draw(Shaken(Frame(6, 5, t, <<0, 4, 0, 1, 0, 2, 0, 3, 4, 4, 0, 1, 2, 0, 5,
       0>>, Still, Still), t, 4, 1),
       When(Odd(t \div 2), {Over(-4, 0)})
         \cup When(Odd(t \div 3), {Over(4, 4)}))
AxolotlCelebrate(t) ==
  Draw(Frame(6, 3, t, JumpSeq, Still, Hop),
       Confetti(t, 7, 9, 24, 36, 12, 6, 20))
AxolotlDizzy(t) ==
  Draw(Frame(5, 4, t, SwaySeq, Sway, Still),
       Stars(t, {0, 4, 2}, 6))
AxolotlHeart(t) ==
  LET b == (t + 3) % 14
  IN  Draw(Frame(6, 5, t, <<0, 0, 1, 0, 2, 2, 0, 1, 0, 4, 0, 0, 3, 3, 0, 1,
           0, 2, 5, 0>>, Still, Bob),
           {Over(26, 16 - b)}
             \cup Hearts(t, 5, 4, 16, 20))
CactusSleep(t) ==
  LET p1 == t % 10
      p2 == (t + 4) % 10
      p3 == (t + 7) % 10
  IN  Draw(Frame(6, 5, t, <<0, 1, 0, 1, 0, 1, 2, 1, 0, 1, 0, 1, 3, 3, 4, 4,
           3, 4, 0, 0, 1, 5, 1, 1>>, Still, Still),
           {Over(20 + p1, 18 - p1 * 2), Over(26 + p2, 14 - p2),
             Over(16 + p3 \div 2, 10 - p3 \div 2)})
CactusIdle(t) ==
  Frame(10, 5, t, <<0, 0, 0, 1, 0, 2, 0, 4, 0, 3, 0, 0, 5, 5, 0, 6, 6, 0,
    0, 7, 8, 7, 8, 0, 9, 9, 0, 4, 0, 0, 1, 2, 0>>, Still, Still)
CactusBusy(t) ==
  Draw(Frame(6, 5, t, <<0, 1, 0, 1, 0, 1, 2, 2, 0, 1, 0, 1, 3, 3, 2, 4, 0, 1,
       0, 1, 5>>, Still, Still),
       {Wide(Over(22, 14))})
CactusAttention(t) ==
  Draw(Shaken(Frame(6, 5, t, <<0, 4, 0, 1, 0, 2, 0, 3, 4, 4, 0, 1, 2, 0, 5,
       0>>, Still, Still), t, 4, 1),
       When(Odd(t \div 2), {Over(-4, 0)})
         \cup When(Odd(t \div 3), {Over(4, 4)}))
CactusCelebrate(t) ==
  Draw(Frame(6, 3, t, JumpSeq, Still, Hop),
       Confetti(t, 6, 11, 22, 36, 14, 6, 20))
CactusDizzy(t) ==
  Draw(Frame(5, 4, t, SwaySeq, Sway, Still),
       Stars(t, {0, 4}, 6))
CactusHeart(t) ==
  Draw(Frame(5, 5, t, <<0, 0, 1, 0, 2, 2, 0, 1, 0, 4, 0, 0, 3, 3, 0, 1, 0, 2,
       1, 0>>, Still, Bob),
       Hearts(t, 5, 4, 16, 20))
RobotSleep(t) ==
  LET p1 == t % 10
      p2 == (t + 4) % 10
      p3 == (t + 7) % 10
  IN  Draw(Frame(6, 5, t, <<0, 1, 2, 1, 0, 1, 2, 1, 0, 0, 3, 3, 4, 4, 4, 3,
           0, 1, 2, 1, 0, 5, 0, 1, 0>>, Still, Still),
           {Over(20 + p1, 18 - p1 * 2), Over(26 + p2, 14 - p2),
             Over(16 + p3 \div 2, 10 - p3 \div 2)})
RobotIdle(t) ==
  Draw(Frame(10, 5, t, <<0, 0, 1, 1, 0, 2, 2, 0, 3, 0, 0, 4, 5, 4, 5, 0, 6,
       7, 6, 7, 0, 0, 8, 8, 0, 9, 9, 0, 3, 0>>, Still, Still),
       When(Odd(t \div 4), {Low(-1, -4)}))
RobotBusy(t) ==
  Draw(Frame(6, 5, t, <<0, 1, 0, 1, 0, 1, 2, 2, 0, 1, 0, 1, 3, 3, 2, 4, 0, 1,
       0, 1, 5>>, Still, Still),
       {Wide(Over(22, 14))})
RobotAttention(t) ==
  Draw(Shaken(Frame(6, 5, t, <<0, 4, 0, 1, 0, 2, 0, 3, 4, 4, 0, 1, 2, 0, 5,
       0>>, Still, Still), t, 4, 1),
       When(Odd(t \div 2), {Over(-6, 0)})
         \cup When(Odd(t \div 3), {Over(6, 4)})
         \cup When(Odd(t \div 2), {Low(-1, -4)}))
RobotCelebrate(t) ==
  Draw(Frame(6, 3, t, JumpSeq, Still, Hop),
       Confetti(t, 6, 11, 22, 36, 14, 6, 20))
RobotDizzy(t) ==
  Draw(Frame(5, 4, t, SwaySeq, Sway, Still),
       Stars(t, {0, 4}, 6))
RobotHeart(t) ==
  Draw(Frame(5, 5, t, <<0, 0, 1, 0, 2, 2, 0, 1, 0, 4, 0, 0, 3, 3, 0, 1, 0, 2,
       1, 0>>, Still, Bob),
       Hearts(t, 5, 4, 16, 20))
RabbitSleep(t) ==
  LET p1 == t % 10
      p2 == (t + 4) % 10
      p3 == (t + 7) % 10
  IN  Draw(Frame(6, 5, t, <<0, 1, 0, 1, 0, 1, 4, 1, 0, 1, 0, 1, 3, 3, 3, 3,
           2, 2, 1, 5, 1, 1>>, Still, Still),
           {Over(20 + p1, 18 - p1 * 2), Over(26 + p2, 14 - p2),
             Over(16 + p3 \div 2, 10 - p3 \div 2)})
RabbitIdle(t) ==
  Frame(10, 5, t, <<0, 0, 0, 1, 0, 2, 0, 4, 0, 5, 0, 0, 6, 7, 6, 7, 0, 0,
    3, 3, 0, 4, 8, 8, 0, 0, 9, 9, 0, 0>>, Still, Still)
RabbitBusy(t) ==
  Draw(Frame(6, 5, t, <<0, 1, 0, 1, 0, 1, 2, 2, 0, 1, 0, 1, 3, 3, 2, 4, 0, 1,
       0, 1, 5>>, Still, Still),
       {Wide(Over(22, 14))})
RabbitAttention(t) ==
  Draw(Shaken(Frame(6, 5, t, <<0, 4, 0, 1, 0, 2, 0, 3, 4, 4, 0, 1, 2, 0, 5,
       0>>, Still, Still), t, 4, 1),
       When(Odd(t \div 2), {Over(-4, 0)})
         \cup When(Odd(t \div 3), {Over(4, 4)}))
RabbitCelebrate(t) ==
  Draw(Frame(6, 3, t, JumpSeq, Still, <<0, -4, -8, -4, 0, 0, 0, 0, 0, 0, -4,
       -8, -4, 0, 0, 0>>),
       Confetti(t, 6, 11, 22, 36, 14, 6, 20))
RabbitDizzy(t) ==
  Draw(Frame(5, 4, t, SwaySeq, Sway, Still),
       Stars(t, {0, 4}, 6))
RabbitHeart(t) ==
  Draw(Frame(5, 5, t, <<0, 0, 1, 0, 2, 2, 0, 1, 0, 4, 0, 0, 3, 3, 0, 1, 0, 2,
       1, 0>>, Still, Bob),
       Hearts(t, 5, 4, 16, 20))
MushroomSleep(t) ==
  LET p1 == t % 10
      p2 == (t + 4) % 10
      p3 == (t + 7) % 10
  IN  Draw(Frame(6, 5, t, <<0, 1, 0, 1, 0, 1, 2, 1, 0, 1, 0, 1, 3, 4, 3, 4,
           3, 4, 3, 3, 1, 5, 1, 1>>, Still, Still),
           {Over(20 + p1, 18 - p1 * 2), Over(26 + p2, 14 - p2),
             Over(16 + p3 \div 2, 10 - p3 \div 2)})
MushroomIdle(t) ==
  Frame(10, 5, t, <<0, 0, 0, 1, 0, 2, 0, 4, 0, 5, 0, 0, 6, 7, 6, 7, 0, 0,
    3, 3, 0, 4, 8, 8, 0, 0, 9, 9, 0, 0>>, Still, Still)
MushroomBusy(t) ==
  Draw(Frame(6, 5, t, <<0, 1, 0, 1, 0, 1, 2, 2, 0, 1, 0, 1, 3, 3, 2, 4, 0, 1,
       0, 1, 5>>, Still, Still),
       {Wide(Over(22, 14))})
MushroomAttention(t) ==
  Draw(Shaken(Frame(6, 5, t, <<0, 4, 0, 1, 0, 2, 0, 3, 4, 4, 0, 1, 2, 0, 5,
       0>>, Still, Still), t, 4, 1),
       When(Odd(t \div 2), {Over(-4, 0)})
         \cup When(Odd(t \div 3), {Over(4, 4)}))
MushroomCelebrate(t) ==
  Draw(Frame(6, 3, t, JumpSeq, Still, Hop),
       Confetti(t, 6, 11, 22, 36, 14, 6, 20))
MushroomDizzy(t) ==
  Draw(Frame(5, 4, t, SwaySeq, Sway, Still),
       Stars(t, {0, 4}, 6))
MushroomHeart(t) ==
  Draw(Frame(5, 5, t, <<0, 0, 1, 0, 2, 2, 0, 1, 0, 4, 0, 0, 3, 3, 0, 1, 0, 2,
       1, 0>>, Still, Bob),
       Hearts(t, 5, 4, 16, 20))
ChonkSleep(t) ==
  LET p1 == t % 12
      p2 == (t + 5) % 12
      p3 == (t + 9) % 12
  IN  Draw(Nodding(Frame(6, 5, t, <<0, 0, 0, 1, 2, 1, 2, 1, 2, 1, 2, 3, 3, 1,
           2, 1, 2, 1, 2, 5, 4, 5, 4, 0, 0, 1, 2, 3, 2>>, Still, Still), t,
           5),
           {Over(18 + p1, 20 - p1 * 2), Over(24 + p2, 16 - p2),
             Over(30 + p3 \div 2, 12 - p3 \div 2)})
ChonkIdle(t) ==
  Frame(10, 5, t, <<0, 0, 0, 4, 0, 1, 1, 0, 2, 2, 0, 4, 5, 0, 6, 0, 0, 3,
    3, 0, 7, 8, 7, 8, 0, 0, 4, 0, 9, 9, 0, 0, 0, 5, 6, 0>>, Still, Still)
ChonkBusy(t) ==
  Draw(Frame(6, 5, t, <<1, 2, 1, 2, 1, 2, 0, 0, 1, 2, 1, 2, 3, 3, 3, 4, 4, 1,
       2, 1, 2, 5, 5>>, Still, Still),
       {Wide(Over(24, 12)), Wide(Over(30, 18))})
ChonkAttention(t) ==
  Draw(Shaken(Frame(6, 5, t, <<0, 4, 0, 1, 0, 2, 0, 3, 4, 4, 0, 1, 2, 0, 5,
       0>>, Still, Still), t, 4, 2),
       When(Odd(t \div 2), {Over(-6, 0)})
         \cup When(Odd(t \div 3), {Over(6, 4)})
         \cup When(Odd(t \div 4), {Over(-14, 6)}))
ChonkCelebrate(t) ==
  Draw(Frame(6, 3, t, JumpSeq, Still, <<0, -3, -7, -3, 0, 0, 0, 0, 0, 0, -3,
       -7, -3, 0, 0, 0>>),
       Confetti(t, 7, 9, 24, 42, 14, 8, 22))
ChonkDizzy(t) ==
  Draw(Frame(5, 4, t, SwaySeq, <<-4, 4, -4, 4, 0, 0, -4, 4, -4, 4, 0, 0, 0,
       0>>, Still),
       WideStars(t, {0, 3, 5}, 6))
ChonkHeart(t) ==
  Draw(Frame(6, 5, t, <<0, 0, 1, 0, 2, 2, 0, 1, 0, 4, 0, 0, 3, 3, 0, 1, 0, 2,
       5, 5, 0, 1, 0>>, Still, <<0, -1, 0, -1, 0, -1, 0, -1, 0, 0, -1, 0, 0,
       0, -1, 0, -1, 0, 0, -1, 0, -1, 0>>),
       Hearts(t, 6, 3, 18, 22))

\* SPECIES_TABLE, and the states in the order of PersonaState.
Species == <<"capybara", "duck", "goose", "blob", "cat",
             "dragon", "octopus", "owl", "penguin", "turtle",
             "snail", "ghost", "axolotl", "cactus", "robot",
             "rabbit", "mushroom", "chonk">>
Personas == {"sleep", "idle", "busy", "attention", "celebrate", "dizzy",
             "heart"}


\* The states of each species, as in its table.
CapybaraStates(persona, t) ==
  CASE persona = "sleep" -> CapybaraSleep(t)
    [] persona = "idle" -> CapybaraIdle(t)
    [] persona = "busy" -> CapybaraBusy(t)
    [] persona = "attention" -> CapybaraAttention(t)
    [] persona = "celebrate" -> CapybaraCelebrate(t)
    [] persona = "dizzy" -> CapybaraDizzy(t)
    [] persona = "heart" -> CapybaraHeart(t)
DuckStates(persona, t) ==
  CASE persona = "sleep" -> DuckSleep(t)
    [] persona = "idle" -> DuckIdle(t)
    [] persona = "busy" -> DuckBusy(t)
    [] persona = "attention" -> DuckAttention(t)
    [] persona = "celebrate" -> DuckCelebrate(t)
    [] persona = "dizzy" -> DuckDizzy(t)
    [] persona = "heart" -> DuckHeart(t)
GooseStates(persona, t) ==
  CASE persona = "sleep" -> GooseSleep(t)
    [] persona = "idle" -> GooseIdle(t)
    [] persona = "busy" -> GooseBusy(t)
    [] persona = "attention" -> GooseAttention(t)
    [] persona = "celebrate" -> GooseCelebrate(t)
    [] persona = "dizzy" -> GooseDizzy(t)
    [] persona = "heart" -> GooseHeart(t)
BlobStates(persona, t) ==
  CASE persona = "sleep" -> BlobSleep(t)
    [] persona = "idle" -> BlobIdle(t)
    [] persona = "busy" -> BlobBusy(t)
    [] persona = "attention" -> BlobAttention(t)
    [] persona = "celebrate" -> BlobCelebrate(t)
    [] persona = "dizzy" -> BlobDizzy(t)
    [] persona = "heart" -> BlobHeart(t)
CatStates(persona, t) ==
  CASE persona = "sleep" -> CatSleep(t)
    [] persona = "idle" -> CatIdle(t)
    [] persona = "busy" -> CatBusy(t)
    [] persona = "attention" -> CatAttention(t)
    [] persona = "celebrate" -> CatCelebrate(t)
    [] persona = "dizzy" -> CatDizzy(t)
    [] persona = "heart" -> CatHeart(t)
DragonStates(persona, t) ==
  CASE persona = "sleep" -> DragonSleep(t)
    [] persona = "idle" -> DragonIdle(t)
    [] persona = "busy" -> DragonBusy(t)
    [] persona = "attention" -> DragonAttention(t)
    [] persona = "celebrate" -> DragonCelebrate(t)
    [] persona = "dizzy" -> DragonDizzy(t)
    [] persona = "heart" -> DragonHeart(t)
OctopusStates(persona, t) ==
  CASE persona = "sleep" -> OctopusSleep(t)
    [] persona = "idle" -> OctopusIdle(t)
    [] persona = "busy" -> OctopusBusy(t)
    [] persona = "attention" -> OctopusAttention(t)
    [] persona = "celebrate" -> OctopusCelebrate(t)
    [] persona = "dizzy" -> OctopusDizzy(t)
    [] persona = "heart" -> OctopusHeart(t)
OwlStates(persona, t) ==
  CASE persona = "sleep" -> OwlSleep(t)
    [] persona = "idle" -> OwlIdle(t)
    [] persona = "busy" -> OwlBusy(t)
    [] persona = "attention" -> OwlAttention(t)
    [] persona = "celebrate" -> OwlCelebrate(t)
    [] persona = "dizzy" -> OwlDizzy(t)
    [] persona = "heart" -> OwlHeart(t)
PenguinStates(persona, t) ==
  CASE persona = "sleep" -> PenguinSleep(t)
    [] persona = "idle" -> PenguinIdle(t)
    [] persona = "busy" -> PenguinBusy(t)
    [] persona = "attention" -> PenguinAttention(t)
    [] persona = "celebrate" -> PenguinCelebrate(t)
    [] persona = "dizzy" -> PenguinDizzy(t)
    [] persona = "heart" -> PenguinHeart(t)
TurtleStates(persona, t) ==
  CASE persona = "sleep" -> TurtleSleep(t)
    [] persona = "idle" -> TurtleIdle(t)
    [] persona = "busy" -> TurtleBusy(t)
    [] persona = "attention" -> TurtleAttention(t)
    [] persona = "celebrate" -> TurtleCelebrate(t)
    [] persona = "dizzy" -> TurtleDizzy(t)
    [] persona = "heart" -> TurtleHeart(t)
SnailStates(persona, t) ==
  CASE persona = "sleep" -> SnailSleep(t)
    [] persona = "idle" -> SnailIdle(t)
    [] persona = "busy" -> SnailBusy(t)
    [] persona = "attention" -> SnailAttention(t)
    [] persona = "celebrate" -> SnailCelebrate(t)
    [] persona = "dizzy" -> SnailDizzy(t)
    [] persona = "heart" -> SnailHeart(t)
GhostStates(persona, t) ==
  CASE persona = "sleep" -> GhostSleep(t)
    [] persona = "idle" -> GhostIdle(t)
    [] persona = "busy" -> GhostBusy(t)
    [] persona = "attention" -> GhostAttention(t)
    [] persona = "celebrate" -> GhostCelebrate(t)
    [] persona = "dizzy" -> GhostDizzy(t)
    [] persona = "heart" -> GhostHeart(t)
AxolotlStates(persona, t) ==
  CASE persona = "sleep" -> AxolotlSleep(t)
    [] persona = "idle" -> AxolotlIdle(t)
    [] persona = "busy" -> AxolotlBusy(t)
    [] persona = "attention" -> AxolotlAttention(t)
    [] persona = "celebrate" -> AxolotlCelebrate(t)
    [] persona = "dizzy" -> AxolotlDizzy(t)
    [] persona = "heart" -> AxolotlHeart(t)
CactusStates(persona, t) ==
  CASE persona = "sleep" -> CactusSleep(t)
    [] persona = "idle" -> CactusIdle(t)
    [] persona = "busy" -> CactusBusy(t)
    [] persona = "attention" -> CactusAttention(t)
    [] persona = "celebrate" -> CactusCelebrate(t)
    [] persona = "dizzy" -> CactusDizzy(t)
    [] persona = "heart" -> CactusHeart(t)
RobotStates(persona, t) ==
  CASE persona = "sleep" -> RobotSleep(t)
    [] persona = "idle" -> RobotIdle(t)
    [] persona = "busy" -> RobotBusy(t)
    [] persona = "attention" -> RobotAttention(t)
    [] persona = "celebrate" -> RobotCelebrate(t)
    [] persona = "dizzy" -> RobotDizzy(t)
    [] persona = "heart" -> RobotHeart(t)
RabbitStates(persona, t) ==
  CASE persona = "sleep" -> RabbitSleep(t)
    [] persona = "idle" -> RabbitIdle(t)
    [] persona = "busy" -> RabbitBusy(t)
    [] persona = "attention" -> RabbitAttention(t)
    [] persona = "celebrate" -> RabbitCelebrate(t)
    [] persona = "dizzy" -> RabbitDizzy(t)
    [] persona = "heart" -> RabbitHeart(t)
MushroomStates(persona, t) ==
  CASE persona = "sleep" -> MushroomSleep(t)
    [] persona = "idle" -> MushroomIdle(t)
    [] persona = "busy" -> MushroomBusy(t)
    [] persona = "attention" -> MushroomAttention(t)
    [] persona = "celebrate" -> MushroomCelebrate(t)
    [] persona = "dizzy" -> MushroomDizzy(t)
    [] persona = "heart" -> MushroomHeart(t)
ChonkStates(persona, t) ==
  CASE persona = "sleep" -> ChonkSleep(t)
    [] persona = "idle" -> ChonkIdle(t)
    [] persona = "busy" -> ChonkBusy(t)
    [] persona = "attention" -> ChonkAttention(t)
    [] persona = "celebrate" -> ChonkCelebrate(t)
    [] persona = "dizzy" -> ChonkDizzy(t)
    [] persona = "heart" -> ChonkHeart(t)

Picture(species, persona, t) ==
  CASE species = "capybara" -> CapybaraStates(persona, t)
    [] species = "duck" -> DuckStates(persona, t)
    [] species = "goose" -> GooseStates(persona, t)
    [] species = "blob" -> BlobStates(persona, t)
    [] species = "cat" -> CatStates(persona, t)
    [] species = "dragon" -> DragonStates(persona, t)
    [] species = "octopus" -> OctopusStates(persona, t)
    [] species = "owl" -> OwlStates(persona, t)
    [] species = "penguin" -> PenguinStates(persona, t)
    [] species = "turtle" -> TurtleStates(persona, t)
    [] species = "snail" -> SnailStates(persona, t)
    [] species = "ghost" -> GhostStates(persona, t)
    [] species = "axolotl" -> AxolotlStates(persona, t)
    [] species = "cactus" -> CactusStates(persona, t)
    [] species = "robot" -> RobotStates(persona, t)
    [] species = "rabbit" -> RabbitStates(persona, t)
    [] species = "mushroom" -> MushroomStates(persona, t)
    [] species = "chonk" -> ChonkStates(persona, t)
=============================================================================
