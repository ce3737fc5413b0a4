------------------------------ MODULE ToolsProofs ------------------------------
(***************************************************************************)
(* Theorems of Tools.tla, for any number of values of a byte and of a      *)
(* digit, any length of words and chunks, and any texts and inputs.        *)
(***************************************************************************)
EXTENDS Tools, TLAPS, SequenceTheorems, WellFoundedInduction

(* Arithmetic.                                                             *)

LEMMA ProductType ==
  ASSUME NEW a \in Nat \ {0}, NEW b \in Nat \ {0}
  PROVE  a * b \in Nat \ {0}
OBVIOUS

\* The quotient and the rest are the ones there are.
LEMMA QuotientRest ==
  ASSUME NEW b \in Nat \ {0}, NEW q \in Nat, NEW r \in 0..(b - 1)
  PROVE  (q * b + r) \div b = q /\ (q * b + r) % b = r
OBVIOUS

\* A digit below another.
LEMMA Below ==
  ASSUME NEW b \in Nat \ {0}, NEW c \in Nat \ {0}, NEW q \in 0..(c - 1), NEW r \in 0..(b - 1)
  PROVE  q * b + r \in 0..(c * b - 1)
<1>1. q * b + r \in Nat
  OBVIOUS
<1>2. q * b + b <= c * b
  <2>1. (q + 1) * b <= c * b
    OBVIOUS
  <2>. QED
    BY <2>1
<1>. QED
  BY <1>1, <1>2, ProductType

LEMMA ScaledBelow ==
  ASSUME NEW d \in Nat \ {0}, NEW c \in Nat \ {0}, NEW q \in 0..(c - 1)
  PROVE  q * d \in 0..(c * d - 1)
<1>1. q * d + 0 \in 0..(c * d - 1)
  BY Below
<1>. QED
  BY <1>1

\* A field that is shifted to the top of a word, and down to its place.
LEMMA ShiftIntoPlace ==
  ASSUME NEW c \in Nat \ {0}, NEW k \in Nat \ {0}, NEW d \in Nat \ {0}, NEW x \in 0..(c - 1)
  PROVE  ((x * (k * d)) % (c * (k * d))) \div d = x * k
<1>. DEFINE m == k * d
            e == c * m
<1>1. m \in Nat \ {0} /\ e \in Nat \ {0}
  BY ProductType
<1>2. x * m \in 0..(e - 1)
  <2>. HIDE DEF m
  <2>. QED
    BY <1>1, ScaledBelow
<1>3. (x * m) % e = x * m
  <2>. HIDE DEF m, e
  <2>. QED
    BY <1>1, <1>2
<1>4. x * m = (x * k) * d + 0 /\ x * k \in Nat
  OBVIOUS
<1>5. ((x * k) * d + 0) \div d = x * k
  BY <1>4, QuotientRest
<1>. QED
  BY <1>3, <1>4, <1>5

\* A field that is shifted up, past what is above it, and down, past what is
\* below it.
LEMMA ShiftOut ==
  ASSUME NEW t \in Nat \ {0}, NEW k \in Nat \ {0}, NEW d \in Nat \ {0},
         NEW h \in Nat, NEW v \in Nat, NEW w \in 0..(k - 1), v * k + w \in 0..(t - 1)
  PROVE  (((h * t + (v * k + w)) * d) % (t * d)) \div (k * d) = v
<1>. DEFINE z == v * k + w
            x == h * t + z
            e == t * d
            p == k * d
<1>1. e \in Nat \ {0} /\ p \in Nat \ {0} /\ z \in Nat
  BY ProductType
<1>2. x * d = h * e + z * d
  <2>1. (h * t + z) * d = (h * t) * d + z * d
    BY <1>1
  <2>2. (h * t) * d = h * (t * d)
    OBVIOUS
  <2>. HIDE DEF z
  <2>. QED
    BY <2>1, <2>2 DEF z
<1>3. z * d \in 0..(e - 1)
  BY ScaledBelow
<1>4. (x * d) % e = z * d
  <2>. HIDE DEF z
  <2>1. (h * e + z * d) % e = z * d
    BY <1>1, <1>3, QuotientRest
  <2>. QED
    BY <1>2, <2>1
<1>5. z * d = v * p + w * d
  <2>1. (v * k + w) * d = (v * k) * d + w * d
    OBVIOUS
  <2>2. (v * k) * d = v * (k * d)
    OBVIOUS
  <2>. QED
    BY <2>1, <2>2
<1>6. w * d \in 0..(p - 1)
  BY ScaledBelow
<1>7. (v * p + w * d) \div p = v
  BY <1>1, <1>6, QuotientRest
<1>. QED
  BY <1>4, <1>5, <1>7

-----------------------------------------------------------------------------
(* The word of a yield.                                                    *)

LEMMA SizeFacts ==
  /\ Size[1] \in Nat /\ Size[1] > 2
  /\ Size[1] \in Nat \ {0} /\ Size[2] \in Nat \ {0} /\ Size[4] \in Nat \ {0}
  /\ Size[6] \in Nat \ {0} /\ Size[7] \in Nat \ {0} /\ Size[8] \in Nat \ {0}
  /\ Size[1] = Unit /\ Size[2] = Size[1] * Size[1]
  /\ Size[4] = Size[2] * Size[2]
  /\ Size[6] = Size[4] * Size[2]
  /\ Size[7] = Size[6] * Size[1]
  /\ Size[8] = Size[4] * Size[4] /\ Size[8] = Size[2] * Size[6] /\ Size[8] = Size[6] * Size[2]
  /\ Size[8] = Size[1] * Size[7] /\ Size[8] = Size[7] * Size[1]
<1>. DEFINE one == Unit
            two == Unit * Unit
            four == two * two
            six == four * two
            seven == four * two * Unit
            eight == four * four
<1>1. /\ Size[1] = one /\ Size[2] = two /\ Size[4] = four /\ Size[6] = six
      /\ Size[7] = seven /\ Size[8] = eight
  BY DEF Size
<1>2. one \in Nat \ {0} /\ one > 2
  BY UnitAssumption
<1>3. two \in Nat \ {0}
  BY <1>2, ProductType
<1>4. four \in Nat \ {0}
  <2>. HIDE DEF two
  <2>. QED
    BY <1>3, ProductType
<1>5. six \in Nat \ {0} /\ eight \in Nat \ {0}
  <2>. HIDE DEF two, four
  <2>. QED
    BY <1>3, <1>4, ProductType
<1>6. seven \in Nat \ {0} /\ seven = six * one
  <2>. HIDE DEF six, one
  <2>1. six * one \in Nat \ {0}
    BY <1>2, <1>5, ProductType
  <2>. QED
    BY <2>1 DEF six, one
<1>7. eight = two * six /\ eight = six * two
  <2>. HIDE DEF two
  <2>. QED
    BY <1>3
<1>8. two = one * one
  OBVIOUS
<1>9. eight = one * seven /\ eight = seven * one
  <2>. HIDE DEF one, two, six, seven, eight
  <2>1. (six * one) * one = six * (one * one) /\ one * (six * one) = six * (one * one)
    BY <1>2, <1>5
  <2>. QED
    BY <1>6, <1>7, <1>8, <2>1
<1>. QED
  BY <1>1, <1>2, <1>3, <1>4, <1>5, <1>6, <1>7, <1>8, <1>9

\* The host reads back what it writes.
LEMMA HostRoundTrip ==
  ASSUME NEW f \in Fields
  PROVE  /\ HostReads(HostWrites(f)) = f
         /\ unpack(HostWrites(f)) = f
<1>. DEFINE x == HostWrites(f)
            one == Size[1]
            two == Size[2]
            four == Size[4]
            six == Size[6]
            seven == Size[7]
            eight == Size[8]
            dev == f.dev
            cmd == f.cmd
            reason == f.reason
            data == f.data
            top == dev * one + cmd
            middle == top * two + reason
            low == reason * four + data
            lower == cmd * six + low
<1>1. /\ one \in Nat \ {0} /\ two \in Nat \ {0} /\ four \in Nat \ {0}
      /\ six \in Nat \ {0} /\ seven \in Nat \ {0} /\ eight \in Nat \ {0}
      /\ two = one * one /\ four = two * two /\ six = four * two /\ seven = six * one
      /\ eight = four * four /\ eight = six * two /\ eight = seven * one
  BY SizeFacts
<1>2. /\ dev \in 0..(one - 1) /\ cmd \in 0..(one - 1)
      /\ reason \in 0..(two - 1) /\ data \in 0..(four - 1)
      /\ f = [dev |-> dev, cmd |-> cmd, reason |-> reason, data |-> data]
      /\ dev \in Nat /\ cmd \in Nat /\ reason \in Nat /\ data \in Nat
  <2>1. /\ f.dev \in 0..(Size[1] - 1) /\ f.cmd \in 0..(Size[1] - 1)
        /\ f.reason \in 0..(Size[2] - 1) /\ f.data \in 0..(Size[4] - 1)
        /\ f = [dev |-> f.dev, cmd |-> f.cmd, reason |-> f.reason, data |-> f.data]
    BY DEF Fields
  <2>. QED
    BY <2>1, SizeFacts
<1>3. x = data + reason * four + cmd * six + dev * seven
  BY DEF HostWrites
<1>4. /\ HostReads(x) = [data |-> x % four, reason |-> (x \div four) % two,
                         cmd |-> (x \div six) % one, dev |-> (x \div seven) % one]
      /\ unpack(x) = [dev |-> x \div seven, cmd |-> ((x * one) % eight) \div seven,
                      reason |-> ((x * two) % eight) \div six,
                      data |-> ((x * four) % eight) \div four]
  BY DEF HostReads, unpack, shl, shr
<1>. HIDE DEF x, one, two, four, six, seven, eight, dev, cmd, reason, data
<1>5. low \in 0..(six - 1) /\ low \in Nat
  <2>1. low \in 0..(two * four - 1)
    BY <1>1, <1>2, Below
  <2>. QED
    BY <1>1, <2>1
<1>6. lower \in 0..(seven - 1) /\ lower \in Nat
  <2>. HIDE DEF low
  <2>1. lower \in 0..(one * six - 1)
    BY <1>1, <1>2, <1>5, Below
  <2>. QED
    BY <1>1, <2>1
<1>7. top \in Nat /\ middle \in Nat
  BY <1>1, <1>2
<1>8. x = dev * seven + lower
  BY <1>1, <1>2, <1>3
<1>9. x = top * six + low
  <2>1. dev * (six * one) + cmd * six = (dev * one + cmd) * six
    BY <1>1, <1>2
  <2>. QED
    BY <1>1, <1>2, <1>3, <2>1
<1>10. x = middle * four + data
  <2>. HIDE DEF top
  <2>1. top * (four * two) + reason * four = (top * two + reason) * four
    BY <1>1, <1>2, <1>7
  <2>. QED
    BY <1>1, <1>2, <1>7, <1>9, <2>1
<1>11. /\ x \div seven = dev /\ x \div six = top /\ x \div four = middle /\ x % four = data
  <2>. HIDE DEF lower, top, low, middle
  <2>1. (dev * seven + lower) \div seven = dev
    <3>1. dev \in Nat /\ seven \in Nat \ {0} /\ lower \in 0..(seven - 1)
      BY <1>1, <1>2, <1>6
    <3>. QED
      BY <3>1, QuotientRest
  <2>2. (top * six + low) \div six = top
    <3>1. top \in Nat /\ six \in Nat \ {0} /\ low \in 0..(six - 1)
      BY <1>1, <1>5, <1>7
    <3>. QED
      BY <3>1, QuotientRest
  <2>3. (middle * four + data) \div four = middle /\ (middle * four + data) % four = data
    <3>1. middle \in Nat /\ four \in Nat \ {0} /\ data \in 0..(four - 1)
      BY <1>1, <1>2, <1>7
    <3>. QED
      BY <3>1, QuotientRest
  <2>. QED
    BY <1>8, <1>9, <1>10, <2>1, <2>2, <2>3
<1>12. dev % one = dev /\ top % one = cmd /\ middle % two = reason
  <2>1. dev % one = dev
    BY <1>1, <1>2
  <2>2. (dev * one + cmd) % one = cmd
    BY <1>1, <1>2, QuotientRest
  <2>. HIDE DEF top
  <2>3. (top * two + reason) % two = reason
    <3>1. top \in Nat /\ two \in Nat \ {0} /\ reason \in 0..(two - 1)
      BY <1>1, <1>2, <1>7
    <3>. QED
      BY <3>1, QuotientRest
  <2>. QED
    BY <2>1, <2>2, <2>3 DEF top
<1>13. HostReads(x) = f
  <2>. HIDE DEF top, middle
  <2>. QED
    BY <1>2, <1>4, <1>11, <1>12
<1>14. ((x * one) % eight) \div seven = cmd
  <2>. HIDE DEF low
  <2>1. /\ seven \in Nat \ {0} /\ six \in Nat \ {0} /\ one \in Nat \ {0}
        /\ dev \in Nat /\ cmd \in Nat /\ low \in 0..(six - 1)
        /\ cmd * six + low \in 0..(seven - 1)
    BY <1>1, <1>2, <1>5, <1>6
  <2>2. (((dev * seven + (cmd * six + low)) * one) % (seven * one)) \div (six * one) = cmd
    BY <2>1, ShiftOut
  <2>. QED
    BY <1>1, <1>8, <2>2
<1>15. ((x * two) % eight) \div six = reason
  <2>. HIDE DEF top
  <2>1. /\ six \in Nat \ {0} /\ four \in Nat \ {0} /\ two \in Nat \ {0}
        /\ top \in Nat /\ reason \in Nat /\ data \in 0..(four - 1)
        /\ reason * four + data \in 0..(six - 1)
    BY <1>1, <1>2, <1>5, <1>7
  <2>2. (((top * six + (reason * four + data)) * two) % (six * two)) \div (four * two) = reason
    BY <2>1, ShiftOut
  <2>. QED
    BY <1>1, <1>9, <2>2
<1>16. ((x * four) % eight) \div four = data
  <2>. HIDE DEF middle
  <2>1. /\ four \in Nat \ {0} /\ 1 \in Nat \ {0} /\ middle \in Nat /\ data \in Nat
        /\ 0 \in 0..(1 - 1) /\ data * 1 + 0 \in 0..(four - 1)
    BY <1>1, <1>2, <1>7
  <2>2. (((middle * four + (data * 1 + 0)) * four) % (four * four)) \div (1 * four) = data
    BY <2>1, ShiftOut
  <2>3. data * 1 + 0 = data /\ 1 * four = four
    BY <1>1, <1>2
  <2>. QED
    BY <1>1, <1>10, <2>2, <2>3
<1>17. unpack(x) = f
  BY <1>2, <1>4, <1>11, <1>14, <1>15, <1>16
<1>. QED
  BY <1>13, <1>17 DEF x

\* What the library packs is what the host would write.
LEMMA PackIsHostWrites ==
  ASSUME NEW f \in Fields
  PROVE  pack(f) = HostWrites(f)
<1>1. /\ f.dev \in 0..(Size[1] - 1) /\ f.cmd \in 0..(Size[1] - 1)
      /\ f.reason \in 0..(Size[2] - 1) /\ f.data \in 0..(Size[4] - 1)
  BY DEF Fields
<1>2. shl(f.dev, 7) = f.dev * Size[7]
  <2>1. f.dev * Size[7] \in 0..(Size[8] - 1)
    BY <1>1, SizeFacts, ScaledBelow
  <2>. QED
    BY <2>1, SizeFacts DEF shl
<1>3. shr(shl(f.cmd, 7), 1) = f.cmd * Size[6]
  <2>1. /\ Size[1] \in Nat \ {0} /\ Size[6] \in Nat \ {0} /\ f.cmd \in 0..(Size[1] - 1)
        /\ Size[7] = Size[6] * Size[1] /\ Size[8] = Size[1] * Size[7]
    BY <1>1, SizeFacts
  <2>2. ((f.cmd * (Size[6] * Size[1])) % (Size[1] * (Size[6] * Size[1]))) \div Size[1]
        = f.cmd * Size[6]
    BY <2>1, ShiftIntoPlace
  <2>. QED
    BY <2>1, <2>2 DEF shl, shr
<1>4. shr(shl(f.reason, 6), 2) = f.reason * Size[4]
  <2>1. /\ Size[2] \in Nat \ {0} /\ Size[4] \in Nat \ {0} /\ f.reason \in 0..(Size[2] - 1)
        /\ Size[6] = Size[4] * Size[2] /\ Size[8] = Size[2] * Size[6]
    BY <1>1, SizeFacts
  <2>2. ((f.reason * (Size[4] * Size[2])) % (Size[2] * (Size[4] * Size[2]))) \div Size[2]
        = f.reason * Size[4]
    BY <2>1, ShiftIntoPlace
  <2>. QED
    BY <2>1, <2>2 DEF shl, shr
<1>5. shr(shl(f.data, 4), 4) = f.data
  <2>1. /\ Size[4] \in Nat \ {0} /\ 1 \in Nat \ {0} /\ f.data \in 0..(Size[4] - 1)
        /\ Size[4] = 1 * Size[4] /\ Size[8] = Size[4] * Size[4] /\ f.data * 1 = f.data
    BY <1>1, SizeFacts
  <2>2. ((f.data * (1 * Size[4])) % (Size[4] * (1 * Size[4]))) \div Size[4] = f.data * 1
    BY <2>1, ShiftIntoPlace
  <2>. QED
    BY <2>1, <2>2 DEF shl, shr
<1>6. /\ f.dev * Size[7] \in Nat /\ f.cmd * Size[6] \in Nat
      /\ f.reason * Size[4] \in Nat /\ f.data \in Nat
  BY <1>1, SizeFacts
<1>. QED
  BY <1>2, <1>3, <1>4, <1>5, <1>6 DEF pack, HostWrites

LEMMA HostReadsPack ==
  ASSUME NEW f \in Fields
  PROVE  HostReads(pack(f)) = f
BY PackIsHostWrites, HostRoundTrip

-----------------------------------------------------------------------------
(* The driver: what is held at each stage of opening it, and a yield.      *)

HeldInv ==
  /\ stage \in {"closed", "set_up", "map_tx", "map_rx", "open", "yielded"}
  /\ stage = "closed" => held = {}
  /\ stage \in {"set_up", "map_tx"} => held = {"fd"}
  /\ stage = "map_rx" => held = {"fd", "tx"}
  /\ stage \in {"open", "yielded"} => held = {"fd", "tx", "rx"}

\* A step that is no yield.
Opening ==
  \/ opens \/ open_fails \/ setup \/ setup_fails
  \/ map_tx \/ map_tx_fails \/ map_rx \/ map_rx_fails \/ cmt_io_fini

\* What YieldIsWhole says of a step.
WholeStep ==
  /\ stage' = "yielded" /\ stage # "yielded" => HostReads(word') = asked'
  /\ stage = "yielded" => UNCHANGED <<rr, word>> \/ rr' = answered'

LEMMA OpeningKeeps ==
  ASSUME HeldInv, Opening
  PROVE  HeldInv' /\ WholeStep /\ stage # "yielded" /\ stage' # "yielded"
<1>1. CASE opens
  BY <1>1 DEF HeldInv, WholeStep, opens, call
<1>2. CASE open_fails
  BY <1>2 DEF HeldInv, WholeStep, open_fails, varsIo
<1>3. CASE setup
  BY <1>3 DEF HeldInv, WholeStep, setup, call
<1>4. CASE setup_fails
  BY <1>4 DEF HeldInv, WholeStep, setup_fails, call
<1>5. CASE map_tx
  BY <1>5 DEF HeldInv, WholeStep, map_tx, call
<1>6. CASE map_tx_fails
  BY <1>6 DEF HeldInv, WholeStep, map_tx_fails, call
<1>7. CASE map_rx
  BY <1>7 DEF HeldInv, WholeStep, map_rx, call
<1>8. CASE map_rx_fails
  BY <1>8 DEF HeldInv, WholeStep, map_rx_fails, call
<1>9. CASE cmt_io_fini
  BY <1>9 DEF HeldInv, WholeStep, cmt_io_fini, call
<1>. QED
  BY <1>1, <1>2, <1>3, <1>4, <1>5, <1>6, <1>7, <1>8, <1>9 DEF Opening

LEMMA YieldingKeeps ==
  ASSUME HeldInv, NEW request \in Fields, yields(request)
  PROVE  HeldInv' /\ WholeStep /\ word' = pack(request)
<1>1. stage = "open" /\ stage' = "yielded" /\ held' = held /\ asked' = request
      /\ word' = pack(request)
  BY DEF yields
<1>2. HostReads(word') = asked'
  BY <1>1, HostReadsPack
<1>3. HeldInv'
  BY <1>1 DEF HeldInv
<1>. QED
  BY <1>1, <1>2, <1>3 DEF WholeStep

LEMMA AnswerIsRead ==
  ASSUME NEW answer \in Answers
  PROVE  unpack(HostWrites(answer)) = answer
BY FieldsAssumption, HostRoundTrip

LEMMA ReturningKeeps ==
  ASSUME HeldInv, NEW answer \in Answers, yield_returns(answer)
  PROVE  HeldInv' /\ WholeStep /\ stage' = "open"
<1>1. stage = "yielded" /\ stage' = "open" /\ held' = held
      /\ rr' = unpack(HostWrites(answer)) /\ answered' = answer
  BY DEF yield_returns
<1>2. rr' = answered'
  BY <1>1, AnswerIsRead
<1>3. HeldInv'
  BY <1>1 DEF HeldInv
<1>. QED
  BY <1>1, <1>2, <1>3 DEF WholeStep

LEMMA FailingKeeps ==
  ASSUME HeldInv, yield_fails
  PROVE  HeldInv' /\ WholeStep /\ stage' = "open"
BY DEF HeldInv, WholeStep, yield_fails, call

-----------------------------------------------------------------------------
(* The yield command.                                                      *)

YieldInv ==
  IF program = "yield"
    THEN /\ args \in Args
         /\ process = "none" => stage # "yielded"
         /\ process = "running" => Parses(args)
         /\ (process = "running" /\ stage = "yielded") => word = pack(Request)
    ELSE process = "none"

\* Data that passes for 32 bits is yielded as it was given.
LEMMA RequestIsNamed ==
  ASSUME args \in Args, Parses(args)
  PROVE  /\ Request \in Fields /\ Request.data = args.data
         /\ Request.cmd = modes[args.mode] /\ Request.reason = reasons[args.reason]
<1>1. args.data \in Nat /\ args.data < Size[4]
  BY DataArgsAssumption DEF Args, Parses, get_data
<1>2. args.data % Size[4] = args.data /\ args.data \in 0..(Size[4] - 1)
  BY <1>1, SizeFacts
<1>3. modes[args.mode] \in 0..1
  BY DEF Parses, modes
<1>4. reasons[args.reason] \in 1..4
  BY DEF Parses, reasons
<1>5. Size[1] > 2 /\ Size[2] > 4 /\ Size[1] \in Nat /\ Size[2] \in Nat
  <2>1. Size[1] \in Nat /\ Size[1] > 2 /\ Size[2] = Size[1] * Size[1]
    BY SizeFacts
  <2>2. Size[1] * Size[1] >= 3 * Size[1]
    BY <2>1
  <2>. QED
    BY <2>1, <2>2
<1>6. Request = [dev |-> 2, cmd |-> modes[args.mode], reason |-> reasons[args.reason],
                 data |-> args.data]
  BY <1>2 DEF Request
<1>7. Request \in Fields
  <2>1. /\ 2 \in 0..(Size[1] - 1) /\ modes[args.mode] \in 0..(Size[1] - 1)
        /\ reasons[args.reason] \in 0..(Size[2] - 1)
    BY <1>3, <1>4, <1>5
  <2>. QED
    BY <1>2, <1>6, <2>1 DEF Fields
<1>. QED
  BY <1>6, <1>7

LEMMA ToolKeeps ==
  ASSUME HeldInv, YieldInv, program = "yield", UNCHANGED program, NextTool
  PROVE  HeldInv' /\ YieldInv' /\ (WholeStep \/ UNCHANGED varsIo)
<1>1. args \in Args /\ args' = args
  BY DEF YieldInv, NextTool, parse_args, init_steps, init_fails, yield, yield_ends
<1>2. CASE parse_args
  <2>1. UNCHANGED varsIo /\ process = "none" /\ (process' = "running" => Parses(args))
    BY <1>2 DEF parse_args
  <2>2. HeldInv'
    BY <2>1 DEF HeldInv, varsIo
  <2>3. stage' # "yielded" /\ process' # "none"
    BY <1>2, <2>1 DEF varsIo, YieldInv, parse_args
  <2>. QED
    BY <1>1, <2>1, <2>2, <2>3 DEF YieldInv, Parses
<1>3. CASE init_steps
  <2>1. Opening /\ process' = process
    BY <1>3 DEF init_steps, Opening
  <2>. QED
    BY <1>1, <2>1, OpeningKeeps DEF YieldInv, Parses
<1>4. CASE init_fails
  <2>1. Opening /\ process' = "ended"
    BY <1>4 DEF init_fails, Opening
  <2>. QED
    BY <1>1, <2>1, OpeningKeeps DEF YieldInv
<1>5. CASE yield
  <2>1. process = "running" /\ process' = process /\ yields(Request) /\ Parses(args)
    BY <1>5 DEF yield, YieldInv
  <2>2. Request \in Fields
    BY <1>1, <2>1, RequestIsNamed
  <2>3. HeldInv' /\ WholeStep /\ word' = pack(Request)
    BY <2>1, <2>2, YieldingKeeps
  <2>4. Request' = Request /\ Parses(args)'
    BY <1>1, <2>1 DEF Request, Parses
  <2>. QED
    BY <1>1, <2>1, <2>3, <2>4 DEF YieldInv
<1>6. CASE yield_ends
  <2>1. /\ stage = "yielded" /\ stage' = "closed" /\ held' = {} /\ process' = "ended"
        /\ \/ UNCHANGED <<rr, word>>
           \/ \E answer \in Answers : rr' = unpack(HostWrites(answer)) /\ answered' = answer
    BY <1>6 DEF yield_ends, call
  <2>2. UNCHANGED <<rr, word>> \/ rr' = answered'
    BY <2>1, AnswerIsRead
  <2>3. HeldInv' /\ WholeStep
    BY <2>1, <2>2 DEF HeldInv, WholeStep
  <2>. QED
    BY <1>1, <2>1, <2>3 DEF YieldInv
<1>. QED
  BY <1>2, <1>3, <1>4, <1>5, <1>6 DEF NextTool

LEMMA HostGetsNamed ==
  ASSUME YieldInv
  PROVE  HostGetsNamedRequest
<1>. SUFFICES ASSUME process = "running", stage = "yielded", args.reason \in OfMode[args.mode]
              PROVE  Means(HostReads(word)) = args.reason /\ HostReads(word).data = args.data
  BY DEF HostGetsNamedRequest
<1>1. args \in Args /\ Parses(args) /\ word = pack(Request)
  BY DEF YieldInv
<1>2. HostReads(word) = Request /\ Request.data = args.data
      /\ Request.cmd = modes[args.mode] /\ Request.reason = reasons[args.reason]
  BY <1>1, RequestIsNamed, HostReadsPack
<1>3. args.mode \in {"manual", "automatic"}
  BY <1>1 DEF Parses, modes
<1>4. CASE args.mode = "automatic"
  <2>1. Request.cmd = 0 /\ args.reason \in {"progress", "tx-output", "tx-report"}
    BY <1>2, <1>4 DEF modes, OfMode
  <2>2. Request.reason = IF args.reason = "progress" THEN 1
                         ELSE IF args.reason = "tx-output" THEN 2 ELSE 4
    BY <1>2, <2>1 DEF reasons
  <2>. QED
    BY <1>2, <2>1, <2>2 DEF Means
<1>5. CASE args.mode = "manual"
  <2>1. Request.cmd = 1 /\ args.reason \in {"rx-accepted", "rx-rejected", "tx-exception"}
    BY <1>2, <1>5 DEF modes, OfMode
  <2>2. Request.reason = IF args.reason = "rx-accepted" THEN 1
                         ELSE IF args.reason = "rx-rejected" THEN 2 ELSE 4
    BY <1>2, <2>1 DEF reasons
  <2>. QED
    BY <1>2, <2>1, <2>2 DEF Means
<1>. QED
  BY <1>3, <1>4, <1>5

-----------------------------------------------------------------------------
(* Generic I/O.                                                            *)

\* What is yielded for the JSON.
GioRequest == [dev |-> 2, cmd |-> 1, reason |-> uint16(json.domain), data |-> json.id]

GioInv ==
  IF program = "gio"
    THEN /\ json \in Requested
         /\ progress \in {"yield", "yielding"} /\ caller = "server" => Validates(json.domain)
         /\ progress = "yielding" => word = pack(GioRequest)
    ELSE progress = "parse"

LEMMA GioRequestFits ==
  ASSUME json \in Requested
  PROVE  /\ GioRequest \in Fields
         /\ json.domain < Size[2] => GioRequest.reason = json.domain
<1>1. json.domain \in Nat /\ json.id \in 0..(Size[4] - 1)
  BY GioAssumption DEF Requested
<1>2. /\ uint16(json.domain) \in 0..(Size[2] - 1)
      /\ json.domain < Size[2] => uint16(json.domain) = json.domain
  BY <1>1, SizeFacts DEF uint16
<1>3. 2 \in 0..(Size[1] - 1) /\ 1 \in 0..(Size[1] - 1)
  BY SizeFacts
<1>. QED
  BY <1>1, <1>2, <1>3 DEF GioRequest, Fields

LEMMA GioKeeps ==
  ASSUME HeldInv, GioInv, program = "gio", UNCHANGED program, NextGio
  PROVE  HeldInv' /\ GioInv' /\ (WholeStep \/ UNCHANGED varsIo)
<1>1. json \in Requested /\ json' = json /\ caller' = caller
  BY DEF GioInv, NextGio, server_parse, tool_parse, cmt_gio_request, gio_fails, gio_returns, request_in
<1>2. CASE server_parse
  <2>1. UNCHANGED varsIo /\ caller = "server"
        /\ progress' = IF Validates(json.domain) THEN "yield" ELSE "refused"
    BY <1>2 DEF server_parse
  <2>2. HeldInv'
    BY <2>1 DEF HeldInv, varsIo
  <2>3. GioInv'
    BY <1>1, <2>1 DEF GioInv, Validates
  <2>. QED
    BY <2>1, <2>2, <2>3
<1>3. CASE tool_parse
  <2>1. UNCHANGED varsIo /\ caller = "tool" /\ progress' = "yield"
    BY <1>3 DEF tool_parse
  <2>2. HeldInv'
    BY <2>1 DEF HeldInv, varsIo
  <2>3. GioInv'
    BY <1>1, <2>1 DEF GioInv
  <2>. QED
    BY <2>1, <2>2, <2>3
<1>4. CASE cmt_gio_request
  <2>1. progress = "yield" /\ progress' = "yielding" /\ yields(GioRequest)
    BY <1>4 DEF cmt_gio_request, GioRequest
  <2>2. HeldInv' /\ WholeStep /\ word' = pack(GioRequest)
    BY <1>1, <2>1, GioRequestFits, YieldingKeeps
  <2>3. GioRequest' = GioRequest
    BY <1>1 DEF GioRequest, uint16
  <2>4. GioInv'
    BY <1>1, <2>1, <2>2, <2>3 DEF GioInv, Validates
  <2>. QED
    BY <2>2, <2>4
<1>5. CASE gio_fails
  <2>1. yield_fails /\ progress' = "failed"
    BY <1>5 DEF gio_fails
  <2>. QED
    BY <1>1, <2>1, FailingKeeps DEF GioInv
<1>6. ASSUME NEW answer \in Answers, gio_returns(answer)
      PROVE  HeldInv' /\ GioInv' /\ WholeStep
  <2>1. yield_returns(answer) /\ progress' = "returned"
    BY <1>6 DEF gio_returns
  <2>. QED
    BY <1>1, <2>1, ReturningKeeps DEF GioInv
<1>. QED
  BY <1>2, <1>3, <1>4, <1>5, <1>6 DEF NextGio

LEMMA GioReaches ==
  ASSUME GioInv
  PROVE  GioReachesHost
<1>. SUFFICES ASSUME progress = "yielding"
              PROVE  /\ caller = "server" => IsGeneric
                     /\ json.domain < Size[2] => HostReads(word).reason = json.domain
                     /\ HostReads(word).data = json.id
  BY DEF GioReachesHost
<1>1. json \in Requested /\ (caller = "server" => Validates(json.domain))
      /\ word = pack(GioRequest)
  BY DEF GioInv
<1>2. HostReads(word) = GioRequest
  BY <1>1, GioRequestFits, HostReadsPack
<1>3. /\ json.domain < Size[2] => HostReads(word).reason = json.domain
      /\ HostReads(word).data = json.id
  BY <1>1, <1>2, GioRequestFits DEF GioRequest
<1>4. ASSUME caller = "server" PROVE IsGeneric
  <2>1. json.domain >= MinDomain /\ HostReads(word).reason = json.domain
    BY <1>1, <1>3, <1>4 DEF Validates
  <2>2. json.domain \in Nat
    BY <1>1, GioAssumption DEF Requested
  <2>3. \A reason \in DOMAIN Reasons : Reasons[reason] \in Nat
    BY DEF Reasons
  <2>. QED
    BY <2>1, <2>2, <2>3, MinDomainAssumption DEF IsGeneric
<1>. QED
  BY <1>3, <1>4

-----------------------------------------------------------------------------
(* Numbers written as digits.                                              *)

\* A set of naturals that is not empty has a least element.
LEMMA LeastElement ==
  ASSUME NEW S \in SUBSET Nat, S # {}
  PROVE  \E m \in S : \A k \in S : m <= k
<1>1. PICK m \in S : \A k \in S : ~(<<k, m>> \in OpToRel(<, Nat))
  BY WFMin, NatLessThanWellFounded
<1>2. \A k \in S : ~(k < m)
  BY <1>1 DEF OpToRel
<1>. QED
  BY <1>2

\* What holds of 0, and of n + 1 with n, holds up to m.
LEMMA UpTo ==
  ASSUME NEW m \in Nat, NEW S, 0 \in S, \A n \in 0..(m - 1) : n \in S => n + 1 \in S
  PROVE  \A n \in 0..m : n \in S
<1>. DEFINE Not == {n \in 0..m : n \notin S}
<1>. SUFFICES ASSUME Not # {} PROVE FALSE
  OBVIOUS
<1>1. PICK n \in Not : \A k \in Not : n <= k
  <2>1. Not \in SUBSET Nat
    OBVIOUS
  <2>. HIDE DEF Not
  <2>. QED
    BY <2>1, LeastElement
<1>2. n # 0 /\ n \notin S /\ n \in 0..m
  BY <1>1
<1>3. n - 1 \in 0..(m - 1) /\ n - 1 \notin Not
  BY <1>1, <1>2
<1>4. n - 1 \in S
  BY <1>3
<1>. QED
  BY <1>2, <1>3, <1>4

\* The sums of the digits from the left.
Sums(f, base, s) ==
  /\ f[0] = 0
  /\ \A i \in 1..Len(s) : f[i] = f[i - 1] * base + s[i]

LEMMA NumberIsSum ==
  ASSUME NEW base, NEW s, Len(s) \in Nat
  PROVE  \E f : Sums(f, base, s) /\ Number(base, s) = f[Len(s)]
<1>. DEFINE n == Len(s)
            To(f, m) == f = [i \in 0..m |-> IF i = 0 THEN 0 ELSE f[i - 1] * base + s[i]]
            S == {m \in 0..n : \E f : To(f, m)}
<1>1. 0 \in S
  <2>1. To([i \in 0..0 |-> 0], 0)
    OBVIOUS
  <2>. HIDE DEF To
  <2>. QED
    BY <2>1
<1>2. ASSUME NEW m \in 0..(n - 1), m \in S PROVE m + 1 \in S
  <2>1. PICK f : To(f, m)
    BY <1>2
  <2>. DEFINE g == [i \in 0..(m + 1) |-> IF i = m + 1 THEN f[i - 1] * base + s[i] ELSE f[i]]
  <2>2. To(g, m + 1)
    BY <2>1
  <2>. HIDE DEF To
  <2>. QED
    BY <2>2
<1>. HIDE DEF To
<1>3. \E f : To(f, n)
  <2>1. n \in Nat
    OBVIOUS
  <2>. HIDE DEF S, n
  <2>2. \A m \in 0..n : m \in S
    BY <1>1, <1>2, <2>1, UpTo
  <2>3. n \in S
    BY <2>1, <2>2
  <2>. QED
    BY <2>3 DEF S
<1>. DEFINE sum == CHOOSE f : To(f, n)
<1>4. Number(base, s) = sum[n]
  BY DEF Number, To
<1>5. To(sum, n)
  BY <1>3
<1>. HIDE DEF sum
<1>6. Sums(sum, base, s)
  <2>. DEFINE g == [i \in 0..n |-> IF i = 0 THEN 0 ELSE sum[i - 1] * base + s[i]]
  <2>1. sum = g
    BY <1>5 DEF To
  <2>2. g[0] = 0 /\ \A i \in 1..n : g[i] = sum[i - 1] * base + s[i]
    OBVIOUS
  <2>. HIDE DEF g
  <2>. QED
    BY <2>1, <2>2 DEF Sums
<1>. QED
  BY <1>4, <1>6

LEMMA NatProduct ==
  ASSUME NEW a \in Nat, NEW b \in Nat
  PROVE  a * b \in Nat
OBVIOUS

LEMMA SumsAreNat ==
  ASSUME NEW base \in Nat, NEW s \in Seq(Nat), NEW f, Sums(f, base, s)
  PROVE  \A i \in 0..Len(s) : f[i] \in Nat
<1>. DEFINE S == {i \in 0..Len(s) : f[i] \in Nat}
<1>1. 0 \in S
  BY DEF Sums
<1>2. ASSUME NEW i \in 0..(Len(s) - 1), i \in S PROVE i + 1 \in S
  <2>1. f[i + 1] = f[i] * base + s[i + 1] /\ s[i + 1] \in Nat /\ f[i] \in Nat
    <3>1. i + 1 \in 1..Len(s) /\ i + 1 - 1 = i
      OBVIOUS
    <3>. QED
      BY <1>2, <3>1 DEF Sums
  <2>2. f[i] * base \in Nat
    BY <2>1, NatProduct
  <2>3. f[i + 1] \in Nat
    <3>. HIDE DEF S
    <3>. QED
      BY <2>1, <2>2
  <2>4. i + 1 \in 0..Len(s)
    OBVIOUS
  <2>. QED
    BY <2>3, <2>4
<1>3. Len(s) \in Nat
  OBVIOUS
<1>. HIDE DEF S
<1>4. \A i \in 0..Len(s) : i \in S
  BY <1>1, <1>2, <1>3, UpTo
<1>. QED
  BY <1>4 DEF S

\* Bytes of two digits each are the same number.
LEMMA BytesAreNumber ==
  ASSUME NEW s \in Seq(Nat), Len(s) % 2 = 0
  PROVE  /\ Bytes(s) \in Seq(Nat) /\ Len(Bytes(s)) = Len(s) \div 2
         /\ Number(Base * Base, Bytes(s)) = Number(Base, s)
<1>. DEFINE b == Bytes(s)
            n == Len(s) \div 2
<1>0. Base \in Nat /\ Base * Base \in Nat
  BY BaseAssumption
<1>1. Len(s) \in Nat /\ n \in Nat /\ 2 * n = Len(s)
  OBVIOUS
<1>2. \A i \in 1..n : s[2 * i - 1] \in Nat /\ s[2 * i] \in Nat
  BY <1>1
<1>3. b \in Seq(Nat) /\ Len(b) = n /\ \A i \in 1..n : b[i] = s[2 * i - 1] * Base + s[2 * i]
  <2>1. ASSUME NEW i \in 1..n PROVE s[2 * i - 1] * Base + s[2 * i] \in Nat
    <3>1. s[2 * i - 1] * Base \in Nat /\ s[2 * i] \in Nat
      BY <1>0, <1>2, NatProduct
    <3>. QED
      BY <3>1
  <2>2. b = [i \in 1..n |-> s[2 * i - 1] * Base + s[2 * i]]
    BY DEF Bytes
  <2>. HIDE DEF b, n
  <2>. QED
    BY <1>1, <2>1, <2>2
<1>. HIDE DEF b, n
<1>4. PICK f : Sums(f, Base, s) /\ Number(Base, s) = f[Len(s)]
  BY <1>1, NumberIsSum
<1>5. PICK g : Sums(g, Base * Base, b) /\ Number(Base * Base, b) = g[Len(b)]
  BY <1>1, <1>3, NumberIsSum
<1>6. (\A i \in 0..Len(s) : f[i] \in Nat) /\ (\A i \in 0..n : g[i] \in Nat)
  <2>1. \A i \in 0..Len(s) : f[i] \in Nat
    BY <1>0, <1>4, SumsAreNat
  <2>2. \A i \in 0..Len(b) : g[i] \in Nat
    BY <1>0, <1>3, <1>5, SumsAreNat
  <2>. QED
    BY <1>3, <2>1, <2>2
<1>. DEFINE S == {i \in 0..n : g[i] = f[2 * i]}
<1>7. 0 \in S
  BY <1>1, <1>4, <1>5 DEF Sums
<1>8. ASSUME NEW i \in 0..(n - 1), i \in S PROVE i + 1 \in S
  <2>1. /\ 2 * i + 1 \in 1..Len(s) /\ 2 * i + 1 - 1 = 2 * i
        /\ 2 * i + 2 \in 1..Len(s) /\ 2 * i + 2 - 1 = 2 * i + 1
        /\ i + 1 \in 1..n /\ i + 1 - 1 = i /\ 2 * (i + 1) - 1 = 2 * i + 1 /\ 2 * (i + 1) = 2 * i + 2
        /\ 2 * i \in 0..Len(s)
    BY <1>1
  <2>2. f[2 * i + 1] = f[2 * i] * Base + s[2 * i + 1]
    BY <1>4, <2>1 DEF Sums
  <2>3. f[2 * i + 2] = f[2 * i + 1] * Base + s[2 * i + 2]
    BY <1>4, <2>1 DEF Sums
  <2>4. g[i + 1] = g[i] * (Base * Base) + (s[2 * i + 1] * Base + s[2 * i + 2])
    <3>1. g[i + 1] = g[i] * (Base * Base) + b[i + 1]
      BY <1>3, <1>5, <2>1 DEF Sums
    <3>2. b[i + 1] = s[2 * i + 1] * Base + s[2 * i + 2]
      BY <1>3, <2>1
    <3>. QED
      BY <3>1, <3>2
  <2>5. g[i] = f[2 * i] /\ f[2 * i] \in Nat /\ s[2 * i + 1] \in Nat /\ s[2 * i + 2] \in Nat
    <3>1. g[i] = f[2 * i]
      BY <1>8
    <3>2. f[2 * i] \in Nat
      BY <1>6, <2>1
    <3>3. s[2 * i + 1] \in Nat /\ s[2 * i + 2] \in Nat
      BY <2>1, ElementOfSeq
    <3>. QED
      BY <3>1, <3>2, <3>3
  <2>6. ASSUME NEW x \in Nat, NEW y \in Nat, NEW z \in Nat
        PROVE  (x * Base + y) * Base + z = x * (Base * Base) + (y * Base + z)
    BY <1>0
  <2>7. f[2 * i + 2] = g[i + 1]
    BY <2>2, <2>3, <2>4, <2>5, <2>6
  <2>. QED
    BY <2>1, <2>7
<1>. HIDE DEF S
<1>9. n \in S
  <2>1. \A i \in 0..n : i \in S
    BY <1>1, <1>7, <1>8, UpTo
  <2>. QED
    BY <1>1, <2>1
<1>10. g[n] = f[Len(s)]
  BY <1>1, <1>9 DEF S
<1>. QED
  BY <1>3, <1>4, <1>5, <1>10 DEF b, n

\* Zeros before it leave a number as it is.
LEMMA ZerosBefore ==
  ASSUME NEW bytes \in Seq(Nat), Len(bytes) <= U256Length, NEW base \in Nat
  PROVE  /\ encode_uint_nn(bytes) \in Seq(Nat) /\ Len(encode_uint_nn(bytes)) = U256Length
         /\ Number(base, encode_uint_nn(bytes)) = Number(base, bytes)
<1>. DEFINE w == encode_uint_nn(bytes)
            z == U256Length - Len(bytes)
<1>1. U256Length \in Nat /\ Len(bytes) \in Nat /\ z \in 0..U256Length
  BY LengthsAssumption
<1>2. /\ w \in Seq(Nat) /\ Len(w) = U256Length
      /\ \A i \in 1..U256Length : w[i] = IF i <= z THEN 0 ELSE bytes[i - z]
  <2>1. w = [i \in 1..U256Length |-> IF i <= z THEN 0 ELSE bytes[i - z]]
    BY DEF encode_uint_nn
  <2>2. \A i \in 1..U256Length : (IF i <= z THEN 0 ELSE bytes[i - z]) \in Nat
    BY <1>1
  <2>. HIDE DEF w, z
  <2>3. w \in [1..U256Length -> Nat]
    BY <2>1, <2>2
  <2>4. w \in Seq(Nat) /\ Len(w) = U256Length
    BY <1>1, <2>3
  <2>. QED
    BY <2>1, <2>4
<1>. HIDE DEF w
<1>3. PICK f : Sums(f, base, bytes) /\ Number(base, bytes) = f[Len(bytes)]
  BY <1>1, NumberIsSum
<1>4. PICK g : Sums(g, base, w) /\ Number(base, w) = g[Len(w)]
  BY <1>1, <1>2, NumberIsSum
<1>. DEFINE S == {i \in 0..U256Length : g[i] = IF i <= z THEN 0 ELSE f[i - z]}
<1>5. 0 \in S
  BY <1>1, <1>4 DEF Sums
<1>6. ASSUME NEW i \in 0..(U256Length - 1), i \in S PROVE i + 1 \in S
  <2>1. i + 1 \in 1..U256Length /\ i + 1 - 1 = i
    BY <1>1
  <2>2. g[i + 1] = g[i] * base + w[i + 1]
    BY <1>2, <1>4, <2>1 DEF Sums
  <2>3. CASE i + 1 <= z
    <3>1. g[i] = 0 /\ w[i + 1] = 0
      BY <1>1, <1>2, <1>6, <2>1, <2>3
    <3>2. g[i + 1] = 0
      BY <2>2, <3>1
    <3>. QED
      BY <2>1, <2>3, <3>2
  <2>4. CASE ~(i + 1 <= z)
    <3>1. g[i] = f[i - z]
      <4>1. CASE i = z
        BY <1>1, <1>3, <1>6, <4>1 DEF Sums
      <4>2. CASE i # z
        BY <1>1, <1>6, <2>4, <4>2
      <4>. QED
        BY <4>1, <4>2
    <3>2. w[i + 1] = bytes[i + 1 - z]
      BY <1>2, <2>1, <2>4
    <3>3. i + 1 - z \in 1..Len(bytes) /\ i + 1 - z - 1 = i - z
      BY <1>1, <2>1, <2>4
    <3>4. f[i + 1 - z] = f[i - z] * base + bytes[i + 1 - z]
      <4>. DEFINE k == i + 1 - z
      <4>1. k \in 1..Len(bytes) /\ k - 1 = i - z
        BY <1>1, <3>3
      <4>. HIDE DEF k
      <4>2. f[k] = f[k - 1] * base + bytes[k]
        BY <1>3, <4>1 DEF Sums
      <4>. QED
        BY <4>1, <4>2 DEF k
    <3>5. g[i + 1] = f[i + 1 - z]
      BY <2>2, <3>1, <3>2, <3>4
    <3>. QED
      BY <1>1, <2>1, <2>4, <3>5
  <2>. QED
    BY <2>3, <2>4
<1>. HIDE DEF S
<1>7. U256Length \in S
  <2>1. \A i \in 0..U256Length : i \in S
    BY <1>1, <1>5, <1>6, UpTo
  <2>. QED
    BY <1>1, <2>1
<1>8. g[U256Length] = f[Len(bytes)]
  <2>1. CASE Len(bytes) = 0
    BY <1>1, <1>3, <1>7, <2>1 DEF S, Sums
  <2>2. CASE Len(bytes) # 0
    BY <1>1, <1>7, <2>2 DEF S
  <2>. QED
    BY <2>1, <2>2
<1>. QED
  BY <1>2, <1>3, <1>4, <1>8 DEF w

-----------------------------------------------------------------------------
(* The fields of a voucher.                                                *)

LEMMA Tail2Facts ==
  ASSUME NEW S, NEW s \in Seq(S)
  PROVE  /\ Tail2(s) \in Seq(S)
         /\ Len(Tail2(s)) = IF Len(s) >= 2 THEN Len(s) - 2 ELSE 0
         /\ \A i \in 1..Len(Tail2(s)) : Tail2(s)[i] = s[i + 2]
<1>1. Len(s) \in Int /\ 3 \in Int /\ \A i \in 3..Len(s) : s[i] \in S
  BY ElementOfSeq
<1>2. /\ SubSeq(s, 3, Len(s)) \in Seq(S)
      /\ Len(SubSeq(s, 3, Len(s))) = IF 3 <= Len(s) THEN Len(s) - 3 + 1 ELSE 0
      /\ \A i \in 1..(Len(s) - 3 + 1) : SubSeq(s, 3, Len(s))[i] = s[3 + i - 1]
  BY <1>1, SubSeqProperties
<1>3. \A i \in 1..(Len(s) - 3 + 1) : 3 + i - 1 = i + 2
  OBVIOUS
<1>4. Tail2(s) = SubSeq(s, 3, Len(s))
  BY DEF Tail2
<1>. HIDE DEF Tail2
<1>5. \A i \in 1..Len(Tail2(s)) : i \in 1..(Len(s) - 3 + 1)
  BY <1>1, <1>2, <1>4
<1>6. \A i \in 1..Len(Tail2(s)) : Tail2(s)[i] = s[i + 2]
  BY <1>2, <1>3, <1>4, <1>5
<1>. QED
  BY <1>1, <1>2, <1>4, <1>6

LEMMA CharactersAreNat ==
  ASSUME NEW s \in Seq(0..Other)
  PROVE  Tail2(s) \in Seq(Nat) /\ Len(Tail2(s)) = IF Len(s) >= 2 THEN Len(s) - 2 ELSE 0
<1>1. s \in Seq(Nat)
  <2>1. 0..Other \subseteq Nat
    BY BaseAssumption DEF Other
  <2>. QED
    BY <2>1, SeqMonotonic
<1>. QED
  BY <1>1, Tail2Facts

\* A word ends with the bytes it is made of; those that fill it are the word.
LEMMA EndOfWord ==
  ASSUME NEW bytes \in Seq(Nat), Len(bytes) <= U256Length
  PROVE  /\ SubSeq(encode_uint_nn(bytes), U256Length - Len(bytes) + 1, U256Length) = bytes
         /\ Len(bytes) = U256Length => encode_uint_nn(bytes) = bytes
<1>. DEFINE w == encode_uint_nn(bytes)
            z == U256Length - Len(bytes)
            m == z + 1
            e == SubSeq(w, m, U256Length)
<1>1. U256Length \in Nat /\ Len(bytes) \in Nat /\ z \in 0..U256Length /\ m \in 1..(U256Length + 1)
  BY LengthsAssumption
<1>2. w \in Seq(Nat) /\ Len(w) = U256Length
  <2>1. 0 \in Nat
    OBVIOUS
  <2>. QED
    BY <2>1, ZerosBefore
<1>3. \A i \in 1..U256Length : w[i] = IF i <= z THEN 0 ELSE bytes[i - z]
  BY DEF encode_uint_nn
<1>. HIDE DEF w
<1>4. \A i \in m..U256Length : w[i] \in Nat
  <2>1. \A i \in m..U256Length : i \in 1..Len(w)
    BY <1>1, <1>2
  <2>. QED
    BY <1>2, <2>1, ElementOfSeq
<1>5. /\ e \in Seq(Nat)
      /\ Len(e) = IF m <= U256Length THEN U256Length - m + 1 ELSE 0
      /\ \A i \in 1..(U256Length - m + 1) : e[i] = w[m + i - 1]
  <2>. HIDE DEF m
  <2>. QED
    BY <1>1, <1>4, SubSeqProperties
<1>6. Len(e) = Len(bytes) /\ U256Length - m + 1 = Len(bytes)
  <2>. HIDE DEF e
  <2>. QED
    BY <1>1, <1>5
<1>7. ASSUME NEW i \in 1..Len(bytes) PROVE e[i] = bytes[i]
  <2>. DEFINE k == m + i - 1
  <2>1. k \in 1..U256Length /\ ~(k <= z) /\ k - z = i
    BY <1>1
  <2>2. e[i] = w[k]
    <3>. HIDE DEF e, m
    <3>. QED
      BY <1>5, <1>6
  <2>. HIDE DEF e, m, z, k
  <2>. QED
    BY <1>3, <2>1, <2>2
<1>8. e = bytes
  <2>. HIDE DEF e
  <2>. QED
    BY <1>5, <1>6, <1>7, SeqEqual
<1>9. ASSUME Len(bytes) = U256Length PROVE w = bytes
  <2>1. z = 0
    BY <1>1, <1>9
  <2>2. \A i \in 1..Len(w) : w[i] = bytes[i]
    <3>. HIDE DEF z
    <3>. QED
      BY <1>2, <1>3, <2>1
  <2>. QED
    BY <1>2, <1>9, <2>2, SeqEqual
<1>. QED
  BY <1>8, <1>9 DEF w

\* What each program makes of the text.
Served ==
  IF ~Matches(text) \/ (field = "destination" /\ ~AddressIsValid(text)) THEN Refused
  ELSE IF field = "value" THEN from_hex_u256(Tail2(text))
  ELSE from_hex_address(Tail2(text))

Parsed == IF field = "value" THEN unhex32(text) ELSE unhex20(text)

Filled(old) ==
  Ok([i \in 1..Width(field) |-> IF i <= Len(Parsed.bytes) THEN Parsed.bytes[i] ELSE old])

ValuesInv ==
  IF program = "voucher"
    THEN /\ text \in Seq(0..Other) /\ field \in Field
         /\ server # Unread => server = Served
         /\ tool # Unread => IF Parsed.rc = "OK" THEN \E old \in {0, Base * Base - 1} : tool = Filled(old)
                             ELSE tool = Parsed
    ELSE tool = Unread /\ server = Unread

LEMMA ValuesKeep ==
  ASSUME ValuesInv, program = "voucher", UNCHANGED program, NextValues
  PROVE  ValuesInv'
<1>1. text' = text /\ field' = field
  BY DEF NextValues, write_voucher, rollup_write_voucher
<1>2. Served' = Served
  BY <1>1 DEF Served, Matches, MaxDigits, AddressIsValid
<1>3. Parsed' = Parsed
  BY <1>1 DEF Parsed
<1>4. \A old : Filled(old)' = Filled(old)
  BY <1>1, <1>3 DEF Filled, Width
<1>5. CASE write_voucher
  <2>1. server' = server
    BY <1>5 DEF write_voucher
  <2>2. IF Parsed.rc = "OK" THEN \E old \in {0, Base * Base - 1} : tool' = Filled(old)
        ELSE tool' = Parsed
    BY <1>5 DEF write_voucher, Parsed, Filled
  <2>. QED
    BY <1>1, <1>2, <1>3, <1>4, <2>1, <2>2 DEF ValuesInv
<1>6. CASE rollup_write_voucher
  <2>1. tool' = tool /\ server' = Served
    BY <1>6 DEF rollup_write_voucher, Served
  <2>. QED
    BY <1>1, <1>2, <1>3, <1>4, <2>1 DEF ValuesInv
<1>. QED
  BY <1>5, <1>6 DEF NextValues

LEMMA WidthFacts ==
  ASSUME field \in Field
  PROVE  /\ Width(field) \in Nat \ {0} /\ Width(field) <= U256Length
         /\ U256Length \in Nat /\ AddressLength \in Nat \ {0}
         /\ field = "value" => Width(field) = U256Length
         /\ field = "destination" => Width(field) = AddressLength
         /\ field = "value" \/ field = "destination"
BY LengthsAssumption DEF Width, Field

\* The server reads the number that is written.
LEMMA ServedIsNumber ==
  ASSUME text \in Seq(0..Other), field \in Field, Served.rc = "OK"
  PROVE  /\ Digits(Tail2(text)) /\ Len(Served.bytes) = Width(field)
         /\ Number(Base * Base, Served.bytes) = Meaning
<1>. DEFINE digits == Tail2(text)
            bytes == Bytes(digits)
            base == Base * Base
<1>1. digits \in Seq(Nat) /\ Len(digits) = IF Len(text) >= 2 THEN Len(text) - 2 ELSE 0
  BY CharactersAreNat
<1>2. base \in Nat
  BY BaseAssumption
<1>. HIDE DEF digits, bytes, base
<1>3. hex_decode(digits).rc = "OK" => /\ Digits(digits) /\ Len(digits) % 2 = 0
                                      /\ hex_decode(digits).bytes = bytes
  BY DEF hex_decode, Ok, Refused, bytes
<1>4. from_hex_u256(digits).rc = "OK" =>
        /\ Digits(digits) /\ Len(digits) % 2 = 0 /\ Len(bytes) <= U256Length
        /\ from_hex_u256(digits).bytes = encode_uint_nn(bytes)
  BY <1>3 DEF from_hex_u256, Ok, Refused
<1>5. Len(digits) % 2 = 0 =>
        bytes \in Seq(Nat) /\ Len(bytes) = Len(digits) \div 2 /\ Number(base, bytes) = Meaning
  BY <1>1, BytesAreNumber DEF Meaning, bytes, digits, base
<1>6. CASE field = "value"
  <2>1. Served = from_hex_u256(digits)
    BY <1>6 DEF Served, Refused, digits
  <2>. QED
    BY <1>2, <1>4, <1>5, <1>6, <2>1, ZerosBefore, WidthFacts DEF digits, base
<1>7. CASE field = "destination"
  <2>1. AddressIsValid(text) /\ Served = from_hex_address(digits)
    BY <1>7 DEF Served, Refused, digits
  <2>2. from_hex_u256(digits).rc = "OK"
        /\ Served.bytes = SubSeq(from_hex_u256(digits).bytes, U256Length - AddressLength + 1, U256Length)
    BY <2>1 DEF from_hex_address, Ok
  <2>3. Len(digits) = 2 * AddressLength /\ Len(bytes) = AddressLength
    BY <1>1, <1>4, <1>5, <2>1, <2>2, WidthFacts DEF AddressIsValid
  <2>4. Served.bytes = bytes
    BY <1>4, <1>5, <2>2, <2>3, EndOfWord
  <2>. QED
    BY <1>4, <1>5, <1>7, <2>2, <2>3, <2>4, WidthFacts DEF digits, base
<1>. QED
  BY <1>6, <1>7, WidthFacts

LEMMA ServerReads ==
  ASSUME ValuesInv
  PROVE  ServerReadsNumber
<1>. SUFFICES ASSUME server.rc = "OK"
              PROVE  /\ Digits(Tail2(text)) /\ Len(server.bytes) = Width(field)
                     /\ Number(Base * Base, server.bytes) = Meaning
  BY DEF ServerReadsNumber
<1>1. server # Unread
  BY DEF Unread
<1>2. server = Served /\ text \in Seq(0..Other) /\ field \in Field
  BY <1>1 DEF ValuesInv
<1>. QED
  BY <1>2, ServedIsNumber

LEMMA FullTexts ==
  ASSUME ValuesInv
  PROVE  FullTextsAgree
<1>. SUFFICES ASSUME Len(text) = 2 + 2 * Width(field), tool # Unread, server # Unread
              PROVE  /\ tool.rc = "OK" <=> Digits(Tail2(text))
                     /\ tool.rc = "OK" /\ text[1] = 0 /\ text[2] = X => server = tool
  BY DEF FullTextsAgree
<1>. DEFINE digits == Tail2(text)
            bytes == Bytes(digits)
            width == Width(field)
<1>1. /\ text \in Seq(0..Other) /\ field \in Field /\ server = Served
      /\ IF Parsed.rc = "OK" THEN \E old \in {0, Base * Base - 1} : tool = Filled(old) ELSE tool = Parsed
  BY DEF ValuesInv
<1>2. width \in Nat \ {0} /\ width <= U256Length
  BY <1>1, WidthFacts
<1>3. digits \in Seq(Nat) /\ Len(digits) = 2 * width
  BY <1>1, <1>2, CharactersAreNat
<1>4. Len(digits) % 2 = 0 /\ Len(digits) \div 2 = width
  <2>. HIDE DEF digits, width
  <2>. QED
    BY <1>2, <1>3
<1>5. bytes \in Seq(Nat) /\ Len(bytes) = width
  BY <1>3, <1>4, BytesAreNumber
<1>. HIDE DEF digits, bytes, width
<1>6. Parsed = IF Digits(digits) THEN Ok(bytes) ELSE Refused
  <2>1. Parsed = unhex(text)
    BY <1>1, WidthFacts DEF Parsed, unhex32, unhex20, width
  <2>. QED
    BY <1>4, <2>1 DEF unhex, digits, bytes
<1>7. tool = IF Digits(digits) THEN Ok(bytes) ELSE Refused
  <2>1. CASE ~Digits(digits)
    BY <1>1, <1>6, <2>1 DEF Refused
  <2>2. CASE Digits(digits)
    <3>1. Parsed.rc = "OK" /\ Parsed.bytes = bytes
      BY <1>6, <2>2 DEF Ok
    <3>2. PICK old \in {0, Base * Base - 1} : tool = Filled(old)
      BY <1>1, <3>1
    <3>3. tool = Ok([i \in 1..width |-> IF i <= Len(bytes) THEN bytes[i] ELSE old])
      BY <3>1, <3>2 DEF Filled, width
    <3>4. [i \in 1..width |-> IF i <= Len(bytes) THEN bytes[i] ELSE old] = bytes
      <4>1. bytes = [i \in 1..width |-> bytes[i]]
        BY <1>5
      <4>. QED
        BY <1>2, <1>5, <4>1
    <3>. QED
      BY <2>2, <3>3, <3>4
  <2>. QED
    BY <2>1, <2>2
<1>8. tool.rc = "OK" <=> Digits(digits)
  BY <1>7 DEF Ok, Refused
<1>9. ASSUME Digits(digits), text[1] = 0, text[2] = X PROVE server = Ok(bytes)
  <2>1. Matches(text)
    <3>1. 1 \in 1..(Len(text) - 1) /\ 1 + 1 = 2 /\ 1 + 2 = 3
      BY <1>2 DEF width
    <3>2. SubSeq(text, 3, Len(text)) = digits
      BY DEF digits, Tail2
    <3>3. Len(digits) \in 1..MaxDigits
      BY <1>1, <1>2, <1>3, WidthFacts DEF MaxDigits, width
    <3>. QED
      BY <1>9, <3>1, <3>2, <3>3 DEF Matches
  <2>2. field = "destination" => AddressIsValid(text)
    BY <1>1, <1>9, WidthFacts DEF AddressIsValid
  <2>3. hex_decode(digits) = Ok(bytes)
    BY <1>4, <1>9 DEF hex_decode, bytes
  <2>4. from_hex_u256(digits) = Ok(encode_uint_nn(bytes))
    BY <1>2, <1>5, <2>3 DEF from_hex_u256, Ok
  <2>5. CASE field = "value"
    <3>1. encode_uint_nn(bytes) = bytes
      BY <1>1, <1>2, <1>5, <2>5, EndOfWord, WidthFacts DEF width
    <3>. QED
      BY <1>1, <2>1, <2>4, <2>5, <3>1 DEF Served, digits
  <2>6. CASE field = "destination"
    <3>1. SubSeq(encode_uint_nn(bytes), U256Length - AddressLength + 1, U256Length) = bytes
      BY <1>1, <1>2, <1>5, <2>6, EndOfWord, WidthFacts DEF width
    <3>2. from_hex_address(digits) = Ok(bytes)
      <4>1. from_hex_u256(digits).rc = "OK" /\ from_hex_u256(digits).bytes = encode_uint_nn(bytes)
        BY <2>4 DEF Ok
      <4>. QED
        BY <3>1, <4>1 DEF from_hex_address
    <3>. QED
      BY <1>1, <2>1, <2>2, <2>6, <3>2 DEF Served, digits
  <2>. QED
    BY <1>1, <2>5, <2>6, WidthFacts
<1>. QED
  BY <1>7, <1>8, <1>9 DEF digits

-----------------------------------------------------------------------------
(* The hex command.                                                        *)

LEMMA IsPrefixIff ==
  ASSUME NEW S, NEW s \in Seq(S), NEW t \in Seq(S)
  PROVE  IsPrefix(s, t) <=> Len(s) <= Len(t) /\ \A i \in 1..Len(s) : s[i] = t[i]
<1>1. Len(s) \in Nat /\ Len(t) \in Nat
  OBVIOUS
<1>2. SubSeq(s, 1, Len(s)) = s
  BY SubSeqFull
<1>3. ASSUME Len(s) <= Len(t)
      PROVE  s = SubSeq(t, 1, Len(s)) <=> \A i \in 1..Len(s) : s[i] = t[i]
  <2>. DEFINE u == SubSeq(t, 1, Len(s))
  <2>1. \A i \in 1..Len(s) : t[i] \in S
    BY <1>1, <1>3, ElementOfSeq
  <2>2. /\ u \in Seq(S) /\ Len(u) = IF 1 <= Len(s) THEN Len(s) - 1 + 1 ELSE 0
        /\ \A i \in 1..(Len(s) - 1 + 1) : u[i] = t[1 + i - 1]
    BY <1>1, <2>1, SubSeqProperties
  <2>3. Len(u) = Len(s) /\ \A i \in 1..Len(s) : i \in 1..(Len(s) - 1 + 1) /\ 1 + i - 1 = i
    BY <1>1, <2>2
  <2>4. \A i \in 1..Len(s) : u[i] = t[i]
    <3>. HIDE DEF u
    <3>. QED
      BY <2>2, <2>3
  <2>. HIDE DEF u
  <2>5. (\A i \in 1..Len(s) : s[i] = t[i]) => s = u
    BY <2>2, <2>3, <2>4, SeqEqual
  <2>. QED
    BY <2>4, <2>5 DEF u
<1>. QED
  BY <1>1, <1>2, <1>3 DEF IsPrefix

LEMMA ZxIsPrefix ==
  ASSUME NEW s \in Seq(Nat)
  PROVE  IsPrefix(Zx, s) <=> Len(s) >= 2 /\ s[1] = 0 /\ s[2] = X
<1>1. Zx \in Seq(Nat) /\ Len(Zx) = 2 /\ Zx[1] = 0 /\ Zx[2] = X
  BY BaseAssumption DEF Zx, X
<1>2. Len(s) \in Nat
  OBVIOUS
<1>3. (\A i \in 1..Len(Zx) : Zx[i] = s[i]) <=> 0 = s[1] /\ X = s[2]
  <2>. HIDE DEF X
  <2>. QED
    BY <1>1
<1>4. IsPrefix(Zx, s) <=> Len(Zx) <= Len(s) /\ \A i \in 1..Len(Zx) : Zx[i] = s[i]
  <2>1. Zx \in Seq(Nat)
    BY <1>1
  <2>. QED
    BY <2>1, IsPrefixIff
<1>5. Len(Zx) <= Len(s) <=> Len(s) >= 2
  BY <1>1, <1>2
<1>. QED
  BY <1>3, <1>4, <1>5

Byte == 0..(Base * Base - 1)

\* A byte is its two digits.
LEMMA DigitsOfByte ==
  ASSUME NEW x \in Byte
  PROVE  /\ x \in Nat /\ x \div Base \in 0..(Base - 1) /\ x % Base \in 0..(Base - 1)
         /\ (x \div Base) * Base + (x % Base) = x
<1>1. Base \in Nat \ {0} /\ x \in Nat /\ x < Base * Base
  BY BaseAssumption DEF Byte
<1>2. x \div Base \in Nat /\ x % Base \in 0..(Base - 1) /\ (x \div Base) * Base + (x % Base) = x
  <2>1. ASSUME NEW b \in Nat \ {0}, NEW y \in Nat
        PROVE  y \div b \in Nat /\ y % b \in 0..(b - 1) /\ (y \div b) * b + (y % b) = y
    OBVIOUS
  <2>. QED
    BY <1>1, <2>1
<1>3. x \div Base < Base
  <2>. SUFFICES ASSUME x \div Base >= Base PROVE FALSE
    BY <1>1, <1>2
  <2>. DEFINE q == x \div Base
  <2>1. q \in Nat /\ q >= Base /\ q * Base <= x
    BY <1>1, <1>2
  <2>. HIDE DEF q
  <2>2. q * Base >= Base * Base
    BY <1>1, <2>1
  <2>. QED
    BY <1>1, <2>1, <2>2
<1>. QED
  BY <1>1, <1>2, <1>3

\* A read that gets what there is.
LEMMA ReadFacts ==
  ASSUME rest \in Seq(Byte), NEW room \in Nat, NEW n, n = Least(room, Len(rest)), Read(n, room)
  PROVE  /\ n \in Nat /\ n <= Len(rest) /\ n <= room
         /\ rest' \in Seq(Byte) /\ Len(rest') = Len(rest) - n
         /\ \A i \in 1..Len(rest') : rest'[i] = rest[n + i]
         /\ Got(n) \in Seq(Byte) /\ Len(Got(n)) = n
         /\ \A i \in 1..n : Got(n)[i] = rest[i]
         /\ n # room => Len(rest') = 0
<1>1. Len(rest) \in Nat /\ n \in Nat /\ n <= Len(rest) /\ n <= room /\ (n # room => n = Len(rest))
  BY DEF Least
<1>2. /\ Got(n) \in Seq(Byte) /\ Len(Got(n)) = n
      /\ \A i \in 1..n : Got(n)[i] = rest[i]
  <2>1. \A i \in 1..n : rest[i] \in Byte
    BY <1>1, ElementOfSeq
  <2>2. /\ SubSeq(rest, 1, n) \in Seq(Byte)
        /\ Len(SubSeq(rest, 1, n)) = IF 1 <= n THEN n - 1 + 1 ELSE 0
        /\ \A i \in 1..(n - 1 + 1) : SubSeq(rest, 1, n)[i] = rest[1 + i - 1]
    BY <1>1, <2>1, SubSeqProperties
  <2>3. \A i \in 1..n : i \in 1..(n - 1 + 1) /\ 1 + i - 1 = i
    BY <1>1
  <2>4. \A i \in 1..n : SubSeq(rest, 1, n)[i] = rest[i]
    BY <2>2, <2>3
  <2>5. Len(SubSeq(rest, 1, n)) = n
    BY <1>1, <2>2
  <2>. QED
    BY <2>2, <2>4, <2>5 DEF Got
<1>3. CASE n = room
  <2>. DEFINE m == n + 1
  <2>1. m \in Int /\ \A i \in m..Len(rest) : rest[i] \in Byte
    BY <1>1, ElementOfSeq
  <2>2. rest' = SubSeq(rest, m, Len(rest))
    BY <1>3 DEF Read
  <2>. HIDE DEF m
  <2>3. /\ rest' \in Seq(Byte)
        /\ Len(rest') = IF m <= Len(rest) THEN Len(rest) - m + 1 ELSE 0
        /\ \A i \in 1..(Len(rest) - m + 1) : rest'[i] = rest[m + i - 1]
    BY <1>1, <2>1, <2>2, SubSeqProperties
  <2>4. Len(rest') = Len(rest) - n
    BY <1>1, <2>3 DEF m
  <2>5. \A i \in 1..Len(rest') : i \in 1..(Len(rest) - m + 1) /\ m + i - 1 = n + i
    BY <1>1, <2>4 DEF m
  <2>6. \A i \in 1..Len(rest') : rest'[i] = rest[n + i]
    BY <2>3, <2>5
  <2>. QED
    BY <1>1, <1>2, <1>3, <2>3, <2>4, <2>6
<1>4. CASE n # room
  <2>1. rest' = <<>> /\ n = Len(rest)
    BY <1>1, <1>4 DEF Read
  <2>2. rest' \in Seq(Byte) /\ Len(rest') = 0
    BY <2>1
  <2>. QED
    BY <1>1, <1>2, <2>1, <2>2
<1>. QED
  BY <1>3, <1>4

\* What is written is at the end, if it is not lost; nothing cannot be.
LEMMA WriteFacts ==
  ASSUME stdout \in Seq(Nat), NEW s \in Seq(Nat), NEW lost, Write(s, lost), ~(lost /\ Len(s) > 0)
  PROVE  /\ stdout' \in Seq(Nat) /\ Len(stdout') = Len(stdout) + Len(s)
         /\ \A i \in 1..Len(stdout) : stdout'[i] = stdout[i]
         /\ \A i \in 1..Len(s) : stdout'[Len(stdout) + i] = s[i]
<1>1. Len(stdout) \in Nat /\ Len(s) \in Nat
  OBVIOUS
<1>2. CASE lost
  BY <1>1, <1>2 DEF Write
<1>3. CASE ~lost
  <2>1. stdout' = stdout \o s
    BY <1>3 DEF Write
  <2>2. /\ stdout \o s \in Seq(Nat) /\ Len(stdout \o s) = Len(stdout) + Len(s)
        /\ \A i \in 1..(Len(stdout) + Len(s)) :
             (stdout \o s)[i] = IF i <= Len(stdout) THEN stdout[i] ELSE s[i - Len(stdout)]
    BY ConcatProperties
  <2>. DEFINE both == stdout \o s
  <2>. HIDE DEF both
  <2>3. \A i \in 1..Len(stdout) : both[i] = stdout[i]
    BY <1>1, <2>2 DEF both
  <2>4. ASSUME NEW i \in 1..Len(s) PROVE both[Len(stdout) + i] = s[i]
    <3>. DEFINE j == Len(stdout) + i
    <3>1. j \in 1..(Len(stdout) + Len(s)) /\ ~(j <= Len(stdout)) /\ j - Len(stdout) = i
      BY <1>1
    <3>. HIDE DEF j
    <3>2. both[j] = s[i]
      BY <2>2, <3>1 DEF both
    <3>. QED
      BY <3>2 DEF j
  <2>. QED
    BY <2>1, <2>2, <2>3, <2>4 DEF both
<1>. QED
  BY <1>2, <1>3

\* The characters written for a prefix.
Prefixed == IF prefix THEN 2 ELSE 0

\* What has been read is written in digits after the prefix.
EncInv ==
  /\ input \in Seq(Byte) /\ rest \in Seq(Byte) /\ stdout \in Seq(Nat)
  /\ at \in {"prefix", "chunks", "exit"}
  /\ at = "prefix" => prefix /\ rest = input /\ stdout = <<>>
  /\ at # "prefix" =>
       \E n \in 0..Len(input) :
         /\ Len(rest) = Len(input) - n
         /\ \A i \in 1..Len(rest) : rest[i] = input[n + i]
         /\ Len(stdout) = Prefixed + 2 * n
         /\ prefix => stdout[1] = 0 /\ stdout[2] = X
         /\ \A i \in 1..n : /\ stdout[Prefixed + 2 * i - 1] = input[i] \div Base
                            /\ stdout[Prefixed + 2 * i] = input[i] % Base
         /\ at = "exit" => n = Len(input)

LEMMA PrefixKeepsEnc ==
  ASSUME EncInv, encoding, write_prefix, ~failed'
  PROVE  EncInv'
<1>1. /\ at = "prefix" /\ at' = "chunks" /\ rest' = rest /\ input' = input /\ prefix' = prefix
      /\ prefix /\ rest = input /\ stdout = <<>>
  BY DEF EncInv, write_prefix, options
<1>2. PICK lost \in BOOLEAN : Write(Zx, lost) /\ Fails(FALSE, lost)
  BY DEF write_prefix
<1>3. ~lost
  BY <1>2 DEF Fails
<1>4. stdout' = Zx
  BY <1>1, <1>2, <1>3, ConcatEmptySeq DEF Write, Zx
<1>5. stdout' \in Seq(Nat) /\ Len(stdout') = 2 /\ stdout'[1] = 0 /\ stdout'[2] = X
  BY <1>4, BaseAssumption DEF Zx, X
<1>6. input \in Seq(Byte) /\ Len(input) \in Nat
  BY DEF EncInv
<1>. QED
  BY <1>1, <1>5, <1>6 DEF EncInv, Prefixed

LEMMA DigitNat ==
  ASSUME NEW x \in Byte
  PROVE  x \div Base \in Nat /\ x % Base \in Nat
<1>. DEFINE q == x \div Base
            r == x % Base
<1>1. q \in 0..(Base - 1) /\ r \in 0..(Base - 1)
  BY DigitsOfByte
<1>. HIDE DEF q, r
<1>2. q \in Nat /\ r \in Nat
  BY <1>1, BaseAssumption
<1>. QED
  BY <1>2 DEF q, r

\* The digits of some bytes.
LEMMA EncFacts ==
  ASSUME NEW s \in Seq(Byte)
  PROVE  /\ enc(s) \in Seq(Nat) /\ Len(enc(s)) = 2 * Len(s)
         /\ \A i \in 1..Len(s) : enc(s)[2 * i - 1] = s[i] \div Base /\ enc(s)[2 * i] = s[i] % Base
<1>. DEFINE n == 2 * Len(s)
            digit(i) == IF i % 2 = 1 THEN s[(i + 1) \div 2] \div Base ELSE s[i \div 2] % Base
<1>1. Len(s) \in Nat /\ n \in Nat
  OBVIOUS
<1>2. enc(s) = [i \in 1..n |-> digit(i)]
  BY DEF enc
<1>3. ASSUME NEW i \in 1..n PROVE digit(i) \in Nat
  <2>1. CASE i % 2 = 1
    <3>1. (i + 1) \div 2 \in 1..Len(s)
      BY <1>1, <2>1
    <3>2. s[(i + 1) \div 2] \in Byte
      BY <3>1, ElementOfSeq
    <3>3. s[(i + 1) \div 2] \div Base \in Nat
      BY <3>2, DigitNat
    <3>. QED
      BY <2>1, <3>3
  <2>2. CASE i % 2 # 1
    <3>1. i \div 2 \in 1..Len(s)
      BY <1>1, <2>2
    <3>2. s[i \div 2] \in Byte
      BY <3>1, ElementOfSeq
    <3>3. s[i \div 2] % Base \in Nat
      BY <3>2, DigitNat
    <3>. QED
      BY <2>2, <3>3
  <2>. QED
    BY <2>1, <2>2
<1>4. ASSUME NEW i \in 1..Len(s)
      PROVE  /\ 2 * i - 1 \in 1..n /\ digit(2 * i - 1) = s[i] \div Base
             /\ 2 * i \in 1..n /\ digit(2 * i) = s[i] % Base
  <2>1. /\ 2 * i - 1 \in 1..n /\ (2 * i - 1) % 2 = 1 /\ (2 * i - 1 + 1) \div 2 = i
        /\ 2 * i \in 1..n /\ (2 * i) % 2 # 1 /\ (2 * i) \div 2 = i
    BY <1>1
  <2>. QED
    BY <2>1
<1>5. enc(s) \in Seq(Nat) /\ Len(enc(s)) = n
  <2>. HIDE DEF digit, n
  <2>1. enc(s) \in [1..n -> Nat]
    BY <1>2, <1>3
  <2>. QED
    BY <1>1, <2>1
<1>6. \A i \in 1..n : enc(s)[i] = digit(i)
  <2>. HIDE DEF digit, n
  <2>. QED
    BY <1>2
<1>7. \A i \in 1..Len(s) : enc(s)[2 * i - 1] = s[i] \div Base /\ enc(s)[2 * i] = s[i] % Base
  <2>. HIDE DEF digit, n
  <2>. QED
    BY <1>4, <1>6
<1>. QED
  BY <1>5, <1>7

LEMMA EncodeKeepsEnc ==
  ASSUME EncInv, encoding, encode, ~failed'
  PROVE  EncInv'
<1>1. at = "chunks" /\ input' = input /\ prefix' = prefix
  BY DEF encode, options
<1>2. PICK n \in Counts(Chunk), lost \in BOOLEAN :
        /\ Read(n, Chunk) /\ Write(enc(Got(n)), lost)
        /\ Fails(n < Least(Chunk, Len(rest)), lost /\ n > 0) /\ Continue(n)
  BY DEF encode
<1>3. /\ input \in Seq(Byte) /\ rest \in Seq(Byte) /\ stdout \in Seq(Nat)
      /\ Len(input) \in Nat /\ Len(rest) \in Nat /\ Chunk \in Nat
  BY ChunkAssumption DEF EncInv
<1>4. n = Least(Chunk, Len(rest)) /\ ~(lost /\ n > 0)
  <2>. DEFINE short == n < Least(Chunk, Len(rest))
              lossy == lost /\ n > 0
  <2>1. Fails(short, lossy)
    BY <1>2
  <2>2. ~short /\ ~lossy
    <3>. HIDE DEF short, lossy
    <3>. QED
      BY <2>1 DEF Fails
  <2>3. n \in 0..Least(Chunk, Len(rest))
    BY <1>2 DEF Counts
  <2>4. Least(Chunk, Len(rest)) \in Nat
    BY <1>3 DEF Least
  <2>5. n = Least(Chunk, Len(rest))
    BY <2>2, <2>3, <2>4
  <2>. QED
    BY <2>2, <2>5
<1>5. /\ n \in Nat /\ n <= Len(rest)
      /\ rest' \in Seq(Byte) /\ Len(rest') = Len(rest) - n
      /\ \A i \in 1..Len(rest') : rest'[i] = rest[n + i]
      /\ Got(n) \in Seq(Byte) /\ Len(Got(n)) = n
      /\ \A i \in 1..n : Got(n)[i] = rest[i]
      /\ n # Chunk => Len(rest') = 0
  BY <1>2, <1>3, <1>4, ReadFacts
<1>6. /\ enc(Got(n)) \in Seq(Nat) /\ Len(enc(Got(n))) = 2 * n
      /\ \A i \in 1..n : /\ enc(Got(n))[2 * i - 1] = rest[i] \div Base
                         /\ enc(Got(n))[2 * i] = rest[i] % Base
  <2>. DEFINE s == Got(n)
  <2>1. s \in Seq(Byte) /\ Len(s) = n /\ \A i \in 1..n : s[i] = rest[i]
    BY <1>5
  <2>. HIDE DEF s
  <2>2. /\ enc(s) \in Seq(Nat) /\ Len(enc(s)) = 2 * Len(s)
        /\ \A i \in 1..Len(s) : enc(s)[2 * i - 1] = s[i] \div Base /\ enc(s)[2 * i] = s[i] % Base
    BY <2>1, EncFacts
  <2>3. \A i \in 1..n : enc(s)[2 * i - 1] = rest[i] \div Base /\ enc(s)[2 * i] = rest[i] % Base
    BY <2>1, <2>2
  <2>. QED
    BY <2>1, <2>2, <2>3 DEF s
<1>7. ~(lost /\ Len(enc(Got(n))) > 0)
  BY <1>4, <1>5, <1>6
<1>8. /\ stdout' \in Seq(Nat) /\ Len(stdout') = Len(stdout) + 2 * n
      /\ \A i \in 1..Len(stdout) : stdout'[i] = stdout[i]
      /\ \A i \in 1..(2 * n) : stdout'[Len(stdout) + i] = enc(Got(n))[i]
  <2>. DEFINE s == enc(Got(n))
  <2>1. s \in Seq(Nat) /\ Write(s, lost) /\ ~(lost /\ Len(s) > 0) /\ Len(s) = 2 * n
    BY <1>2, <1>6, <1>7
  <2>. HIDE DEF s
  <2>2. /\ stdout' \in Seq(Nat) /\ Len(stdout') = Len(stdout) + Len(s)
        /\ \A i \in 1..Len(stdout) : stdout'[i] = stdout[i]
        /\ \A i \in 1..Len(s) : stdout'[Len(stdout) + i] = s[i]
    BY <1>3, <2>1, WriteFacts
  <2>. QED
    BY <2>1, <2>2 DEF s
<1>9. PICK k \in 0..Len(input) :
        /\ Len(rest) = Len(input) - k
        /\ \A i \in 1..Len(rest) : rest[i] = input[k + i]
        /\ Len(stdout) = Prefixed + 2 * k
        /\ prefix => stdout[1] = 0 /\ stdout[2] = X
        /\ \A i \in 1..k : /\ stdout[Prefixed + 2 * i - 1] = input[i] \div Base
                           /\ stdout[Prefixed + 2 * i] = input[i] % Base
  BY <1>1 DEF EncInv
<1>. DEFINE m == k + n
            p == Prefixed
<1>10. p \in {0, 2} /\ Prefixed' = p /\ (prefix => p = 2)
  BY <1>1 DEF Prefixed
<1>11. m \in 0..Len(input) /\ Len(rest') = Len(input) - m /\ Len(stdout') = p + 2 * m
  BY <1>3, <1>5, <1>8, <1>9, <1>10
<1>12. \A i \in 1..Len(rest') : rest'[i] = input[m + i]
  <2>. TAKE i \in 1..Len(rest')
  <2>1. n + i \in 1..Len(rest) /\ k + (n + i) = m + i
    BY <1>3, <1>5, <1>9
  <2>2. rest'[i] = rest[n + i] /\ rest[n + i] = input[k + (n + i)]
    BY <1>5, <1>9, <2>1
  <2>. QED
    BY <2>1, <2>2
<1>13. prefix => stdout'[1] = 0 /\ stdout'[2] = X
  <2>1. prefix => 1 \in 1..Len(stdout) /\ 2 \in 1..Len(stdout)
    BY <1>3, <1>9, <1>10
  <2>. QED
    BY <1>8, <1>9, <2>1
<1>14. ASSUME NEW i \in 1..m
       PROVE  stdout'[p + 2 * i - 1] = input[i] \div Base /\ stdout'[p + 2 * i] = input[i] % Base
  <2>1. CASE i <= k
    <3>1. i \in 1..k /\ p + 2 * i - 1 \in 1..Len(stdout) /\ p + 2 * i \in 1..Len(stdout)
      BY <1>3, <1>5, <1>9, <1>10, <2>1
    <3>. QED
      BY <1>8, <1>9, <3>1
  <2>2. CASE i > k
    <3>. DEFINE j == i - k
                a == 2 * j - 1
                b == 2 * j
    <3>1. j \in 1..n /\ j \in 1..Len(rest) /\ k + j = i
      BY <1>3, <1>5, <1>9, <2>2
    <3>2. /\ a \in 1..(2 * n) /\ b \in 1..(2 * n)
          /\ p + 2 * i - 1 = Len(stdout) + a /\ p + 2 * i = Len(stdout) + b
      BY <1>3, <1>5, <1>9, <1>10, <2>2, <3>1
    <3>3. stdout'[Len(stdout) + a] = enc(Got(n))[a] /\ stdout'[Len(stdout) + b] = enc(Got(n))[b]
      <4>. HIDE DEF a, b, j, p
      <4>. QED
        BY <1>8, <3>2
    <3>4. enc(Got(n))[a] = rest[j] \div Base /\ enc(Got(n))[b] = rest[j] % Base
      <4>. HIDE DEF j
      <4>. QED
        BY <1>6, <3>1
    <3>5. rest[j] = input[i]
      <4>. HIDE DEF j
      <4>1. rest[j] = input[k + j]
        BY <1>9, <3>1
      <4>. QED
        BY <3>1, <4>1
    <3>. QED
      <4>. HIDE DEF a, b, j, p
      <4>. QED
        BY <3>2, <3>3, <3>4, <3>5
  <2>. QED
    BY <1>3, <1>5, <1>9, <2>1, <2>2
<1>15. at' \in {"chunks", "exit"} /\ (at' = "exit" => m = Len(input))
  <2>1. at' = at \/ (n # Chunk /\ at' = "exit")
    BY <1>2 DEF Continue, Exit
  <2>2. n # Chunk => m = Len(input)
    BY <1>3, <1>5, <1>11
  <2>. QED
    BY <1>1, <2>1, <2>2
<1>. HIDE DEF m, p
<1>16. at' # "prefix" /\ at' \in {"prefix", "chunks", "exit"}
  BY <1>15
<1>. QED
  BY <1>1, <1>3, <1>5, <1>8, <1>10, <1>11, <1>12, <1>13, <1>14, <1>15, <1>16 DEF EncInv

LEMMA BytesFacts ==
  ASSUME NEW s \in Seq(Nat)
  PROVE  /\ Bytes(s) \in Seq(Nat) /\ Len(Bytes(s)) = Len(s) \div 2
         /\ \A i \in 1..(Len(s) \div 2) : Bytes(s)[i] = s[2 * i - 1] * Base + s[2 * i]
<1>. DEFINE b == Bytes(s)
            n == Len(s) \div 2
<1>1. Len(s) \in Nat /\ n \in Nat /\ 2 * n <= Len(s)
  OBVIOUS
<1>2. ASSUME NEW i \in 1..n PROVE s[2 * i - 1] * Base + s[2 * i] \in Nat
  <2>1. 2 * i - 1 \in 1..Len(s) /\ 2 * i \in 1..Len(s)
    BY <1>1
  <2>. DEFINE x == s[2 * i - 1]
              y == s[2 * i]
  <2>2. x \in Nat /\ y \in Nat
    BY <2>1
  <2>. HIDE DEF x, y
  <2>3. x * Base \in Nat
    BY <2>2, BaseAssumption, NatProduct
  <2>4. x * Base + y \in Nat
    BY <2>2, <2>3
  <2>. QED
    BY <2>4 DEF x, y
<1>3. b = [i \in 1..n |-> s[2 * i - 1] * Base + s[2 * i]]
  BY DEF Bytes
<1>4. b \in Seq(Nat) /\ Len(b) = n /\ \A i \in 1..n : b[i] = s[2 * i - 1] * Base + s[2 * i]
  <2>. HIDE DEF b, n
  <2>. QED
    BY <1>1, <1>2, <1>3
<1>. QED
  BY <1>4 DEF b, n

\* What has been written at the end.
LEMMA EncodingIsRight ==
  ASSUME EncInv
  PROVE  EncodingIsOfInput
<1>. DEFINE digits == IF prefix THEN Tail2(stdout) ELSE stdout
            p == Prefixed
            n == Len(input)
<1>. SUFFICES ASSUME at = "exit"
              PROVE  /\ prefix => IsPrefix(Zx, stdout)
                     /\ Digits(digits) /\ Len(digits) % 2 = 0
                     /\ Bytes(digits) = input
  BY DEF EncodingIsOfInput
<1>1. /\ input \in Seq(Byte) /\ stdout \in Seq(Nat) /\ n \in Nat
      /\ Len(stdout) = p + 2 * n
      /\ prefix => stdout[1] = 0 /\ stdout[2] = X
      /\ \A i \in 1..n : /\ stdout[p + 2 * i - 1] = input[i] \div Base
                         /\ stdout[p + 2 * i] = input[i] % Base
  <2>. HIDE DEF p
  <2>1. input \in Seq(Byte) /\ stdout \in Seq(Nat)
    BY DEF EncInv
  <2>2. PICK m \in 0..Len(input) :
          /\ Len(stdout) = p + 2 * m
          /\ prefix => stdout[1] = 0 /\ stdout[2] = X
          /\ \A i \in 1..m : /\ stdout[p + 2 * i - 1] = input[i] \div Base
                             /\ stdout[p + 2 * i] = input[i] % Base
          /\ m = Len(input)
    <3>1. at # "prefix"
      OBVIOUS
    <3>. QED
      BY <3>1 DEF EncInv, p
  <2>. QED
    BY <2>1, <2>2
<1>2. p \in {0, 2} /\ (prefix => p = 2) /\ (~prefix => p = 0)
  BY DEF Prefixed
<1>3. digits \in Seq(Nat) /\ Len(digits) = 2 * n /\ \A i \in 1..(2 * n) : digits[i] = stdout[p + i]
  <2>1. CASE prefix
    <3>1. digits = Tail2(stdout)
      BY <2>1
    <3>. HIDE DEF digits, n, p
    <3>2. digits \in Seq(Nat) /\ Len(digits) = 2 * n
      BY <1>1, <1>2, <2>1, <3>1, Tail2Facts
    <3>3. \A i \in 1..Len(digits) : digits[i] = stdout[i + 2]
      BY <1>1, <3>1, Tail2Facts
    <3>. QED
      BY <1>2, <2>1, <3>2, <3>3
  <2>2. CASE ~prefix
    <3>1. digits = stdout
      BY <2>2
    <3>. HIDE DEF digits, n, p
    <3>2. digits \in Seq(Nat) /\ Len(digits) = 2 * n
      BY <1>1, <1>2, <2>2, <3>1
    <3>. QED
      BY <1>1, <1>2, <2>2, <3>1, <3>2
  <2>. QED
    BY <2>1, <2>2
<1>. HIDE DEF digits, p, n
<1>4. ASSUME NEW i \in 1..n
      PROVE  /\ digits[2 * i - 1] \in 0..(Base - 1) /\ digits[2 * i] \in 0..(Base - 1)
             /\ digits[2 * i - 1] * Base + digits[2 * i] = input[i]
  <2>. DEFINE a == 2 * i - 1
              b == 2 * i
  <2>1. a \in 1..(2 * n) /\ b \in 1..(2 * n) /\ p + 2 * i - 1 = p + a
    BY <1>1, <1>2
  <2>2. digits[a] = stdout[p + a] /\ digits[b] = stdout[p + b]
    <3>. HIDE DEF a, b
    <3>. QED
      BY <1>3, <2>1
  <2>3. digits[a] = input[i] \div Base /\ digits[b] = input[i] % Base
    BY <1>1, <2>1, <2>2
  <2>4. input[i] \in Byte
    BY <1>1, ElementOfSeq DEF n
  <2>. HIDE DEF a, b
  <2>5. /\ input[i] \div Base \in 0..(Base - 1) /\ input[i] % Base \in 0..(Base - 1)
        /\ (input[i] \div Base) * Base + (input[i] % Base) = input[i]
    BY <2>4, DigitsOfByte
  <2>6. digits[a] \in 0..(Base - 1) /\ digits[b] \in 0..(Base - 1)
        /\ digits[a] * Base + digits[b] = input[i]
    BY <2>3, <2>5
  <2>. QED
    BY <2>6 DEF a, b
<1>5. Digits(digits)
  <2>1. ASSUME NEW i \in DOMAIN digits PROVE digits[i] < Base
    <3>. DEFINE j == (i + 1) \div 2
    <3>1. i \in 1..(2 * n)
      BY <1>3
    <3>2. j \in 1..n /\ (i = 2 * j - 1 \/ i = 2 * j)
      <4>1. n \in Nat
        BY <1>1
      <4>. QED
        BY <3>1, <4>1
    <3>. HIDE DEF j
    <3>3. digits[2 * j - 1] \in 0..(Base - 1) /\ digits[2 * j] \in 0..(Base - 1)
      BY <1>4, <3>2
    <3>4. digits[i] \in 0..(Base - 1)
      BY <3>2, <3>3
    <3>. QED
      BY <3>4, BaseAssumption
  <2>. QED
    BY <2>1 DEF Digits
<1>6. Bytes(digits) = input
  <2>. DEFINE b == Bytes(digits)
  <2>1. Len(digits) \div 2 = n
    BY <1>1, <1>3
  <2>2. /\ b \in Seq(Nat) /\ Len(b) = n
        /\ \A i \in 1..n : b[i] = digits[2 * i - 1] * Base + digits[2 * i]
    BY <1>3, <2>1, BytesFacts
  <2>. HIDE DEF b
  <2>3. \A i \in 1..Len(b) : b[i] = input[i]
    BY <1>4, <2>2
  <2>4. input \in Seq(Nat)
    <3>1. Byte \subseteq Nat
      BY DigitsOfByte
    <3>. QED
      BY <1>1, <3>1, SeqMonotonic
  <2>. QED
    BY <2>2, <2>3, <2>4, SeqEqual DEF b, n
<1>7. Len(digits) % 2 = 0
  BY <1>1, <1>3
<1>8. prefix => IsPrefix(Zx, stdout)
  <2>1. prefix => Len(stdout) >= 2
    BY <1>1, <1>2
  <2>. QED
    BY <1>1, <2>1, ZxIsPrefix
<1>. QED
  BY <1>5, <1>6, <1>7, <1>8 DEF digits

\* What has been read of digits is written as bytes; those that lack the
\* prefix, or the last one, end in an error.
DecInv ==
  /\ input \in Seq(Byte) /\ rest \in Seq(Byte) /\ stdout \in Seq(Nat)
  /\ at \in {"prefix", "chunks", "exit"}
  /\ at # "exit" => rc = 0
  /\ at = "prefix" => prefix /\ rest = input /\ stdout = <<>>
  /\ at = "chunks" =>
       /\ HasPrefix
       /\ \E n \in 0..(Len(Body) \div 2) :
            /\ Len(rest) = Len(Body) - 2 * n
            /\ \A i \in 1..Len(rest) : rest[i] = Body[2 * n + i]
            /\ Len(stdout) = n
            /\ \A i \in 1..n : stdout[i] = Bytes(Body)[i]
  /\ at = "exit" =>
       /\ Len(stdout) <= Len(Bytes(Body))
       /\ \A i \in 1..Len(stdout) : stdout[i] = Bytes(Body)[i]
       /\ rc = 0 <=> HasPrefix /\ Len(Body) % 2 = 0
       /\ rc = 0 => Len(stdout) = Len(Bytes(Body))

LEMMA BodyFacts ==
  ASSUME input \in Seq(Byte)
  PROVE  /\ input \in Seq(Nat) /\ Body \in Seq(Nat) /\ Len(Body) \in Nat
         /\ prefix => Body = Tail2(input) /\ Len(Body) = IF Len(input) >= 2 THEN Len(input) - 2 ELSE 0
         /\ ~prefix => Body = input
         /\ HasPrefix <=> (prefix => Len(input) >= 2 /\ input[1] = 0 /\ input[2] = X)
<1>1. input \in Seq(Nat)
  <2>1. Byte \subseteq Nat
    BY DigitsOfByte
  <2>. QED
    BY <2>1, SeqMonotonic
<1>2. Tail2(input) \in Seq(Nat) /\ Len(Tail2(input)) = IF Len(input) >= 2 THEN Len(input) - 2 ELSE 0
  BY <1>1, Tail2Facts
<1>3. Body \in Seq(Nat) /\ (prefix => Body = Tail2(input)) /\ (~prefix => Body = input)
  BY <1>1, <1>2 DEF Body
<1>4. HasPrefix <=> (prefix => Len(input) >= 2 /\ input[1] = 0 /\ input[2] = X)
  BY <1>1, ZxIsPrefix DEF HasPrefix
<1>. QED
  BY <1>1, <1>2, <1>3, <1>4

LEMMA PrefixKeepsDec ==
  ASSUME DecInv, ~encoding, expect_prefix, ~failed'
  PROVE  DecInv'
<1>1. /\ at = "prefix" /\ prefix /\ rest = input /\ stdout = <<>> /\ rc = 0
      /\ stdout' = stdout /\ input' = input /\ prefix' = prefix
      /\ input \in Seq(Byte) /\ rest \in Seq(Byte)
  BY DEF DecInv, expect_prefix, options
<1>2. PICK n \in Counts(2) :
        /\ Read(n, 2) /\ Fails(n < Least(2, Len(rest)), FALSE)
        /\ IF Got(n) = Zx THEN at' = "chunks" /\ UNCHANGED rc ELSE Exit(1)
  BY DEF expect_prefix
<1>3. n = Least(2, Len(rest))
  <2>1. ~(n < Least(2, Len(rest)))
    BY <1>2 DEF Fails
  <2>2. n \in 0..Least(2, Len(rest)) /\ Least(2, Len(rest)) \in Nat
    BY <1>1, <1>2 DEF Counts, Least
  <2>. QED
    BY <2>1, <2>2
<1>4. /\ n \in Nat /\ n <= Len(rest) /\ n <= 2
      /\ rest' \in Seq(Byte) /\ Len(rest') = Len(rest) - n
      /\ \A i \in 1..Len(rest') : rest'[i] = rest[n + i]
      /\ Got(n) \in Seq(Byte) /\ Len(Got(n)) = n
      /\ \A i \in 1..n : Got(n)[i] = rest[i]
  BY <1>1, <1>2, <1>3, ReadFacts
<1>5. /\ Body \in Seq(Nat) /\ Len(Body) \in Nat /\ Body = Tail2(input)
      /\ Len(Body) = IF Len(input) >= 2 THEN Len(input) - 2 ELSE 0
      /\ HasPrefix <=> Len(input) >= 2 /\ input[1] = 0 /\ input[2] = X
  BY <1>1, BodyFacts
<1>6. Body' = Body /\ HasPrefix' = HasPrefix /\ Bytes(Body)' = Bytes(Body)
  BY <1>1 DEF Body, HasPrefix
<1>7. Len(Bytes(Body)) \in Nat /\ Len(stdout) = 0 /\ stdout \in Seq(Nat)
  BY <1>1, <1>5, BytesFacts
<1>8. Zx \in Seq(Nat) /\ Len(Zx) = 2 /\ Zx[1] = 0 /\ Zx[2] = X
  BY BaseAssumption DEF Zx, X
<1>9. Got(n) = Zx <=> HasPrefix
  <2>. DEFINE g == Got(n)
  <2>1. /\ g \in Seq(Nat) /\ Len(g) = n /\ \A i \in 1..n : g[i] = input[i]
    <3>1. Byte \subseteq Nat
      BY DigitsOfByte
    <3>. QED
      BY <1>1, <1>4, <3>1, SeqMonotonic
  <2>. HIDE DEF g
  <2>2. ASSUME g = Zx PROVE HasPrefix
    <3>1. n = 2 /\ 1 \in 1..n /\ 2 \in 1..n
      BY <1>8, <2>1, <2>2
    <3>. QED
      BY <1>1, <1>4, <1>5, <1>8, <2>1, <2>2, <3>1
  <2>3. ASSUME HasPrefix PROVE g = Zx
    <3>1. n = 2
      BY <1>1, <1>3, <1>5, <2>3 DEF Least
    <3>2. \A i \in 1..Len(g) : i = 1 \/ i = 2
      BY <2>1, <3>1
    <3>3. g[1] = Zx[1] /\ g[2] = Zx[2]
      BY <1>5, <1>8, <2>1, <2>3, <3>1
    <3>. QED
      BY <1>8, <2>1, <3>1, <3>2, <3>3, SeqEqual
  <2>. QED
    BY <2>2, <2>3 DEF g
<1>10. CASE Got(n) = Zx
  <2>1. HasPrefix /\ at' = "chunks" /\ rc' = 0
    BY <1>1, <1>2, <1>9, <1>10
  <2>2. n = 2 /\ Len(input) \in Nat /\ Len(input) >= 2
    BY <1>1, <1>3, <1>5, <2>1 DEF Least
  <2>3. Len(rest') = Len(Body) - 2 * 0 /\ 0 \in 0..(Len(Body) \div 2)
    BY <1>1, <1>4, <1>5, <2>2
  <2>4. ASSUME NEW i \in 1..Len(rest') PROVE rest'[i] = Body[2 * 0 + i]
    <3>1. i \in 1..Len(Tail2(input))
      BY <1>5, <2>3, <2>4
    <3>2. Tail2(input)[i] = input[i + 2]
      BY <1>1, <3>1, Tail2Facts
    <3>3. 2 * 0 + i = i /\ n + i = i + 2
      BY <2>2
    <3>. QED
      BY <1>1, <1>4, <1>5, <3>2, <3>3
  <2>5. Len(stdout') = 0 /\ stdout' \in Seq(Nat) /\ \A i \in 1..0 : stdout'[i] = Bytes(Body)[i]
    BY <1>1, <1>7
  <2>6. \E m \in 0..(Len(Body) \div 2) :
            /\ Len(rest') = Len(Body) - 2 * m
            /\ \A i \in 1..Len(rest') : rest'[i] = Body[2 * m + i]
            /\ Len(stdout') = m
            /\ \A i \in 1..m : stdout'[i] = Bytes(Body)[i]
    BY <2>3, <2>4, <2>5
  <2>. QED
    BY <1>1, <1>4, <1>6, <2>1, <2>5, <2>6 DEF DecInv
<1>11. CASE Got(n) # Zx
  <2>1. ~HasPrefix /\ at' = "exit" /\ rc' = 1
    BY <1>2, <1>9, <1>11 DEF Exit
  <2>2. Len(stdout') = 0 /\ stdout' \in Seq(Nat) /\ rc' # 0
    BY <1>1, <1>7, <2>1
  <2>3. Len(stdout') <= Len(Bytes(Body)) /\ \A i \in 1..Len(stdout') : stdout'[i] = Bytes(Body)[i]
    BY <1>7, <2>2
  <2>. QED
    BY <1>1, <1>4, <1>6, <2>1, <2>2, <2>3 DEF DecInv
<1>. QED
  BY <1>10, <1>11

\* The bytes of some digits; no even number of them is refused.
LEMMA DecFacts ==
  ASSUME NEW s \in Seq(Byte), \A i \in 1..Len(s) : s[i] < Base
  PROVE  /\ invalid(s) <=> Len(s) % 2 = 1
         /\ decoded(s) \in Seq(Nat) /\ Len(decoded(s)) = Len(s) \div 2
         /\ \A i \in 1..(Len(s) \div 2) : decoded(s)[i] = s[2 * i - 1] * Base + s[2 * i]
<1>. DEFINE d == decoded(s)
            n == Len(s) \div 2
            value(i) == (dec(s[2 * i - 1]) * Base + dec(s[2 * i])) % (Base * Base)
<1>1. Len(s) \in Nat /\ n \in Nat /\ \A i \in 1..n : 2 * i - 1 \in 1..Len(s) /\ 2 * i \in 1..Len(s)
  OBVIOUS
<1>2. ASSUME NEW i \in 1..Len(s) PROVE dec(s[i]) = s[i] /\ s[i] \in 0..(Base - 1)
  <2>1. s[i] \in Byte /\ s[i] < Base
    BY <1>2, ElementOfSeq
  <2>2. s[i] \in Nat
    BY <2>1, DigitsOfByte
  <2>. QED
    BY <2>1, <2>2, BaseAssumption DEF dec
<1>3. invalid(s) <=> Len(s) % 2 = 1
  <2>1. ASSUME NEW i \in DOMAIN s PROVE ~(dec(s[i]) >= Base)
    <3>1. dec(s[i]) \in 0..(Base - 1)
      BY <1>2
    <3>. QED
      BY <3>1, BaseAssumption
  <2>. QED
    BY <2>1 DEF invalid
<1>4. ASSUME NEW i \in 1..n
      PROVE  value(i) = s[2 * i - 1] * Base + s[2 * i] /\ value(i) \in Nat
  <2>. DEFINE x == s[2 * i - 1]
              y == s[2 * i]
  <2>1. x \in 0..(Base - 1) /\ y \in 0..(Base - 1) /\ dec(x) = x /\ dec(y) = y
    BY <1>1, <1>2
  <2>. HIDE DEF x, y
  <2>2. Base \in Nat \ {0}
    BY BaseAssumption
  <2>3. x * Base + y \in 0..(Base * Base - 1)
    BY <2>1, <2>2, Below
  <2>4. Base * Base \in Nat \ {0}
    BY <2>2, ProductType
  <2>. DEFINE z == x * Base + y
              c == Base * Base
  <2>5. z % c = z /\ z \in Nat
    <3>. HIDE DEF z, c
    <3>1. z \in 0..(c - 1) /\ c \in Nat \ {0}
      BY <2>3, <2>4 DEF z, c
    <3>. QED
      BY <3>1
  <2>6. value(i) = (dec(x) * Base + dec(y)) % (Base * Base)
    BY DEF x, y
  <2>7. value(i) = z % c
    BY <2>1, <2>6
  <2>. QED
    BY <2>5, <2>7 DEF x, y
<1>5. d = [i \in 1..n |-> value(i)]
  BY DEF decoded
<1>6. d \in Seq(Nat) /\ Len(d) = n /\ \A i \in 1..n : d[i] = value(i)
  <2>. HIDE DEF d, n, value
  <2>. QED
    BY <1>1, <1>4, <1>5
<1>7. \A i \in 1..n : d[i] = s[2 * i - 1] * Base + s[2 * i]
  <2>. HIDE DEF d, n, value
  <2>. QED
    BY <1>4, <1>6
<1>. QED
  BY <1>3, <1>6, <1>7

LEMMA DecodeKeepsDec ==
  ASSUME DecInv, Digits(Body), ~encoding, decode, ~failed'
  PROVE  DecInv'
<1>. DEFINE L == Len(Body)
            b == Bytes(Body)
<1>1. at = "chunks" /\ rc = 0 /\ input' = input /\ prefix' = prefix
  BY DEF DecInv, decode, options
<1>2. PICK n \in Counts(Chunk), lost \in BOOLEAN :
        /\ Read(n, Chunk)
        /\ IF invalid(Got(n))
             THEN /\ ~lost /\ Exit(1)
                  /\ Fails(n < Least(Chunk, Len(rest)), FALSE)
                  /\ UNCHANGED stdout
             ELSE /\ Write(decoded(Got(n)), lost)
                  /\ Fails(n < Least(Chunk, Len(rest)), lost /\ n > 0)
                  /\ Continue(n)
  BY DEF decode
<1>3. /\ input \in Seq(Byte) /\ rest \in Seq(Byte) /\ stdout \in Seq(Nat) /\ HasPrefix
      /\ Len(rest) \in Nat /\ Len(stdout) \in Nat /\ Chunk \in Nat /\ Chunk % 2 = 0
  BY <1>1, ChunkAssumption DEF DecInv
<1>4. n = Least(Chunk, Len(rest)) /\ (~invalid(Got(n)) => ~(lost /\ n > 0))
  <2>. DEFINE short == n < Least(Chunk, Len(rest))
              lossy == lost /\ n > 0
              bad == invalid(Got(n))
  <2>1. IF bad THEN Fails(short, FALSE) ELSE Fails(short, lossy)
    BY <1>2
  <2>2. ~short /\ (~bad => ~lossy)
    <3>. HIDE DEF short, lossy, bad
    <3>. QED
      BY <2>1 DEF Fails
  <2>3. n \in 0..Least(Chunk, Len(rest))
    BY <1>2 DEF Counts
  <2>4. Least(Chunk, Len(rest)) \in Nat
    BY <1>3 DEF Least
  <2>. HIDE DEF lossy, bad
  <2>5. n = Least(Chunk, Len(rest))
    BY <2>2, <2>3, <2>4
  <2>. QED
    BY <2>2, <2>5 DEF lossy, bad
<1>5. /\ n \in Nat /\ n <= Len(rest)
      /\ rest' \in Seq(Byte) /\ Len(rest') = Len(rest) - n
      /\ \A i \in 1..Len(rest') : rest'[i] = rest[n + i]
      /\ Got(n) \in Seq(Byte) /\ Len(Got(n)) = n
      /\ \A i \in 1..n : Got(n)[i] = rest[i]
      /\ n # Chunk => Len(rest') = 0
  BY <1>2, <1>3, <1>4, ReadFacts
<1>6. PICK m \in 0..(L \div 2) :
        /\ Len(rest) = L - 2 * m
        /\ \A i \in 1..Len(rest) : rest[i] = Body[2 * m + i]
        /\ Len(stdout) = m
        /\ \A i \in 1..m : stdout[i] = b[i]
  BY <1>1 DEF DecInv
<1>7. Body \in Seq(Nat) /\ L \in Nat /\ b \in Seq(Nat) /\ Len(b) = L \div 2
      /\ \A i \in 1..(L \div 2) : b[i] = Body[2 * i - 1] * Base + Body[2 * i]
  BY <1>3, BodyFacts, BytesFacts
<1>8. Body' = Body /\ HasPrefix' = HasPrefix /\ Bytes(Body)' = Bytes(Body)
  BY <1>1 DEF Body, HasPrefix
<1>9. \A i \in 1..L : Body[i] < Base
  BY <1>7 DEF Digits
<1>. DEFINE g == Got(n)
            h == n \div 2
<1>. HIDE DEF L, b
<1>10. g \in Seq(Byte) /\ Len(g) = n /\ \A i \in 1..n : g[i] = Body[2 * m + i] /\ g[i] < Base
  <2>1. g \in Seq(Byte) /\ Len(g) = n /\ \A i \in 1..n : g[i] = rest[i]
    BY <1>5
  <2>2. ASSUME NEW i \in 1..n PROVE g[i] = Body[2 * m + i] /\ g[i] < Base
    <3>. DEFINE k == 2 * m + i
    <3>1. i \in 1..Len(rest) /\ k \in 1..L
      BY <1>3, <1>5, <1>6, <1>7
    <3>2. g[i] = Body[k]
      BY <1>6, <2>1, <3>1
    <3>. HIDE DEF k, g
    <3>3. Body[k] < Base
      BY <1>9, <3>1
    <3>. QED
      BY <3>2, <3>3 DEF k
  <2>. QED
    BY <2>1, <2>2
<1>11. /\ invalid(g) <=> n % 2 = 1
       /\ decoded(g) \in Seq(Nat) /\ Len(decoded(g)) = h
       /\ \A i \in 1..h : decoded(g)[i] = g[2 * i - 1] * Base + g[2 * i]
  <2>. HIDE DEF g
  <2>. QED
    BY <1>10, DecFacts
<1>12. CASE n % 2 = 1
  <2>1. at' = "exit" /\ rc' = 1 /\ stdout' = stdout
    BY <1>2, <1>11, <1>12 DEF Exit
  <2>2. n # Chunk
    <3>1. Chunk % 2 = 0
      BY <1>3
    <3>. QED
      BY <1>12, <3>1
  <2>3. Len(rest') = 0 /\ Len(rest) = n
    BY <1>3, <1>5, <2>2
  <2>4. L % 2 = 1
    <3>1. L = 2 * m + n /\ m \in Nat /\ n \in Nat
      BY <1>5, <1>6, <1>7, <2>3
    <3>. QED
      BY <1>12, <3>1
  <2>5. Len(stdout') <= Len(b) /\ \A i \in 1..Len(stdout') : stdout'[i] = b[i]
    BY <1>6, <1>7, <2>1
  <2>6. rc' # 0 /\ L % 2 # 0
    BY <2>1, <2>4
  <2>. QED
    BY <1>1, <1>3, <1>5, <1>8, <2>1, <2>5, <2>6 DEF DecInv, L, b
<1>13. CASE n % 2 # 1
  <2>1. Write(decoded(g), lost) /\ Continue(n) /\ ~(lost /\ n > 0)
    BY <1>2, <1>4, <1>11, <1>13
  <2>2. h \in Nat /\ 2 * h = n /\ m + h \in 0..(L \div 2) /\ Len(rest') = L - 2 * (m + h)
    BY <1>5, <1>6, <1>7, <1>13
  <2>3. ~(lost /\ Len(decoded(g)) > 0)
    <3>1. h > 0 => n > 0
      BY <2>2
    <3>. HIDE DEF g, h
    <3>. QED
      BY <1>11, <2>1, <3>1
  <2>4. /\ stdout' \in Seq(Nat) /\ Len(stdout') = m + h
        /\ \A i \in 1..m : stdout'[i] = b[i]
        /\ \A i \in 1..h : stdout'[m + i] = decoded(g)[i]
    <3>. DEFINE s == decoded(g)
    <3>1. s \in Seq(Nat) /\ Len(s) = h /\ Write(s, lost) /\ ~(lost /\ Len(s) > 0)
      BY <1>11, <2>1, <2>3
    <3>. HIDE DEF g, h, s
    <3>2. /\ stdout' \in Seq(Nat) /\ Len(stdout') = Len(stdout) + Len(s)
          /\ \A i \in 1..Len(stdout) : stdout'[i] = stdout[i]
          /\ \A i \in 1..Len(s) : stdout'[Len(stdout) + i] = s[i]
      BY <1>3, <3>1, WriteFacts
    <3>. QED
      BY <1>6, <3>1, <3>2 DEF s
  <2>. HIDE DEF h
  <2>5. ASSUME NEW i \in 1..(m + h) PROVE stdout'[i] = b[i]
    <3>1. CASE i <= m
      BY <2>2, <2>4, <3>1
    <3>2. CASE i > m
      <4>. DEFINE j == i - m
                  c == 2 * j - 1
                  d == 2 * j
      <4>1. j \in 1..h /\ m + j = i
        BY <1>6, <2>2, <3>2
      <4>2. /\ c \in 1..n /\ d \in 1..n /\ 2 * m + c = 2 * i - 1 /\ 2 * m + d = 2 * i
            /\ i \in 1..(L \div 2)
        BY <1>5, <1>6, <1>7, <2>2, <4>1
      <4>3. stdout'[i] = decoded(g)[j] /\ decoded(g)[j] = g[c] * Base + g[d]
        <5>. HIDE DEF j, g
        <5>1. stdout'[m + j] = decoded(g)[j]
          BY <2>4, <4>1
        <5>2. decoded(g)[j] = g[2 * j - 1] * Base + g[2 * j]
          BY <1>11, <4>1
        <5>. QED
          BY <4>1, <5>1, <5>2
      <4>. HIDE DEF g, j, c, d
      <4>4. g[c] = Body[2 * m + c] /\ g[d] = Body[2 * m + d]
        BY <1>10, <4>2
      <4>5. b[i] = Body[2 * i - 1] * Base + Body[2 * i]
        BY <1>7, <4>2
      <4>. QED
        BY <4>2, <4>3, <4>4, <4>5
    <3>. QED
      BY <1>6, <2>2, <3>1, <3>2
  <2>6. CASE n = Chunk
    <3>1. at' = "chunks" /\ rc' = 0
      BY <1>1, <2>1, <2>6 DEF Continue
    <3>2. ASSUME NEW i \in 1..Len(rest') PROVE rest'[i] = Body[2 * (m + h) + i]
      <4>. DEFINE k == n + i
      <4>1. k \in 1..Len(rest) /\ 2 * m + k = 2 * (m + h) + i
        <5>1. Len(rest') = Len(rest) - n /\ n \in Nat /\ Len(rest) \in Nat
          BY <1>3, <1>5
        <5>2. 2 * h = n /\ h \in Nat /\ m \in Nat
          BY <1>6, <1>7, <2>2
        <5>. QED
          BY <5>1, <5>2
      <4>2. rest'[i] = rest[k]
        BY <1>5
      <4>. HIDE DEF k
      <4>3. rest[k] = Body[2 * m + k]
        BY <1>6, <4>1
      <4>. QED
        BY <4>1, <4>2, <4>3
    <3>. DEFINE k == m + h
    <3>3. /\ k \in 0..(L \div 2) /\ Len(rest') = L - 2 * k
          /\ \A i \in 1..Len(rest') : rest'[i] = Body[2 * k + i]
          /\ Len(stdout') = k
          /\ \A i \in 1..k : stdout'[i] = b[i]
      BY <2>2, <2>4, <2>5, <3>2
    <3>. HIDE DEF k
    <3>4. at' # "prefix" /\ at' # "exit" /\ at' \in {"prefix", "chunks", "exit"}
      BY <3>1
    <3>. QED
      BY <1>1, <1>3, <1>5, <1>8, <2>4, <3>1, <3>3, <3>4 DEF DecInv, L, b
  <2>7. CASE n # Chunk
    <3>1. at' = "exit" /\ rc' = 0
      BY <2>1, <2>7 DEF Continue, Exit
    <3>2. L = 2 * (m + h) /\ m + h \in Nat
      BY <1>5, <1>6, <1>7, <2>2, <2>7
    <3>3. L % 2 = 0 /\ L \div 2 = m + h
      BY <3>2
    <3>4. Len(stdout') = Len(b) /\ Len(stdout') <= Len(b)
      BY <1>7, <2>2, <2>4, <3>3
    <3>5. \A i \in 1..Len(stdout') : stdout'[i] = b[i]
      BY <2>4, <2>5
    <3>. QED
      BY <1>1, <1>3, <1>5, <1>8, <2>4, <3>1, <3>3, <3>4, <3>5 DEF DecInv, L, b
  <2>. QED
    BY <2>6, <2>7
<1>. QED
  BY <1>12, <1>13

\* What has been written at any time.
LEMMA DecodingIsRight ==
  ASSUME DecInv
  PROVE  /\ IsPrefix(stdout, Bytes(Body))
         /\ at = "exit" => /\ rc = 0 <=> HasPrefix /\ Len(Body) % 2 = 0
                           /\ rc = 0 => stdout = Bytes(Body)
<1>. DEFINE b == Bytes(Body)
<1>1. stdout \in Seq(Nat) /\ Body \in Seq(Nat) /\ Len(Body) \in Nat
      /\ b \in Seq(Nat) /\ Len(b) = Len(Body) \div 2 /\ Len(stdout) \in Nat
  BY BodyFacts, BytesFacts DEF DecInv
<1>2. Len(stdout) <= Len(b) /\ \A i \in 1..Len(stdout) : stdout[i] = b[i]
  <2>1. CASE at = "prefix"
    <3>1. Len(stdout) = 0
      BY <2>1 DEF DecInv
    <3>. HIDE DEF b
    <3>. QED
      BY <1>1, <3>1
  <2>2. CASE at = "chunks"
    <3>1. \E n \in 0..(Len(Body) \div 2) : Len(stdout) = n /\ \A i \in 1..n : stdout[i] = b[i]
      BY <2>2 DEF DecInv
    <3>. HIDE DEF b
    <3>. QED
      BY <1>1, <3>1
  <2>3. CASE at = "exit"
    BY <2>3 DEF DecInv
  <2>. QED
    BY <2>1, <2>2, <2>3 DEF DecInv
<1>. HIDE DEF b
<1>3. IsPrefix(stdout, b)
  BY <1>1, <1>2, IsPrefixIff
<1>4. at = "exit" => /\ rc = 0 <=> HasPrefix /\ Len(Body) % 2 = 0
                     /\ rc = 0 => Len(stdout) = Len(b)
  BY DEF DecInv, b
<1>5. Len(stdout) = Len(b) => stdout = b
  BY <1>1, <1>2, SeqEqual
<1>. QED
  BY <1>3, <1>4, <1>5 DEF b

HexInv ==
  IF program = "hex"
    THEN /\ encoding \in BOOLEAN /\ failed \in BOOLEAN
         /\ encoding /\ ~failed => EncInv
         /\ ~encoding /\ ~failed /\ Digits(Body) => DecInv
    ELSE at = "prefix" /\ encoding

LEMMA HexKeeps ==
  ASSUME HexInv, program = "hex", UNCHANGED program, NextHex
  PROVE  HexInv'
<1>1. encoding' = encoding /\ prefix' = prefix /\ input' = input
  BY DEF NextHex, expect_prefix, write_prefix, encode, decode, options
<1>2. Digits(Body)' = Digits(Body)
  BY <1>1 DEF Body
<1>3. failed' \in BOOLEAN /\ (~failed' => ~failed)
  <2>1. \E short, lost \in BOOLEAN : Fails(short, lost)
    <3>1. \A x, y : (x < y) \in BOOLEAN
      BY SMT
    <3>. QED
      BY <3>1 DEF NextHex, expect_prefix, write_prefix, encode, decode
  <2>. QED
    BY <2>1 DEF Fails, HexInv
<1>4. CASE encoding
  <2>1. write_prefix \/ encode
    BY <1>4 DEF NextHex, expect_prefix, decode
  <2>. QED
    BY <1>1, <1>3, <1>4, <2>1, PrefixKeepsEnc, EncodeKeepsEnc DEF HexInv
<1>5. CASE ~encoding
  <2>1. expect_prefix \/ decode
    BY <1>5 DEF NextHex, write_prefix, encode
  <2>. QED
    BY <1>1, <1>2, <1>3, <1>5, <2>1, PrefixKeepsDec, DecodeKeepsDec DEF HexInv
<1>. QED
  BY <1>4, <1>5 DEF HexInv

LEMMA HexRight ==
  ASSUME HexInv
  PROVE  HexIsRight
<1>1. EncodingIsOfInput
  <2>1. CASE encoding /\ at = "exit" /\ ~failed
    <3>1. EncInv
      BY <2>1 DEF HexInv
    <3>. QED
      BY <3>1, EncodingIsRight
  <2>. QED
    BY <2>1 DEF EncodingIsOfInput
<1>2. HexIsDecoded
  <2>1. CASE ~encoding /\ ~failed /\ Digits(Body)
    <3>1. DecInv
      BY <2>1 DEF HexInv
    <3>. QED
      BY <3>1, DecodingIsRight DEF HexIsDecoded
  <2>. QED
    BY <2>1 DEF HexIsDecoded
<1>. QED
  BY <1>1, <1>2 DEF HexIsRight

-----------------------------------------------------------------------------
(* One of the programs runs.                                               *)

ToolsInv ==
  /\ program \in Program
  /\ HeldInv /\ YieldInv /\ GioInv /\ ValuesInv /\ HexInv

LEMMA InitIsInv ==
  ASSUME InitTools
  PROVE  ToolsInv
<1>1. program \in Program /\ HeldInv /\ stage # "yielded" /\ process = "none"
  BY DEF InitTools, InitTool, HeldInv, Opened, Closed
<1>2. YieldInv
  BY <1>1 DEF InitTools, InitTool, YieldInv
<1>3. GioInv
  BY DEF InitTools, InitGio, GioInv
<1>4. ValuesInv
  BY TextsAssumption DEF InitTools, InitValues, ValuesInv, Field
<1>5. HexInv
  <2>1. CASE program # "hex"
    BY <2>1 DEF InitTools, InitHex, HexInv
  <2>2. CASE program = "hex"
    <3>1. /\ encoding \in BOOLEAN /\ prefix \in BOOLEAN /\ input \in Inputs /\ rest = input
          /\ stdout = <<>> /\ at = (IF prefix THEN "prefix" ELSE "chunks") /\ rc = 0
          /\ failed = FALSE
      BY <2>2 DEF InitTools, InitHex
    <3>2. input \in Seq(Byte) /\ rest \in Seq(Byte) /\ stdout \in Seq(Nat)
          /\ Len(stdout) = 0 /\ Len(input) \in Nat
      BY <3>1, InputsAssumption DEF Byte
    <3>3. CASE prefix
      BY <3>1, <3>2, <3>3, <2>2 DEF HexInv, EncInv, DecInv
    <3>4. CASE ~prefix
      <4>1. EncInv
        <5>1. /\ 0 \in 0..Len(input) /\ Len(rest) = Len(input) - 0
              /\ \A i \in 1..Len(rest) : rest[i] = input[0 + i]
              /\ Len(stdout) = Prefixed + 2 * 0
              /\ \A i \in 1..0 : /\ stdout[Prefixed + 2 * i - 1] = input[i] \div Base
                                 /\ stdout[Prefixed + 2 * i] = input[i] % Base
          BY <3>1, <3>2, <3>4 DEF Prefixed
        <5>2. at = "chunks"
          BY <3>1, <3>4
        <5>. QED
          BY <3>2, <3>4, <5>1, <5>2 DEF EncInv
      <4>2. DecInv
        <5>1. Body = input /\ HasPrefix
          BY <3>4 DEF Body, HasPrefix
        <5>2. /\ 0 \in 0..(Len(Body) \div 2) /\ Len(rest) = Len(Body) - 2 * 0
              /\ \A i \in 1..Len(rest) : rest[i] = Body[2 * 0 + i]
              /\ Len(stdout) = 0
              /\ \A i \in 1..0 : stdout[i] = Bytes(Body)[i]
          BY <3>1, <3>2, <5>1
        <5>3. at = "chunks"
          BY <3>1, <3>4
        <5>. HIDE DEF Body, HasPrefix
        <5>. QED
          BY <3>1, <3>2, <5>1, <5>2, <5>3 DEF DecInv
      <4>. QED
        BY <2>2, <3>1, <4>1, <4>2 DEF HexInv
    <3>. QED
      BY <3>3, <3>4
  <2>. QED
    BY <2>1, <2>2
<1>. QED
  BY <1>1, <1>2, <1>3, <1>4, <1>5 DEF ToolsInv

\* What the program that runs leaves alone.
LEMMA OthersKeep ==
  ASSUME ToolsInv, UNCHANGED program
  PROVE  /\ program # "yield" /\ UNCHANGED process => YieldInv'
         /\ program # "gio" /\ UNCHANGED progress => GioInv'
         /\ program # "voucher" /\ UNCHANGED varsValues => ValuesInv'
         /\ program # "hex" /\ UNCHANGED varsHex => HexInv'
BY DEF ToolsInv, YieldInv, GioInv, ValuesInv, HexInv, varsValues, varsHex

LEMMA NextKeepsInv ==
  ASSUME ToolsInv, [NextTools]_varsTools
  PROVE  ToolsInv' /\ (WholeStep \/ UNCHANGED varsIo)
<1>1. program' = program /\ program \in Program
  BY DEF ToolsInv, NextTools, varsTools
<1>2. CASE UNCHANGED varsTools
  <2>1. /\ UNCHANGED <<program, held, stage, rr, word, asked, answered, args, process>>
        /\ UNCHANGED <<caller, json, progress, response>>
        /\ UNCHANGED <<text, field, tool, server>>
        /\ UNCHANGED <<encoding, prefix, input, rest, stdout, at, rc, failed>>
    BY <1>2 DEF varsTools, varsTool, varsIo, varsGio, varsValues, varsHex
  <2>2. UNCHANGED varsIo
    BY <2>1 DEF varsIo
  <2>3. HeldInv'
    BY <2>1 DEF ToolsInv, HeldInv
  <2>4. YieldInv'
    <3>1. Request' = Request
      BY <2>1 DEF Request
    <3>. QED
      BY <2>1, <3>1 DEF ToolsInv, YieldInv, Parses
  <2>5. GioInv'
    <3>1. GioRequest' = GioRequest
      BY <2>1 DEF GioRequest
    <3>. QED
      BY <2>1, <3>1 DEF ToolsInv, GioInv
  <2>6. ValuesInv'
    <3>1. Served' = Served /\ Parsed' = Parsed
      BY <2>1 DEF Served, Parsed, Matches, MaxDigits, AddressIsValid
    <3>2. \A old : Filled(old)' = Filled(old)
      BY <2>1, <3>1 DEF Filled
    <3>. QED
      BY <2>1, <3>1, <3>2 DEF ToolsInv, ValuesInv
  <2>7. HexInv'
    <3>1. Body' = Body /\ Prefixed' = Prefixed /\ HasPrefix' = HasPrefix
      BY <2>1 DEF Body, Prefixed, HasPrefix
    <3>2. EncInv' <=> EncInv
      BY <2>1, <3>1 DEF EncInv
    <3>3. DecInv' <=> DecInv
      BY <2>1, <3>1 DEF DecInv
    <3>4. Digits(Body)' <=> Digits(Body)
      BY <3>1
    <3>. QED
      BY <2>1, <3>2, <3>3, <3>4 DEF ToolsInv, HexInv
  <2>. QED
    BY <1>1, <2>2, <2>3, <2>4, <2>5, <2>6, <2>7 DEF ToolsInv
<1>3. CASE program = "driver" /\ NextTools
  <2>1. NextIo /\ UNCHANGED <<process, progress, varsValues, varsHex>>
    BY <1>3 DEF NextTools
  <2>2. HeldInv' /\ WholeStep
    <3>1. CASE Opening
      BY <3>1, OpeningKeeps DEF ToolsInv
    <3>2. ASSUME NEW request \in Requests, yields(request) PROVE HeldInv' /\ WholeStep
      BY <3>2, FieldsAssumption, YieldingKeeps DEF ToolsInv
    <3>3. CASE yield_fails
      BY <3>3, FailingKeeps DEF ToolsInv
    <3>4. ASSUME NEW answer \in Answers, yield_returns(answer) PROVE HeldInv' /\ WholeStep
      BY <3>4, ReturningKeeps DEF ToolsInv
    <3>. QED
      BY <2>1, <3>1, <3>2, <3>3, <3>4 DEF NextIo, Opening
  <2>. QED
    BY <1>1, <1>3, <2>1, <2>2, OthersKeep DEF ToolsInv
<1>4. CASE program = "yield" /\ NextTools
  <2>1. NextTool /\ UNCHANGED <<progress, varsValues, varsHex>>
    BY <1>4 DEF NextTools
  <2>2. HeldInv' /\ YieldInv' /\ (WholeStep \/ UNCHANGED varsIo)
    BY <1>1, <1>4, <2>1, ToolKeeps DEF ToolsInv
  <2>. QED
    BY <1>1, <1>4, <2>1, <2>2, OthersKeep DEF ToolsInv
<1>5. CASE program = "gio" /\ NextTools
  <2>1. NextGio /\ UNCHANGED <<process, varsValues, varsHex>>
    BY <1>5 DEF NextTools
  <2>2. HeldInv' /\ GioInv' /\ (WholeStep \/ UNCHANGED varsIo)
    BY <1>1, <1>5, <2>1, GioKeeps DEF ToolsInv
  <2>. QED
    BY <1>1, <1>5, <2>1, <2>2, OthersKeep DEF ToolsInv
<1>6. CASE program = "voucher" /\ NextTools
  <2>1. NextValues /\ UNCHANGED <<varsTool, progress, varsHex>>
    BY <1>6 DEF NextTools
  <2>2. UNCHANGED varsIo /\ process' = process /\ HeldInv'
    BY <2>1 DEF varsTool, varsIo, ToolsInv, HeldInv
  <2>3. ValuesInv'
    BY <1>1, <1>6, <2>1, ValuesKeep DEF ToolsInv
  <2>. QED
    BY <1>1, <1>6, <2>1, <2>2, <2>3, OthersKeep DEF ToolsInv
<1>7. CASE program = "hex" /\ NextTools
  <2>1. NextHex /\ UNCHANGED <<varsTool, progress, varsValues>>
    BY <1>7 DEF NextTools
  <2>2. UNCHANGED varsIo /\ process' = process /\ HeldInv'
    BY <2>1 DEF varsTool, varsIo, ToolsInv, HeldInv
  <2>3. HexInv'
    BY <1>1, <1>7, <2>1, HexKeeps DEF ToolsInv
  <2>. QED
    BY <1>1, <1>7, <2>1, <2>2, <2>3, OthersKeep DEF ToolsInv
<1>. QED
  BY <1>1, <1>2, <1>3, <1>4, <1>5, <1>6, <1>7 DEF Program

LEMMA SpecIsInv == SpecTools => []ToolsInv
BY InitIsInv, NextKeepsInv, PTL DEF SpecTools

\* Whatever step of cmt_io_init fails, and whichever program calls it, the file
\* and the mappings are given back (io.c:32-87).
THEOREM ClosedCorrect == SpecTools => []ClosedHoldsNothing
<1>1. ToolsInv => ClosedHoldsNothing
  BY DEF ToolsInv, HeldInv, ClosedHoldsNothing
<1>. QED
  BY <1>1, SpecIsInv, PTL

\* The host reads the four fields that are packed, and its four are unpacked as
\* they were, whatever their values and the number of values of a byte: no
\* field runs into another, and the shifts drop nothing (io.c:101-124).
THEOREM YieldCorrect == SpecTools => YieldIsWhole
<1>1. ToolsInv /\ [NextTools]_varsTools =>
        [ /\ stage' = "yielded" /\ stage # "yielded" => HostReads(word') = asked'
          /\ stage = "yielded" => UNCHANGED <<rr, word>> \/ rr' = answered' ]_varsIo
  BY NextKeepsInv DEF WholeStep
<1>. QED
  BY <1>1, SpecIsInv, PTL DEF SpecTools, YieldIsWhole

\* The mode, reason and data that the yield command is given reach the host: no
\* number that passes the check for 32 bits is cut (yield.c:62-97, 133-142).
THEOREM NamedRequestCorrect == SpecTools => []HostGetsNamedRequest
<1>1. ToolsInv => HostGetsNamedRequest
  BY HostGetsNamed DEF ToolsInv
<1>. QED
  BY <1>1, SpecIsInv, PTL

\* A request that the server lets through has none of the host's own reasons.
\* From the server or the tool, the length of the id reaches the host, and so
\* does a domain of at most 16 bits (mod.rs:153, rollup.c:403-410).
THEOREM GioCorrect == SpecTools => []GioReachesHost
<1>1. ToolsInv => GioReachesHost
  BY GioReaches DEF ToolsInv
<1>. QED
  BY <1>1, SpecIsInv, PTL

\* What the server takes from the text of a voucher is the number in it, in any
\* base, for words and addresses of any length (mod.rs:65, 118-149).
THEOREM ServerReadsCorrect == SpecTools => []ServerReadsNumber
<1>1. ToolsInv => ServerReadsNumber
  BY ServerReads DEF ToolsInv
<1>. QED
  BY <1>1, SpecIsInv, PTL

\* The tool and the server make the same of a text with all its digits
\* (rollup.cpp:188-242, http_service.rs:89).
THEOREM FullTextsCorrect == SpecTools => []FullTextsAgree
<1>1. ToolsInv => FullTextsAgree
  BY FullTexts DEF ToolsInv
<1>. QED
  BY <1>1, SpecIsInv, PTL

\* What the hex command encodes it decodes, for inputs of any length and chunks
\* of any even size: no byte is torn by the end of a chunk (hex.cpp:60-119).
THEOREM HexCorrect == SpecTools => []HexIsRight
<1>1. ToolsInv => HexIsRight
  BY HexRight DEF ToolsInv
<1>. QED
  BY <1>1, SpecIsInv, PTL
=============================================================================
