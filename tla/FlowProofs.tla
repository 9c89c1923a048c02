------------------------------ MODULE FlowProofs ------------------------------
(***************************************************************************)
(* Proofs about the flow table of a datapath: however rfserver's threads   *)
(* interleave, its flows follow the configuration, and when nothing is     *)
(* left to be done it has its default flows and those of the routes.       *)
(***************************************************************************)
EXTENDS FlowTable, RFServerProofs, SequenceTheorems, FiniteSetTheorems,
        WellFoundedInduction

-------------------------------------------------------------------------------
(* What the conversion of a RouteMod returns (create_flow_mod). *)

(* Induction: a set that holds zero and every successor holds every number.*)
LEMMA Induction ==
  ASSUME NEW T \in SUBSET Nat, 0 \in T, \A n \in T : n + 1 \in T
  PROVE  T = Nat
<1> SUFFICES ASSUME Nat \ T # {} PROVE FALSE
  OBVIOUS
<1>1. PICK n \in Nat \ T : \A m \in Nat \ T : <<m, n>> \notin OpToRel(<, Nat)
  BY NatLessThanWellFounded, WFMin, Nat \ T \subseteq Nat
<1>2. \A m \in Nat \ T : ~(m < n)
  BY <1>1 DEF OpToRel
<1>3. n # 0 /\ n - 1 \in Nat
  OBVIOUS
<1>4. n - 1 \in T
  BY <1>2, <1>3
<1>. QED
  BY <1>3, <1>4

(* The greatest of a non-empty set of numbers up to n + 1, if it holds     *)
(* that number.                                                            *)
LEMMA GreatestIsLast ==
  ASSUME NEW n \in Nat, NEW S \in SUBSET (1..n+1), n + 1 \in S
  PROVE  FM!Max(S) = n + 1
<1>1. \A y \in S : y \in Int /\ n + 1 >= y
  OBVIOUS
<1>2. \A x \in S : (\A y \in S : x >= y) => x = n + 1
  BY <1>1
<1>. QED
  BY <1>1, <1>2 DEF FM!Max

OptionFoldOn(iter, base, s, n) ==
    iter = [S \in SUBSET (1..n) |->
        IF S = {} THEN base ELSE FM!AddOption(iter[S \ {FM!Max(S)}], s[FM!Max(S)])]

(* The fold of add_option, as the library defines it.                      *)
OptionFold(base, s, n) == CHOOSE iter : OptionFoldOn(iter, base, s, n)

LEMMA OptionFoldIs ==
  ASSUME NEW base, NEW s, NEW n, DOMAIN s = 1..n
  PROVE  FM!FoldLeft(FM!AddOption, base, s) = OptionFold(base, s, n)[1..n]
  BY DEF FM!FoldLeft, FM!MapThenFoldSet, OptionFold, OptionFoldOn

LEMMA OptionFoldExists ==
  ASSUME NEW base, NEW s, NEW n \in Nat
  PROVE  \E iter : OptionFoldOn(iter, base, s, n)
<1>. DEFINE T == {k \in Nat : \E iter : OptionFoldOn(iter, base, s, k)}
<1>1. 0 \in T
  <2>1. SUBSET (1..0) = {{}}
    OBVIOUS
  <2>2. OptionFoldOn([S \in SUBSET (1..0) |-> base], base, s, 0)
    BY <2>1 DEF OptionFoldOn
  <2>. QED
    BY <2>2
<1>2. ASSUME NEW k \in T PROVE k + 1 \in T
  <2>1. PICK iter : OptionFoldOn(iter, base, s, k)
    OBVIOUS
  <2>. DEFINE longer == [S \in SUBSET (1..k+1) |->
                           IF k + 1 \in S THEN FM!AddOption(iter[S \ {k + 1}], s[k + 1])
                                          ELSE iter[S]]
  <2>2. \A S \in SUBSET (1..k+1) : k + 1 \notin S => S \in SUBSET (1..k)
    OBVIOUS
  <2>3. ASSUME NEW S \in SUBSET (1..k+1), k + 1 \in S
        PROVE  longer[S] = FM!AddOption(longer[S \ {FM!Max(S)}], s[FM!Max(S)])
    BY <2>3, GreatestIsLast
  <2>4. ASSUME NEW S \in SUBSET (1..k+1), k + 1 \notin S
        PROVE  longer[S] = IF S = {} THEN base
                           ELSE FM!AddOption(longer[S \ {FM!Max(S)}], s[FM!Max(S)])
    <3>1. S \in SUBSET (1..k) /\ S \ {FM!Max(S)} \in SUBSET (1..k)
      BY <2>2, <2>4
    <3>2. longer[S] = iter[S] /\ longer[S \ {FM!Max(S)}] = iter[S \ {FM!Max(S)}]
      BY <3>1
    <3>3. iter[S] = IF S = {} THEN base ELSE FM!AddOption(iter[S \ {FM!Max(S)}], s[FM!Max(S)])
      BY <2>1, <3>1 DEF OptionFoldOn
    <3>. QED
      BY <3>2, <3>3
  <2>5. longer = [S \in SUBSET (1..k+1) |->
                    IF S = {} THEN base ELSE FM!AddOption(longer[S \ {FM!Max(S)}], s[FM!Max(S)])]
    <3>1. \A S \in SUBSET (1..k+1) :
            longer[S] = IF S = {} THEN base
                        ELSE FM!AddOption(longer[S \ {FM!Max(S)}], s[FM!Max(S)])
      BY <2>3, <2>4
    <3>2. DOMAIN longer = SUBSET (1..k+1) /\ longer = [S \in DOMAIN longer |-> longer[S]]
      OBVIOUS
    <3>. HIDE DEF longer
    <3>. QED
      BY <3>1, <3>2
  <2>6. OptionFoldOn(longer, base, s, k + 1)
    BY <2>5 DEF OptionFoldOn
  <2>. HIDE DEF longer
  <2>. QED
    BY <2>6
<1>3. T = Nat
  <2>. HIDE DEF T
  <2>1. T \in SUBSET Nat
    BY DEF T
  <2>. QED
    BY <1>1, <1>2, <2>1, Induction
<1>. QED
  BY <1>3

(* What add_option leaves alone.                                           *)
OptionsOnly(base, x) ==
    x = [command |-> base.command, priority |-> x.priority, idle_timeout |-> x.idle_timeout,
         hard_timeout |-> base.hard_timeout, match |-> base.match, actions |-> base.actions]

LEMMA AddOptionOnly ==
  ASSUME NEW base, NEW x, OptionsOnly(base, x), NEW t
  PROVE  OptionsOnly(base, FM!AddOption(x, t))
<1>1. CASE t.type = "PRIORITY"
  BY <1>1 DEF OptionsOnly, FM!AddOption
<1>2. CASE t.type \in {"IDLE_TIMEOUT", "HARD_TIMEOUT"}
  BY <1>2 DEF OptionsOnly, FM!AddOption
<1>3. CASE t.type \notin {"PRIORITY", "IDLE_TIMEOUT", "HARD_TIMEOUT"}
  BY <1>3 DEF OptionsOnly, FM!AddOption
<1>. QED
  BY <1>1, <1>2, <1>3

LEMMA FirstNumbers ==
  ASSUME NEW k \in Nat, NEW n \in Nat, k + 1 <= n
  PROVE  /\ 1..k+1 \in SUBSET (1..n) /\ 1..k+1 # {} /\ k + 1 \in 1..k+1
         /\ (1..k+1) \ {k + 1} = 1..k
<1>1. \A i \in Int : i \in 1..k+1 /\ i # k + 1 <=> i \in 1..k
  OBVIOUS
<1>2. 1..k+1 \subseteq Int /\ 1..k \subseteq Int
  OBVIOUS
<1>3. (1..k+1) \ {k + 1} = 1..k
  BY <1>1, <1>2
<1>4. 1..k+1 \in SUBSET (1..n) /\ 1..k+1 # {} /\ k + 1 \in 1..k+1
  OBVIOUS
<1>. QED
  BY <1>3, <1>4

LEMMA OptionFoldOnly ==
  ASSUME NEW base, OptionsOnly(base, base), NEW s, s \in Seq(ToSet(s))
  PROVE  OptionsOnly(base, FM!FoldLeft(FM!AddOption, base, s))
<1>. DEFINE n == Len(s)
            iter == OptionFold(base, s, n)
<1>1. n \in Nat /\ DOMAIN s = 1..n
  OBVIOUS
<1>. HIDE DEF n
<1>2. OptionFoldOn(iter, base, s, n)
  BY <1>1, OptionFoldExists DEF OptionFold
<1>. HIDE DEF iter
<1>. DEFINE T == {m \in Nat : m <= n => OptionsOnly(base, iter[1..m])}
<1>3. 0 \in T
  <2>1. 1..0 = {} /\ {} \in SUBSET (1..n)
    OBVIOUS
  <2>2. iter[{}] = base
    BY <1>2, <2>1 DEF OptionFoldOn
  <2>. QED
    BY <2>1, <2>2
<1>4. ASSUME NEW k \in T PROVE k + 1 \in T
  <2>. SUFFICES ASSUME k + 1 <= n PROVE OptionsOnly(base, iter[1..k+1])
    OBVIOUS
  <2>1. k \in Nat /\ OptionsOnly(base, iter[1..k])
    BY <1>1
  <2>2. /\ 1..k+1 \in SUBSET (1..n) /\ 1..k+1 # {} /\ k + 1 \in 1..k+1
        /\ (1..k+1) \ {k + 1} = 1..k
    BY <1>1, <2>1, FirstNumbers
  <2>3. FM!Max(1..k+1) = k + 1
    BY <2>1, <2>2, GreatestIsLast
  <2>4. iter[1..k+1] = FM!AddOption(iter[1..k], s[k + 1])
    BY <1>2, <2>2, <2>3 DEF OptionFoldOn
  <2>. QED
    BY <2>1, <2>4, AddOptionOnly
<1>5. n \in T
  <2>. HIDE DEF T
  <2>1. T \in SUBSET Nat
    BY DEF T
  <2>. QED
    BY <1>1, <1>3, <1>4, <2>1, Induction
<1>. QED
  BY <1>1, <1>5, OptionFoldIs DEF iter

(* The folds of add_match and add_action, over lists of known length.      *)
MatchFoldOn(iter, base, s, n) ==
    iter = [S \in SUBSET (1..n) |->
        IF S = {} THEN base ELSE FM!AddMatch(iter[S \ {FM!Max(S)}], s[FM!Max(S)])]

MatchFold(base, s, n) == CHOOSE iter : MatchFoldOn(iter, base, s, n)

ActionFold(base, s, n) == CHOOSE iter : iter = [S \in SUBSET (1..n) |->
    IF S = {} THEN base ELSE FM!AddAction(iter[S \ {FM!Max(S)}], s[FM!Max(S)])]

LEMMA FoldsAre ==
  ASSUME NEW base, NEW s, NEW n, DOMAIN s = 1..n
  PROVE  /\ FM!FoldLeft(FM!AddMatch, base, s) = MatchFold(base, s, n)[1..n]
         /\ FM!FoldLeft(FM!AddAction, base, s) = ActionFold(base, s, n)[1..n]
<1>1. FM!FoldLeft(FM!AddMatch, base, s) = MatchFold(base, s, n)[1..n]
  BY DEF FM!FoldLeft, FM!MapThenFoldSet, MatchFold, MatchFoldOn
<1>2. FM!FoldLeft(FM!AddAction, base, s) = ActionFold(base, s, n)[1..n]
  BY DEF FM!FoldLeft, FM!MapThenFoldSet, ActionFold
<1>. QED
  BY <1>1, <1>2

LEMMA GreatestOfThree ==
  ASSUME NEW S \in SUBSET (1..3), S # {}
  PROVE  /\ 3 \in S => FM!Max(S) = 3
         /\ 3 \notin S /\ 2 \in S => FM!Max(S) = 2
         /\ 3 \notin S /\ 2 \notin S => S = {1} /\ FM!Max(S) = 1
<1>1. 3 \in S => FM!Max(S) = 3
  BY GreatestIsLast, 2 \in Nat, 2 + 1 = 3
<1>2. CASE 3 \notin S /\ 2 \in S
  <2>1. S \in SUBSET (1..2)
    BY <1>2
  <2>. QED
    BY <1>2, <2>1, GreatestIsLast, 1 \in Nat, 1 + 1 = 2
<1>3. CASE 3 \notin S /\ 2 \notin S
  <2>1. S = {1}
    <3>1. \A i \in 1..3 : i = 1 \/ i = 2 \/ i = 3
      OBVIOUS
    <3>. QED
      BY <1>3, <3>1
  <2>. QED
    BY <1>3, <2>1, GreatestIsLast, 0 \in Nat, 0 + 1 = 1
<1>. QED
  BY <1>1, <1>2, <1>3

LEMMA MatchFoldExists ==
  ASSUME NEW base, NEW s, NEW n \in Nat
  PROVE  \E iter : MatchFoldOn(iter, base, s, n)
<1>. DEFINE T == {k \in Nat : \E iter : MatchFoldOn(iter, base, s, k)}
<1>1. 0 \in T
  <2>1. SUBSET (1..0) = {{}}
    OBVIOUS
  <2>2. MatchFoldOn([S \in SUBSET (1..0) |-> base], base, s, 0)
    BY <2>1 DEF MatchFoldOn
  <2>. QED
    BY <2>2
<1>2. ASSUME NEW k \in T PROVE k + 1 \in T
  <2>1. PICK iter : MatchFoldOn(iter, base, s, k)
    OBVIOUS
  <2>. DEFINE longer == [S \in SUBSET (1..k+1) |->
                           IF k + 1 \in S THEN FM!AddMatch(iter[S \ {k + 1}], s[k + 1])
                                          ELSE iter[S]]
  <2>2. \A S \in SUBSET (1..k+1) : k + 1 \notin S => S \in SUBSET (1..k)
    OBVIOUS
  <2>3. ASSUME NEW S \in SUBSET (1..k+1), k + 1 \in S
        PROVE  longer[S] = FM!AddMatch(longer[S \ {FM!Max(S)}], s[FM!Max(S)])
    BY <2>3, GreatestIsLast
  <2>4. ASSUME NEW S \in SUBSET (1..k+1), k + 1 \notin S
        PROVE  longer[S] = IF S = {} THEN base
                           ELSE FM!AddMatch(longer[S \ {FM!Max(S)}], s[FM!Max(S)])
    <3>1. S \in SUBSET (1..k) /\ S \ {FM!Max(S)} \in SUBSET (1..k)
      BY <2>2, <2>4
    <3>2. longer[S] = iter[S] /\ longer[S \ {FM!Max(S)}] = iter[S \ {FM!Max(S)}]
      BY <3>1
    <3>3. iter[S] = IF S = {} THEN base ELSE FM!AddMatch(iter[S \ {FM!Max(S)}], s[FM!Max(S)])
      BY <2>1, <3>1 DEF MatchFoldOn
    <3>. QED
      BY <3>2, <3>3
  <2>5. longer = [S \in SUBSET (1..k+1) |->
                    IF S = {} THEN base ELSE FM!AddMatch(longer[S \ {FM!Max(S)}], s[FM!Max(S)])]
    <3>1. \A S \in SUBSET (1..k+1) :
            longer[S] = IF S = {} THEN base
                        ELSE FM!AddMatch(longer[S \ {FM!Max(S)}], s[FM!Max(S)])
      BY <2>3, <2>4
    <3>2. DOMAIN longer = SUBSET (1..k+1) /\ longer = [S \in DOMAIN longer |-> longer[S]]
      OBVIOUS
    <3>. HIDE DEF longer
    <3>. QED
      BY <3>1, <3>2
  <2>6. MatchFoldOn(longer, base, s, k + 1)
    BY <2>5 DEF MatchFoldOn
  <2>. HIDE DEF longer
  <2>. QED
    BY <2>6
<1>3. T = Nat
  <2>. HIDE DEF T
  <2>1. T \in SUBSET Nat
    BY DEF T
  <2>. QED
    BY <1>1, <1>2, <2>1, Induction
<1>. QED
  BY <1>3

LEMMA ThreeMatches ==
  ASSUME NEW base, NEW s, DOMAIN s = 1..3
  PROVE  FM!FoldLeft(FM!AddMatch, base, s)
           = FM!AddMatch(FM!AddMatch(FM!AddMatch(base, s[1]), s[2]), s[3])
<1>. DEFINE iter == MatchFold(base, s, 3)
<1>1. MatchFoldOn(iter, base, s, 3)
  BY MatchFoldExists, 3 \in Nat DEF MatchFold
<1>. HIDE DEF iter
<1>2. /\ {} \in SUBSET (1..3) /\ {1} \in SUBSET (1..3) /\ {1, 2} \in SUBSET (1..3)
      /\ {1, 2, 3} \in SUBSET (1..3) /\ 1..3 = {1, 2, 3}
      /\ {1} \ {1} = {} /\ {1, 2} \ {2} = {1} /\ {1, 2, 3} \ {3} = {1, 2}
  OBVIOUS
<1>3. FM!Max({1}) = 1 /\ FM!Max({1, 2}) = 2 /\ FM!Max({1, 2, 3}) = 3
  BY <1>2, GreatestOfThree
<1>4. iter[{}] = base
  BY <1>1, <1>2 DEF MatchFoldOn
<1>5. iter[{1}] = FM!AddMatch(base, s[1])
  BY <1>1, <1>2, <1>3, <1>4 DEF MatchFoldOn
<1>6. iter[{1, 2}] = FM!AddMatch(iter[{1}], s[2])
  BY <1>1, <1>2, <1>3 DEF MatchFoldOn
<1>7. iter[{1, 2, 3}] = FM!AddMatch(iter[{1, 2}], s[3])
  BY <1>1, <1>2, <1>3 DEF MatchFoldOn
<1>8. FM!FoldLeft(FM!AddMatch, base, s) = iter[{1, 2, 3}]
  <2>1. FM!FoldLeft(FM!AddMatch, base, s) = MatchFold(base, s, 3)[1..3]
    BY FoldsAre
  <2>. QED
    BY <2>1, <1>2 DEF iter
<1>. QED
  BY <1>5, <1>6, <1>7, <1>8

LEMMA OneAction ==
  ASSUME NEW base, NEW t
  PROVE  FM!FoldLeft(FM!AddAction, base, <<t>>) = FM!AddAction(base, t)
<1>. DEFINE s == <<t>>
            all == [S \in SUBSET (1..1) |-> IF 1 \in S THEN FM!AddAction(base, t) ELSE base]
            iter == ActionFold(base, s, 1)
<1>1. DOMAIN s = 1..1 /\ s[1] = t
  OBVIOUS
<1>2. SUBSET (1..1) = {{}, {1}} /\ 1..1 = {1} /\ {1} \ {1} = {}
  OBVIOUS
<1>3. FM!Max({1}) = 1
  BY GreatestOfThree
<1>4. \A S \in SUBSET (1..1) :
        all[S] = IF S = {} THEN base ELSE FM!AddAction(all[S \ {FM!Max(S)}], s[FM!Max(S)])
  BY <1>1, <1>2, <1>3
<1>. HIDE DEF s, all
<1>5. all = [S \in SUBSET (1..1) |->
               IF S = {} THEN base ELSE FM!AddAction(all[S \ {FM!Max(S)}], s[FM!Max(S)])]
  BY <1>4 DEF all
<1>6. iter = [S \in SUBSET (1..1) |->
               IF S = {} THEN base ELSE FM!AddAction(iter[S \ {FM!Max(S)}], s[FM!Max(S)])]
  BY <1>5 DEF ActionFold
<1>. HIDE DEF iter
<1>7. iter[{}] = base
  BY <1>2, <1>6
<1>8. iter[{1}] = FM!AddAction(base, t)
  BY <1>1, <1>2, <1>3, <1>6, <1>7
<1>9. FM!FoldLeft(FM!AddAction, base, s) = iter[{1}]
  <2>1. FM!FoldLeft(FM!AddAction, base, s) = ActionFold(base, s, 1)[1..1]
    BY <1>1, FoldsAre
  <2>. QED
    BY <2>1, <1>2 DEF iter
<1>. QED
  BY <1>8, <1>9 DEF s

(* What create_flow_mod returns, unless a TLV cannot be converted.         *)
LEMMA Converted ==
  ASSUME NEW rm, rm.options \in Seq(ToSet(rm.options)),
         NEW fm, fm = FM!CreateFlowMod(rm), fm # NULL
  PROVE  /\ fm.command = rm.mod
         /\ fm.match = FM!FoldLeft(FM!AddMatch, FM!AnyPacket, rm.matches)
         /\ fm.actions = FM!FoldLeft(FM!AddAction, <<>>, rm.actions)
         /\ ~FM!Fails(rm.matches, FM!SupportedMatch)
<1>. DEFINE match == FM!FoldLeft(FM!AddMatch, FM!AnyPacket, rm.matches)
            acts == FM!FoldLeft(FM!AddAction, <<>>, rm.actions)
            base == [command |-> NULL, priority |-> DefaultPriority,
                     idle_timeout |-> Permanent, hard_timeout |-> Permanent,
                     match |-> match, actions |-> acts]
            folded == FM!FoldLeft(FM!AddOption, base, rm.options)
<1>1. fm = FM!SetCommand(folded, rm.mod) /\ ~FM!Fails(rm.matches, FM!SupportedMatch)
  BY DEF FM!CreateFlowMod
<1>. HIDE DEF match, acts
<1>2. OptionsOnly(base, base) /\ base.match = match /\ base.actions = acts
  BY DEF OptionsOnly
<1>. HIDE DEF base
<1>3. OptionsOnly(base, folded)
  BY <1>2, OptionFoldOnly
<1>. HIDE DEF folded
<1>4. folded.match = match /\ folded.actions = acts
  BY <1>2, <1>3 DEF OptionsOnly
<1>5. fm.command = rm.mod /\ fm.match = folded.match /\ fm.actions = folded.actions
  BY <1>1, <1>3 DEF FM!SetCommand, OptionsOnly
<1>. QED
  BY <1>1, <1>4, <1>5 DEF match, acts

-------------------------------------------------------------------------------
(* The messages rfserver sends, and the flows that come of them. *)

InAndOut == {p \in Config \X Config : p[1][2] # p[2][2]}

(* A route from one configured port to another.                            *)
MessageFor(mod, r, in, out) ==
    [Translate(RouteMod(mod, r), out[2]) EXCEPT !.matches =
        @ \o <<FM!Tlv("ETHERNET", in[1]), FM!Tlv("IN_PORT", in[2])>>]

FromRoute(m) ==
    \E mod \in {"ADD", "DELETE"} : \E r \in Route : \E p \in InAndOut :
        p[2][1] = r.vm /\ m = MessageFor(mod, r, p[1], p[2])

FromConfig(m) == \E op \in ToSet(Operations) : m = ConfigMessage(op)

LEMMA ThreeElements ==
  ASSUME NEW a, NEW b, NEW c
  PROVE  <<a>> \o <<b, c>> = <<a, b, c>>
<1>. DEFINE S == {a, b, c}
            p == <<a>>
            q == <<b, c>>
            t == <<a, b, c>>
<1>1. /\ p \in Seq(S) /\ Len(p) = 1 /\ p[1] = a
      /\ q \in Seq(S) /\ Len(q) = 2 /\ q[1] = b /\ q[2] = c
  OBVIOUS
<1>2. t \in Seq(S) /\ Len(t) = 3 /\ t[1] = a /\ t[2] = b /\ t[3] = c
  OBVIOUS
<1>. DEFINE u == p \o q
<1>. HIDE DEF S, p, q, t
<1>3. /\ u \in Seq(S) /\ Len(u) = Len(p) + Len(q)
      /\ \A i \in 1..Len(p) + Len(q) : u[i] = IF i <= Len(p) THEN p[i] ELSE q[i - Len(p)]
  BY <1>1, ConcatProperties
<1>. HIDE DEF u
<1>4. \A i \in 1..3 : u[i] = IF i <= 1 THEN p[i] ELSE q[i - 1]
  BY <1>1, <1>3
<1>5. u[1] = a /\ u[2] = b /\ u[3] = c /\ Len(u) = 3
  BY <1>1, <1>3, <1>4
<1>6. \A i \in 1..3 : u[i] = t[i]
  BY <1>2, <1>5
<1>7. u = t
  BY <1>2, <1>3, <1>5, <1>6, SeqEqual
<1>. QED
  BY <1>7 DEF p, q, t, u

MessageFields(m, mod, r, in, out) ==
    /\ m.mod = mod
    /\ DOMAIN m.matches = 1..3
    /\ m.matches[1] = r.match
    /\ m.matches[2] = FM!Tlv("ETHERNET", in[1])
    /\ m.matches[3] = FM!Tlv("IN_PORT", in[2])
    /\ m.options = Append(r.options, FM!Tlv("CT_ID", NULL))
    /\ mod # "DELETE" => m.actions = <<FM!Tlv("OUTPUT", out[2])>>

LEMMA RouteMessageFields ==
  ASSUME NEW mod, NEW r \in Route, NEW in, NEW out,
         NEW m, m = MessageFor(mod, r, in, out)
  PROVE  MessageFields(m, mod, r, in, out)
<1>. DEFINE rm == RouteMod(mod, r)
            tr == Translate(rm, out[2])
            fields == {"mod", "matches", "options", "actions"}
            ct == FM!Tlv("CT_ID", NULL)
            output == FM!Tlv("OUTPUT", out[2])
            eth == FM!Tlv("ETHERNET", in[1])
            port == FM!Tlv("IN_PORT", in[2])
<1>1. /\ DOMAIN rm = fields /\ rm.mod = mod
      /\ rm.matches = <<r.match>> /\ rm.options = r.options
  BY DEF RouteMod
<1>. HIDE DEF rm, ct, output
<1>2. tr = [[rm EXCEPT !.actions = IF rm.mod = "DELETE" THEN <<>> ELSE <<output>>]
              EXCEPT !.options = Append(@, ct)]
  BY DEF Translate, ct, output
<1>. HIDE DEF tr
<1>3. /\ DOMAIN tr = fields /\ tr.mod = mod /\ tr.matches = <<r.match>>
      /\ tr.options = Append(r.options, ct)
      /\ mod # "DELETE" => tr.actions = <<output>>
  BY <1>1, <1>2
<1>4. m = [tr EXCEPT !.matches = @ \o <<eth, port>>]
  BY DEF MessageFor, tr, rm
<1>. HIDE DEF eth, port
<1>5. /\ m.mod = mod /\ m.matches = <<r.match>> \o <<eth, port>>
      /\ m.options = Append(r.options, ct)
      /\ mod # "DELETE" => m.actions = <<output>>
  BY <1>3, <1>4
<1>. DEFINE s == m.matches
<1>6. s = <<r.match, eth, port>>
  BY <1>5, ThreeElements
<1>7. DOMAIN s = 1..3 /\ s[1] = r.match /\ s[2] = eth /\ s[3] = port
  BY <1>6
<1>. QED
  BY <1>5, <1>7 DEF MessageFields, ct, output, eth, port

LEMMA IsSequence ==
  ASSUME NEW S, NEW s \in Seq(S)
  PROVE  s \in Seq(ToSet(s))
<1>1. Len(s) \in Nat /\ DOMAIN s = 1..Len(s) /\ s = [i \in 1..Len(s) |-> s[i]]
  OBVIOUS
<1>2. \A i \in 1..Len(s) : s[i] \in ToSet(s)
  BY <1>1 DEF ToSet
<1>. QED
  BY <1>1, <1>2

LEMMA OptionsAreSequences ==
  /\ \A op : ConfigMessage(op).options \in Seq(ToSet(ConfigMessage(op).options))
  /\ \A mod, in, out, m : \A r \in Route :
       m = MessageFor(mod, r, in, out) => m.options \in Seq(ToSet(m.options))
<1>1. ASSUME NEW op
      PROVE  ConfigMessage(op).options \in Seq(ToSet(ConfigMessage(op).options))
  <2>1. \E a, b : ConfigMessage(op).options = <<a, b>>
    BY DEF ConfigMessage
  <2>2. PICK a, b : ConfigMessage(op).options = <<a, b>>
    BY <2>1
  <2>3. <<a, b>> \in Seq({a, b})
    OBVIOUS
  <2>. QED
    BY <2>2, <2>3, IsSequence
<1>2. ASSUME NEW mod, NEW in, NEW out, NEW m, NEW r \in Route, m = MessageFor(mod, r, in, out)
      PROVE  m.options \in Seq(ToSet(m.options))
  <2>. DEFINE t == FM!Tlv("CT_ID", NULL)
              T == ToSet(r.options) \cup {t}
  <2>1. r.options \in Seq(ToSet(r.options))
    BY FlowTableAssumption
  <2>2. MessageFields(m, mod, r, in, out)
    BY <1>2, RouteMessageFields
  <2>3. m.options = Append(r.options, t)
    BY <2>2 DEF MessageFields
  <2>. HIDE DEF t
  <2>4. r.options \in Seq(T) /\ t \in T
    BY <2>1
  <2>5. m.options \in Seq(T)
    BY <2>4, <2>3
  <2>. QED
    BY <2>5, IsSequence
<1>. QED
  BY <1>1, <1>2

(* A message of config_dp that adds a flow adds a default flow.            *)
LEMMA DefaultConverted ==
  ASSUME NEW m, FromConfig(m), NEW fm, fm = FM!CreateFlowMod(m), fm # NULL,
         fm.command # "DELETE"
  PROVE  fm \in DefaultFlows
<1>1. PICK op \in ToSet(Operations) : m = ConfigMessage(op)
  BY DEF FromConfig
<1>2. fm.command = m.mod
  BY <1>1, OptionsAreSequences, Converted
<1>3. op # "DC_CLEAR_FLOW_TABLE"
  BY <1>1, <1>2 DEF ConfigMessage
<1>4. ToSet(Operations) \subseteq
        {"DC_CLEAR_FLOW_TABLE", "DC_DROP_ALL"} \cup ToSet(Protocols)
  <2>. DEFINE two == <<"DC_CLEAR_FLOW_TABLE", "DC_DROP_ALL">>
              both == {"DC_CLEAR_FLOW_TABLE", "DC_DROP_ALL"} \cup ToSet(Protocols)
  <2>1. two \in Seq(both) /\ Protocols \in Seq(both)
    BY FlowTableAssumption
  <2>2. Operations \in Seq(both)
    BY <2>1 DEF Operations
  <2>. QED
    BY <2>2 DEF ToSet
<1>. QED
  BY <1>1, <1>3, <1>4 DEF DefaultFlows

(* The packets of route r from a configured port.                          *)
MatchOf(r, in) ==
    [FM!AnyPacket EXCEPT !.eth_type = IP, !.ipv4_dst = r.match.value,
                         !.eth_dst = in[1], !.in_port = in[2]]

Fields(eth_type, dst, eth_dst, in_port) ==
    [eth_type |-> eth_type, ip_proto |-> NULL, ipv4_dst |-> dst, eth_dst |-> eth_dst,
     tcp_src |-> NULL, tcp_dst |-> NULL, in_port |-> in_port]

LEMMA MatchOfFields ==
  ASSUME NEW r, NEW in
  PROVE  MatchOf(r, in) = Fields(IP, r.match.value, in[1], in[2])
<1>. DEFINE dst == r.match.value
<1>1. FM!AnyPacket = Fields(NULL, NULL, NULL, NULL)
  BY DEF FM!AnyPacket, Fields
<1>2. [Fields(NULL, NULL, NULL, NULL) EXCEPT !.eth_type = IP] = Fields(IP, NULL, NULL, NULL)
  BY DEF Fields
<1>3. [Fields(IP, NULL, NULL, NULL) EXCEPT !.ipv4_dst = dst] = Fields(IP, dst, NULL, NULL)
  BY DEF Fields
<1>4. [Fields(IP, dst, NULL, NULL) EXCEPT !.eth_dst = in[1]] = Fields(IP, dst, in[1], NULL)
  BY DEF Fields
<1>5. [Fields(IP, dst, in[1], NULL) EXCEPT !.in_port = in[2]] = Fields(IP, dst, in[1], in[2])
  BY DEF Fields
<1>. QED
  BY <1>1, <1>2, <1>3, <1>4, <1>5 DEF MatchOf

(* What create_flow_mod makes of a route's message, ADD or DELETE.         *)
LEMMA RouteFlowIs ==
  ASSUME NEW mod, NEW r \in Route, NEW in, NEW out, NEW m, m = MessageFor(mod, r, in, out),
         NEW fm, fm = FM!CreateFlowMod(m), fm # NULL
  PROVE  /\ fm.command = mod /\ fm.match = MatchOf(r, in)
         /\ mod # "DELETE" => fm.actions = <<FM!Tlv("OUTPUT", out[2])>>
<1>. DEFINE eth == FM!Tlv("ETHERNET", in[1])
            port == FM!Tlv("IN_PORT", in[2])
            dst == r.match.value
<1>1. /\ fm.command = m.mod
      /\ fm.match = FM!FoldLeft(FM!AddMatch, FM!AnyPacket, m.matches)
      /\ fm.actions = FM!FoldLeft(FM!AddAction, <<>>, m.actions)
      /\ ~FM!Fails(m.matches, FM!SupportedMatch)
  BY OptionsAreSequences, Converted
<1>2. /\ m.mod = mod /\ DOMAIN m.matches = 1..3
      /\ m.matches[1] = r.match /\ m.matches[2] = eth /\ m.matches[3] = port
      /\ mod # "DELETE" => m.actions = <<FM!Tlv("OUTPUT", out[2])>>
  <2>1. MessageFields(m, mod, r, in, out)
    BY RouteMessageFields
  <2>. QED
    BY <2>1 DEF MessageFields
<1>3. mod # "DELETE" => fm.actions = <<FM!Tlv("OUTPUT", out[2])>>
  <2>1. mod # "DELETE" => fm.actions = FM!AddAction(<<>>, FM!Tlv("OUTPUT", out[2]))
    BY <1>1, <1>2, OneAction
  <2>. QED
    BY <2>1 DEF FM!AddAction, FM!Tlv, FM!SupportedAction
<1>4. r.match.type = "IPV4"
  <2>1. 1 \in DOMAIN m.matches /\ m.matches[1] = r.match
    BY <1>2
  <2>2. r.match.type \in FM!SupportedMatch \cup FM!Optional
    BY <1>1, <2>1 DEF FM!Fails
  <2>. QED
    BY <2>2, FlowTableAssumption DEF FM!SupportedMatch, FM!Optional
<1>5. FM!AddMatch(FM!AnyPacket, r.match) = Fields(IP, dst, NULL, NULL)
  BY <1>4 DEF FM!AddMatch, FM!AnyPacket, Fields
<1>6. FM!AddMatch(Fields(IP, dst, NULL, NULL), eth) = Fields(IP, dst, in[1], NULL)
  BY DEF FM!AddMatch, FM!Tlv, Fields
<1>7. FM!AddMatch(Fields(IP, dst, in[1], NULL), port) = Fields(IP, dst, in[1], in[2])
  BY DEF FM!AddMatch, FM!Tlv, Fields
<1>. HIDE DEF eth, port
<1>8. fm.match = FM!AddMatch(FM!AddMatch(FM!AddMatch(FM!AnyPacket, r.match), eth), port)
  <2>. DEFINE s == m.matches
  <2>1. DOMAIN s = 1..3 /\ s[1] = r.match /\ s[2] = eth /\ s[3] = port
    BY <1>2
  <2>. HIDE DEF s
  <2>2. FM!FoldLeft(FM!AddMatch, FM!AnyPacket, s)
          = FM!AddMatch(FM!AddMatch(FM!AddMatch(FM!AnyPacket, s[1]), s[2]), s[3])
    BY <2>1, ThreeMatches
  <2>. QED
    BY <1>1, <2>1, <2>2 DEF s
<1>9. fm.match = Fields(IP, dst, in[1], in[2])
  BY <1>5, <1>6, <1>7, <1>8
<1>. QED
  BY <1>1, <1>2, <1>3, <1>9, MatchOfFields

(* A route's message that adds a flow adds one of the route.               *)
LEMMA RouteConverted ==
  ASSUME NEW m, FromRoute(m), NEW fm, fm = FM!CreateFlowMod(m), fm # NULL,
         fm.command # "DELETE"
  PROVE  \E r \in Route : FlowOf(fm, r)
<1>1. PICK mod \in {"ADD", "DELETE"}, r \in Route, p \in InAndOut :
        p[2][1] = r.vm /\ m = MessageFor(mod, r, p[1], p[2])
  BY DEF FromRoute
<1>. DEFINE in == p[1]
            out == p[2]
<1>2. in \in Config /\ out \in Config /\ in # out /\ out[1] = r.vm
  BY <1>1 DEF InAndOut
<1>3. m = MessageFor(mod, r, in, out)
  BY <1>1
<1>. HIDE DEF in, out
<1>4. fm.match = MatchOf(r, in) /\ fm.actions = <<FM!Tlv("OUTPUT", out[2])>>
  BY <1>3, RouteFlowIs
<1>. QED
  BY <1>2, <1>4, Zenon DEF FlowOf, MatchOf

-------------------------------------------------------------------------------
(* The inductive invariant: that of rfserver's table, what the handler of  *)
(* a RouteMod carries from step to step, and what the queues hold.         *)

(* The handler's RouteMod leads out of a configured port, and the ports it *)
(* listed are other ones.                                                  *)
Carries(rm, port) ==
    \E mod \in {"ADD", "DELETE"}, r \in Route, out \in Config :
        out[1] = r.vm /\ port = out[2] /\ rm = Translate(RouteMod(mod, r), out[2])

RouteSafe ==
    /\ DOMAIN rthread = {"pc", "rm", "out", "todo"}
    /\ rthread.pc \in {"list", "send"} => Carries(rthread.rm, rthread.out)
    /\ rthread.pc = "send" =>
         \A e \in rthread.todo : <<e.vm, e.dp>> \in Config /\ e.dp # rthread.out

Reports ==
    [type : {"DatapathPortRegister"}, port : DpPort]
        \cup [type : {"DatapathDown"}, port : {NULL}]

QueuesSafe ==
    /\ sending \in Seq(ToSet(Operations)) /\ sending # <<>>
    /\ p2s \in Seq(Reports)
    /\ s2p \in Seq(ToSet(s2p))
    /\ \A m \in ToSet(s2p) : FromRoute(m) \/ FromConfig(m)

FlowInv == IInv /\ RouteSafe /\ QueuesSafe /\ FlowsFollowConfig

LEMMA OperationsSequence ==
  Operations \in Seq(ToSet(Operations)) /\ Operations # <<>>
<1>. DEFINE two == <<"DC_CLEAR_FLOW_TABLE", "DC_DROP_ALL">>
            both == {"DC_CLEAR_FLOW_TABLE", "DC_DROP_ALL"} \cup ToSet(Protocols)
<1>1. two \in Seq(both) /\ Protocols \in Seq(both) /\ Len(two) = 2
  BY FlowTableAssumption
<1>. HIDE DEF two, both
<1>2. Operations \in Seq(both) /\ Len(Operations) = Len(two) + Len(Protocols)
  BY <1>1, ConcatProperties DEF Operations, two
<1>3. Operations # <<>>
  BY <1>1, <1>2
<1>. QED
  BY <1>2, <1>3, IsSequence

(* What a queue holds after one more message, and after one fewer.         *)
LEMMA QueueAppend ==
  ASSUME NEW s, s \in Seq(ToSet(s)), NEW m
  PROVE  /\ Append(s, m) \in Seq(ToSet(Append(s, m)))
         /\ \A x \in ToSet(Append(s, m)) : x \in ToSet(s) \/ x = m
<1>. DEFINE S == ToSet(s) \cup {m}
            t == Append(s, m)
<1>1. s \in Seq(S) /\ m \in S
  OBVIOUS
<1>2. t \in Seq(S)
  BY <1>1
<1>. HIDE DEF t
<1>3. t \in Seq(ToSet(t))
  BY <1>2, IsSequence
<1>4. \A x \in ToSet(t) : x \in S
  BY <1>2 DEF ToSet
<1>. QED
  BY <1>3, <1>4 DEF t

LEMMA QueueTail ==
  ASSUME NEW s, s \in Seq(ToSet(s)), s # <<>>
  PROVE  /\ Tail(s) \in Seq(ToSet(Tail(s)))
         /\ ToSet(Tail(s)) \subseteq ToSet(s)
         /\ Head(s) \in ToSet(s)
<1>. DEFINE S == ToSet(s)
            t == Tail(s)
<1>. HIDE DEF S
<1>1. t \in Seq(S) /\ Head(s) \in S
  BY DEF S
<1>. HIDE DEF t
<1>2. t \in Seq(ToSet(t))
  BY <1>1, IsSequence
<1>3. \A x \in ToSet(t) : x \in S
  BY <1>1 DEF ToSet
<1>. QED
  BY <1>1, <1>2, <1>3 DEF S, t

LEMMA FlowInitInv == FlowInit => FlowInv
<1>. SUFFICES ASSUME FlowInit PROVE FlowInv
  OBVIOUS
<1>1. \A v \in VmPort : IdleVm(v) \in Entry /\ FollowsConfig(IdleVm(v))
  BY IdleType DEF IdleVm, FollowsConfig
<1>2. TypeOK
  BY <1>1, NullAssumption DEF FlowInit, TypeOK, CState, CPc, PState, PPc, IdleC, IdleP
<1>3. RowsFollowConfig
  BY <1>1 DEF FlowInit, RowsFollowConfig, Rows
<1>4. MapsFollowConfig /\ ClientSafe /\ ProxySafe
  BY DEF FlowInit, MapsFollowConfig, ClientSafe, ProxySafe, IdleC, IdleP
<1>5. RouteSafe
  BY DEF FlowInit, RouteSafe, IdleR
<1>6. QueuesSafe
  BY OperationsSequence DEF FlowInit, QueuesSafe, ToSet
<1>7. FlowsFollowConfig
  BY DEF FlowInit, FlowsFollowConfig
<1>. QED
  BY <1>2, <1>3, <1>4, <1>5, <1>6, <1>7 DEF FlowInv, IInv

(* Every step is one of rfserver's table or leaves it alone.               *)
LEMMA ServerKept ==
  ASSUME FlowInv, FlowNext
  PROVE  IInv'
<1>1. [Next]_vars
  <2>1. CASE UNCHANGED vars
    BY <2>1
  <2>2. CASE SendConfig
    BY <2>2 DEF SendConfig, Next, PNext
  <2>3. CASE ProxyThreadReads
    <3>1. Head(p2s) \in Reports
      BY <2>3 DEF ProxyThreadReads, FlowInv, QueuesSafe
    <3>2. CASE Head(p2s).type = "DatapathPortRegister" /\ RegisterDpPort(Head(p2s).port)
      <4>1. Head(p2s).port \in DpPort
        BY <3>1, <3>2 DEF Reports
      <4>. QED
        BY <3>2, <4>1 DEF Next, PNext
    <3>3. CASE SetDpDown(dp0)
      BY <3>3, FlowTableAssumption DEF Next, PNext
    <3>. QED
      BY <2>3, <3>2, <3>3 DEF ProxyThreadReads
  <2>4. CASE ProxyThreadStep
    BY <2>4 DEF ProxyThreadStep, Next, PNext
  <2>5. ASSUME NEW v \in VmPort, VmMaps(v)
        PROVE  Next
    BY <2>5, FlowTableAssumption DEF VmMaps, Next, PNext
  <2>6. CASE VsPortGone
    BY <2>6, FlowTableAssumption DEF VsPortGone, Next, PNext
  <2>7. CASE \E mod \in {"ADD", "DELETE"}, r \in Route : RegisterRouteMod(mod, r)
    BY <2>1, <2>7 DEF RegisterRouteMod
  <2>8. CASE ListInPorts \/ SendRouteMod \/ ProcessRouteMod \/ Join \/ Leave
    BY <2>1, <2>8 DEF ListInPorts, SendRouteMod, ProcessRouteMod, Join, Leave
  <2>. QED
    BY <2>2, <2>3, <2>4, <2>5, <2>6, <2>7, <2>8 DEF FlowNext
<1>. QED
  BY <1>1, NextIInv DEF FlowInv

LEMMA OthersLeaveRoute ==
  ASSUME RouteSafe, UNCHANGED rthread
  PROVE  RouteSafe'
  BY DEF RouteSafe

LEMMA IdleRouteSafe == RouteSafe /\ rthread' = IdleR => RouteSafe'
  BY DEF RouteSafe, IdleR

(* The handler takes up a RouteMod only with an entry that is not idle,    *)
(* which the configuration has.                                            *)
LEMMA RegisterRouteModSafe ==
  ASSUME FlowInv, NEW mod \in {"ADD", "DELETE"}, NEW r \in Route, RegisterRouteMod(mod, r)
  PROVE  RouteSafe'
<1>1. CASE UNCHANGED rthread
  BY <1>1, OthersLeaveRoute DEF FlowInv
<1>2. CASE rthread' = IdleR
  BY <1>2, IdleRouteSafe DEF FlowInv
<1>3. ASSUME NEW i \in RowsOfVm(r.vm), r.vm # NULL, ~IsIdleVmPort(rftable[i]),
             rthread' = [IdleR EXCEPT !.pc = "list", !.out = rftable[i].dp,
                           !.rm = Translate(RouteMod(mod, r), rftable[i].dp)]
      PROVE  RouteSafe'
  <2>. DEFINE out == <<r.vm, rftable[i].dp>>
              rm == Translate(RouteMod(mod, r), rftable[i].dp)
  <2>1. i \in Rows /\ rftable[i].vm = r.vm /\ FollowsConfig(rftable[i])
    BY QueriesFindRows DEF FlowInv, IInv, RowsFollowConfig
  <2>2. rftable[i].dp # NULL
    BY <1>3, <2>1 DEF FollowsConfig, IsIdleVmPort
  <2>3. out \in Config /\ out[1] = r.vm /\ out[2] = rftable[i].dp
    BY <1>3, <2>1, <2>2 DEF FollowsConfig
  <2>. HIDE DEF out
  <2>4. rm = Translate(RouteMod(mod, r), out[2])
    BY <2>3
  <2>5. Carries(rm, rftable[i].dp)
    BY <2>3, <2>4 DEF Carries
  <2>. HIDE DEF rm
  <2>6. /\ DOMAIN rthread' = {"pc", "rm", "out", "todo"}
        /\ rthread'.pc = "list" /\ rthread'.rm = rm /\ rthread'.out = rftable[i].dp
    BY <1>3 DEF IdleR, rm
  <2>. QED
    BY <2>5, <2>6 DEF RouteSafe
<1>. QED
  BY <1>1, <1>2, <1>3 DEF RegisterRouteMod

LEMMA ListInPortsSafe ==
  ASSUME FlowInv, ListInPorts
  PROVE  RouteSafe'
<1>1. CASE rthread' = IdleR
  BY <1>1, IdleRouteSafe DEF FlowInv
<1>2. ASSUME rthread' # IdleR PROVE RouteSafe'
  <2>. DEFINE ins == {i \in RowsOfDp(DpOf[rthread.out]) :
                        rftable[i].dp # rthread.out /\ IsActive(rftable[i])}
  <2>1. rthread' = [rthread EXCEPT !.pc = "send", !.todo = {rftable[i] : i \in ins}]
    BY <1>2 DEF ListInPorts
  <2>2. \A i \in ins : <<rftable[i].vm, rftable[i].dp>> \in Config /\ rftable[i].dp # rthread.out
    <3>. SUFFICES ASSUME NEW i \in ins
                  PROVE  <<rftable[i].vm, rftable[i].dp>> \in Config
      OBVIOUS
    <3>1. i \in Rows /\ FollowsConfig(rftable[i]) /\ rftable[i].vs # NULL
      BY QueriesFindRows DEF FlowInv, IInv, RowsFollowConfig, IsActive
    <3>. QED
      BY <3>1 DEF FollowsConfig
  <2>. HIDE DEF ins
  <2>3. /\ DOMAIN rthread' = {"pc", "rm", "out", "todo"}
        /\ rthread'.pc = "send" /\ rthread'.rm = rthread.rm /\ rthread'.out = rthread.out
        /\ rthread'.todo = {rftable[i] : i \in ins}
    BY <2>1 DEF FlowInv, RouteSafe
  <2>4. Carries(rthread.rm, rthread.out)
    BY DEF ListInPorts, FlowInv, RouteSafe
  <2>. QED
    BY <2>2, <2>3, <2>4 DEF RouteSafe
<1>. QED
  BY <1>1, <1>2

LEMMA SendRouteModSafe ==
  ASSUME FlowInv, SendRouteMod
  PROVE  /\ RouteSafe' /\ QueuesSafe'
         /\ \E m : FromRoute(m) /\ s2p' = Append(s2p, m)
<1>1. PICK e \in rthread.todo :
        /\ s2p' = Append(s2p, [rthread.rm EXCEPT !.matches =
                     @ \o <<FM!Tlv("ETHERNET", e.vm), FM!Tlv("IN_PORT", e.dp)>>])
        /\ rthread' = IF rthread.todo = {e} THEN IdleR
                                            ELSE [rthread EXCEPT !.todo = @ \ {e}]
  BY DEF SendRouteMod
<1>2. RouteSafe'
  <2>1. CASE rthread' = IdleR
    BY <2>1, IdleRouteSafe DEF FlowInv
  <2>2. CASE rthread' = [rthread EXCEPT !.todo = @ \ {e}]
    <3>1. /\ DOMAIN rthread' = {"pc", "rm", "out", "todo"}
          /\ rthread'.pc = rthread.pc /\ rthread'.rm = rthread.rm
          /\ rthread'.out = rthread.out /\ rthread'.todo = rthread.todo \ {e}
      BY <2>2 DEF FlowInv, RouteSafe
    <3>. QED
      BY <3>1 DEF FlowInv, RouteSafe
  <2>. QED
    BY <1>1, <2>1, <2>2
<1>3. rthread.pc = "send"
  BY DEF SendRouteMod
<1>4. PICK mod \in {"ADD", "DELETE"}, r \in Route, out \in Config :
        /\ out[1] = r.vm /\ rthread.out = out[2]
        /\ rthread.rm = Translate(RouteMod(mod, r), out[2])
  BY <1>3 DEF FlowInv, RouteSafe, Carries
<1>. DEFINE from == <<e.vm, e.dp>>
            p == <<from, out>>
            m == MessageFor(mod, r, from, out)
<1>5. from \in Config /\ e.dp # out[2]
  BY <1>1, <1>3, <1>4 DEF FlowInv, RouteSafe
<1>6. p \in InAndOut /\ p[1] = from /\ p[2] = out
  BY <1>4, <1>5 DEF InAndOut
<1>7. FromRoute(m)
  <2>. HIDE DEF p, from
  <2>. QED
    BY <1>4, <1>6 DEF FromRoute
<1>8. s2p' = Append(s2p, m)
  BY <1>1, <1>4 DEF MessageFor
<1>. HIDE DEF m
<1>9. s2p' \in Seq(ToSet(s2p')) /\ \A x \in ToSet(s2p') : x \in ToSet(s2p) \/ x = m
  BY <1>8, QueueAppend DEF FlowInv, QueuesSafe
<1>. QED
  BY <1>2, <1>7, <1>8, <1>9 DEF SendRouteMod, FlowInv, QueuesSafe

LEMMA SendConfigSafe ==
  ASSUME FlowInv, SendConfig
  PROVE  QueuesSafe'
<1>. DEFINE op == Head(sending)
            m == ConfigMessage(op)
<1>1. s2p' = Append(s2p, m) /\ UNCHANGED p2s
  BY DEF SendConfig
<1>2. sending' \in Seq(ToSet(Operations)) /\ sending' # <<>>
  <2>1. sending \in Seq(ToSet(Operations)) /\ sending # <<>>
    BY DEF FlowInv, QueuesSafe
  <2>2. CASE Len(sending) > 1 /\ sending' = Tail(sending)
    <3>. DEFINE rest == Tail(sending)
    <3>1. rest \in Seq(ToSet(Operations)) /\ Len(rest) = Len(sending) - 1
      BY <2>1
    <3>. HIDE DEF rest
    <3>2. rest # <<>>
      BY <2>1, <2>2, <3>1
    <3>. QED
      BY <2>2, <3>1, <3>2 DEF rest
  <2>3. CASE sending' = Operations
    BY <2>3, OperationsSequence
  <2>. QED
    BY <2>2, <2>3 DEF SendConfig
<1>3. op \in ToSet(Operations)
  BY DEF FlowInv, QueuesSafe
<1>4. FromConfig(m)
  BY <1>3 DEF FromConfig
<1>. HIDE DEF m
<1>5. s2p' \in Seq(ToSet(s2p')) /\ \A x \in ToSet(s2p') : x \in ToSet(s2p) \/ x = m
  BY <1>1, QueueAppend DEF FlowInv, QueuesSafe
<1>. QED
  BY <1>1, <1>2, <1>4, <1>5 DEF FlowInv, QueuesSafe

LEMMA ReportsSafe ==
  ASSUME FlowInv, ProxyThreadReads \/ Join \/ Leave
  PROVE  p2s' \in Seq(Reports)
<1>1. CASE ProxyThreadReads
  BY <1>1 DEF ProxyThreadReads, FlowInv, QueuesSafe
<1>2. CASE Join
  <2>1. PICK order \in SetToSeqs(DpPort) :
          p2s' = p2s \o [k \in DOMAIN order |->
                           [type |-> "DatapathPortRegister", port |-> order[k]]]
    BY <1>2 DEF Join
  <2>. DEFINE new == [k \in DOMAIN order |->
                        [type |-> "DatapathPortRegister", port |-> order[k]]]
  <2>2. Cardinality(DpPort) \in Nat
    BY FlowTableAssumption, FS_CardinalityType
  <2>3. DOMAIN order = 1..Cardinality(DpPort) /\ \A k \in DOMAIN order : order[k] \in DpPort
    BY DEF SetToSeqs
  <2>4. new \in Seq(Reports)
    BY <2>2, <2>3 DEF Reports
  <2>. HIDE DEF new
  <2>5. p2s \in Seq(Reports)
    BY DEF FlowInv, QueuesSafe
  <2>. QED
    BY <2>1, <2>4, <2>5, ConcatProperties DEF new
<1>3. CASE Leave
  <2>1. [type |-> "DatapathDown", port |-> NULL] \in Reports
    BY DEF Reports
  <2>. QED
    BY <1>3, <2>1 DEF Leave, FlowInv, QueuesSafe
<1>. QED
  BY <1>1, <1>2, <1>3

(* What rfproxy adds is a default flow or the flow of a route; everything  *)
(* else it does to the table takes flows away.                             *)
LEMMA ProcessRouteModSafe ==
  ASSUME FlowInv, ProcessRouteMod
  PROVE  QueuesSafe' /\ FlowsFollowConfig'
<1>. DEFINE m == Head(s2p)
            fm == FM!CreateFlowMod(m)
            Follows(f) == f \in DefaultFlows \/ \E r \in Route : FlowOf(f, r)
<1>1. s2p # <<>> /\ s2p' = Tail(s2p) /\ UNCHANGED <<sending, p2s>>
  BY DEF ProcessRouteMod
<1>2. /\ s2p' \in Seq(ToSet(s2p')) /\ ToSet(s2p') \subseteq ToSet(s2p)
      /\ m \in ToSet(s2p)
  BY <1>1, QueueTail DEF FlowInv, QueuesSafe
<1>. HIDE DEF m
<1>3. FromRoute(m) \/ FromConfig(m)
  BY <1>2 DEF FlowInv, QueuesSafe
<1>4. flows' \subseteq flows \/ (fm # NULL /\ flows' = Applied(fm))
  BY DEF ProcessRouteMod, m
<1>. HIDE DEF fm
<1>5. fm # NULL => fm.command = "DELETE" \/ Follows(fm)
  BY <1>3, RouteConverted, DefaultConverted DEF fm
<1>. HIDE DEF Follows
<1>6. \A f \in flows' : f \in flows \/ Follows(f)
  <2>1. CASE flows' \subseteq flows
    BY <2>1
  <2>2. CASE fm # NULL /\ flows' = Applied(fm)
    <3>1. \A f \in Applied(fm) : f \in flows \/ (f = fm /\ fm.command # "DELETE")
      BY DEF Applied
    <3>. QED
      BY <1>5, <2>2, <3>1
  <2>. QED
    BY <1>4, <2>1, <2>2
<1>7. \A f \in flows : Follows(f)
  BY DEF FlowInv, FlowsFollowConfig, Follows
<1>8. FlowsFollowConfig'
  BY <1>6, <1>7 DEF FlowsFollowConfig, Follows
<1>. QED
  BY <1>1, <1>2, <1>8 DEF FlowInv, QueuesSafe

LEMMA FlowNextInv ==
  ASSUME FlowInv, [FlowNext]_ftvars
  PROVE  FlowInv'
<1>1. CASE UNCHANGED ftvars
  <2>1. IInv'
    BY <1>1, NextIInv DEF ftvars, FlowInv
  <2>2. RouteSafe'
    BY <1>1, OthersLeaveRoute DEF ftvars, FlowInv
  <2>3. QueuesSafe' /\ FlowsFollowConfig'
    BY <1>1 DEF ftvars, FlowInv, QueuesSafe, FlowsFollowConfig
  <2>. QED
    BY <2>1, <2>2, <2>3 DEF FlowInv
<1>2. CASE FlowNext
  <2>1. IInv'
    BY <1>2, ServerKept
  <2>2. FlowsFollowConfig /\ QueuesSafe /\ RouteSafe
    BY DEF FlowInv
  <2>3. ASSUME UNCHANGED flows PROVE FlowsFollowConfig'
    BY <2>2, <2>3 DEF FlowsFollowConfig
  <2>4. ASSUME UNCHANGED <<sending, p2s, s2p>> PROVE QueuesSafe'
    BY <2>2, <2>4 DEF QueuesSafe
  <2>5. ASSUME UNCHANGED <<sending, s2p>>, p2s' \in Seq(Reports) PROVE QueuesSafe'
    BY <2>2, <2>5 DEF QueuesSafe
  <2>6. CASE \E mod \in {"ADD", "DELETE"}, r \in Route : RegisterRouteMod(mod, r)
    BY <2>1, <2>3, <2>4, <2>6, RegisterRouteModSafe DEF RegisterRouteMod, FlowInv
  <2>7. CASE ListInPorts
    BY <2>1, <2>3, <2>4, <2>7, ListInPortsSafe DEF ListInPorts, FlowInv
  <2>8. CASE SendRouteMod
    BY <2>1, <2>3, <2>8, SendRouteModSafe DEF SendRouteMod, FlowInv
  <2>9. CASE SendConfig
    BY <2>1, <2>2, <2>3, <2>9, SendConfigSafe, OthersLeaveRoute DEF SendConfig, FlowInv
  <2>10. CASE ProxyThreadReads
    BY <2>1, <2>2, <2>3, <2>5, <2>10, ReportsSafe, OthersLeaveRoute
    DEF ProxyThreadReads, FlowInv
  <2>11. CASE ProxyThreadStep \/ (\E v \in VmPort : VmMaps(v)) \/ VsPortGone
    BY <2>1, <2>2, <2>3, <2>4, <2>11, OthersLeaveRoute
    DEF ProxyThreadStep, VmMaps, VsPortGone, FlowInv
  <2>12. CASE ProcessRouteMod
    BY <2>1, <2>2, <2>12, ProcessRouteModSafe, OthersLeaveRoute DEF ProcessRouteMod, FlowInv
  <2>13. CASE Join
    BY <2>1, <2>2, <2>3, <2>5, <2>13, ReportsSafe, OthersLeaveRoute DEF Join, FlowInv
  <2>14. CASE Leave
    <3>1. FlowsFollowConfig'
      BY <2>2, <2>14 DEF Leave, FlowsFollowConfig
    <3>. QED
      BY <2>1, <2>2, <2>5, <2>14, <3>1, ReportsSafe, OthersLeaveRoute DEF Leave, FlowInv
  <2>. QED
    BY <1>2, <2>6, <2>7, <2>8, <2>9, <2>10, <2>11, <2>12, <2>13, <2>14 DEF FlowNext
<1>. QED
  BY <1>1, <1>2

(* For every configuration, every set of routes and every length of the    *)
(* queues: a flow the datapath holds is a default flow or leads between    *)
(* two ports as the configuration has them (register_route_mod,            *)
(* _send_rm_with_matches, create_flow_mod).                                *)
THEOREM FlowsFollow == FlowSpec => []FlowsFollowConfig
<1>1. FlowInv /\ [FlowNext]_ftvars => FlowInv'
  BY FlowNextInv
<1>2. FlowInv => FlowsFollowConfig
  BY DEF FlowInv
<1>. QED
  BY FlowInitInv, <1>1, <1>2, PTL DEF FlowSpec

-------------------------------------------------------------------------------
(* What a default flow is, and why the other messages leave it alone. *)

LEMMA TwoOptions ==
  ASSUME NEW base, NEW s, DOMAIN s = 1..2
  PROVE  FM!FoldLeft(FM!AddOption, base, s) = FM!AddOption(FM!AddOption(base, s[1]), s[2])
<1>. DEFINE iter == OptionFold(base, s, 2)
<1>1. OptionFoldOn(iter, base, s, 2)
  BY OptionFoldExists, 2 \in Nat DEF OptionFold
<1>2. FM!FoldLeft(FM!AddOption, base, s) = iter[1..2]
  BY OptionFoldIs
<1>. HIDE DEF iter
<1>3. /\ {} \in SUBSET (1..2) /\ {1} \in SUBSET (1..2) /\ {1, 2} \in SUBSET (1..2)
      /\ 1..2 = {1, 2} /\ {1} \ {1} = {} /\ {1, 2} \ {2} = {1}
  OBVIOUS
<1>4. FM!Max({1}) = 1 /\ FM!Max({1, 2}) = 2
  <2>1. {1} \in SUBSET (1..3) /\ {1, 2} \in SUBSET (1..3)
    OBVIOUS
  <2>. QED
    BY <2>1, GreatestOfThree
<1>5. iter[{}] = base
  BY <1>1, <1>3 DEF OptionFoldOn
<1>6. iter[{1}] = FM!AddOption(base, s[1])
  BY <1>1, <1>3, <1>4, <1>5 DEF OptionFoldOn
<1>7. iter[{1, 2}] = FM!AddOption(iter[{1}], s[2])
  BY <1>1, <1>3, <1>4 DEF OptionFoldOn
<1>. QED
  BY <1>2, <1>3, <1>6, <1>7

(* A match without a MAC address stays one. *)
LEMMA MatchKeepsMac ==
  ASSUME NEW f, DOMAIN f = DOMAIN FM!AnyPacket, NEW t, t.type # "ETHERNET"
  PROVE  /\ DOMAIN FM!AddMatch(f, t) = DOMAIN FM!AnyPacket
         /\ FM!AddMatch(f, t).eth_dst = f.eth_dst
  BY DEF FM!AddMatch, FM!AnyPacket

LEMMA MatchFoldKeepsMac ==
  ASSUME NEW s, s \in Seq(ToSet(s)), \A i \in DOMAIN s : s[i].type # "ETHERNET"
  PROVE  FM!FoldLeft(FM!AddMatch, FM!AnyPacket, s).eth_dst = NULL
<1>. DEFINE n == Len(s)
            iter == MatchFold(FM!AnyPacket, s, n)
            NoMac(f) == DOMAIN f = DOMAIN FM!AnyPacket /\ f.eth_dst = NULL
<1>1. n \in Nat /\ DOMAIN s = 1..n
  OBVIOUS
<1>2. FM!FoldLeft(FM!AddMatch, FM!AnyPacket, s) = iter[1..n]
  BY <1>1, FoldsAre
<1>. HIDE DEF n
<1>3. MatchFoldOn(iter, FM!AnyPacket, s, n)
  BY <1>1, MatchFoldExists DEF MatchFold
<1>. HIDE DEF iter
<1>. DEFINE T == {m \in Nat : m <= n => NoMac(iter[1..m])}
<1>4. 0 \in T
  <2>1. 1..0 = {} /\ {} \in SUBSET (1..n)
    OBVIOUS
  <2>2. iter[{}] = FM!AnyPacket
    BY <1>3, <2>1 DEF MatchFoldOn
  <2>3. NoMac(FM!AnyPacket)
    BY DEF FM!AnyPacket
  <2>. QED
    BY <2>1, <2>2, <2>3
<1>5. ASSUME NEW k \in T PROVE k + 1 \in T
  <2>. SUFFICES ASSUME k + 1 <= n PROVE NoMac(iter[1..k+1])
    OBVIOUS
  <2>1. k \in Nat /\ NoMac(iter[1..k]) /\ k + 1 \in DOMAIN s
    BY <1>1
  <2>2. /\ 1..k+1 \in SUBSET (1..n) /\ 1..k+1 # {} /\ k + 1 \in 1..k+1
        /\ (1..k+1) \ {k + 1} = 1..k
    BY <1>1, <2>1, FirstNumbers
  <2>3. FM!Max(1..k+1) = k + 1
    BY <2>1, <2>2, GreatestIsLast
  <2>4. iter[1..k+1] = FM!AddMatch(iter[1..k], s[k + 1])
    BY <1>3, <2>2, <2>3 DEF MatchFoldOn
  <2>. QED
    BY <2>1, <2>4, MatchKeepsMac
<1>6. n \in T
  <2>. HIDE DEF T
  <2>1. T \in SUBSET Nat
    BY DEF T
  <2>. QED
    BY <1>1, <1>4, <1>5, <2>1, Induction
<1>. QED
  BY <1>1, <1>2, <1>6

(* The clear message, and the operations that install a default flow.      *)
Clear == ConfigMessage("DC_CLEAR_FLOW_TABLE")

Defaults == {"DC_DROP_ALL"} \cup ToSet(Protocols)

DefaultFlow(op) == FM!CreateFlowMod(ConfigMessage(op))

LEMMA ConfigMessageIs ==
  ASSUME NEW op
  PROVE  /\ ConfigMessage(op).mod = IF op = "DC_CLEAR_FLOW_TABLE" THEN "DELETE" ELSE "ADD"
         /\ ConfigMessage(op).matches = IF op \in ToSet(Protocols) THEN ProtocolMatch[op] ELSE <<>>
         /\ ConfigMessage(op).actions = IF op \in ToSet(Protocols)
                                        THEN <<FM!Tlv("OUTPUT", "controller")>> ELSE <<>>
         /\ DOMAIN ConfigMessage(op).options = 1..2
         /\ ConfigMessage(op).options[1] =
              FM!Tlv("PRIORITY", IF op = "DC_CLEAR_FLOW_TABLE" THEN 0
                                 ELSE IF op = "DC_DROP_ALL" THEN 10 ELSE 8197)
         /\ ConfigMessage(op).options[2] = FM!Tlv("CT_ID", NULL)
  BY DEF ConfigMessage

(* What is installed for an operation.                                     *)
DefaultFields(op, fm) ==
    fm = [command |-> "ADD", priority |-> IF op = "DC_DROP_ALL" THEN 10 ELSE 8197,
          idle_timeout |-> Permanent, hard_timeout |-> Permanent, match |-> fm.match,
          actions |-> FM!FoldLeft(FM!AddAction, <<>>,
                        IF op = "DC_DROP_ALL" THEN <<>> ELSE <<FM!Tlv("OUTPUT", "controller")>>)]

LEMMA DefaultFlowIs ==
  ASSUME NEW op \in Defaults
  PROVE  DefaultFields(op, DefaultFlow(op)) /\ DefaultFlow(op).match.eth_dst = NULL
<1>. DEFINE rm == ConfigMessage(op)
            match == FM!FoldLeft(FM!AddMatch, FM!AnyPacket, rm.matches)
            acts == FM!FoldLeft(FM!AddAction, <<>>, rm.actions)
            base == [command |-> NULL, priority |-> DefaultPriority,
                     idle_timeout |-> Permanent, hard_timeout |-> Permanent,
                     match |-> match, actions |-> acts]
            folded == FM!FoldLeft(FM!AddOption, base, rm.options)
            p == IF op = "DC_DROP_ALL" THEN 10 ELSE 8197
            as == IF op = "DC_DROP_ALL" THEN <<>> ELSE <<FM!Tlv("OUTPUT", "controller")>>
            ms == IF op = "DC_DROP_ALL" THEN <<>> ELSE ProtocolMatch[op]
<1>1. op # "DC_CLEAR_FLOW_TABLE" /\ (op \in ToSet(Protocols) <=> op # "DC_DROP_ALL")
  BY ProtocolsAssumption DEF Defaults
<1>2. /\ rm.mod = "ADD" /\ rm.matches = ms /\ rm.actions = as
      /\ DOMAIN rm.options = 1..2
      /\ rm.options[1] = FM!Tlv("PRIORITY", p) /\ rm.options[2] = FM!Tlv("CT_ID", NULL)
  BY <1>1, ConfigMessageIs
<1>3. ms \in Seq(ToSet(ms)) /\ \A i \in DOMAIN ms : ms[i].type # "ETHERNET"
  <2>1. CASE op = "DC_DROP_ALL"
    BY <2>1
  <2>2. CASE op # "DC_DROP_ALL"
    BY <1>1, <2>2, ProtocolsAssumption
  <2>. QED
    BY <2>1, <2>2
<1>4. DefaultFlow(op) # NULL
  BY ProtocolsAssumption DEF Defaults, DefaultFlow
<1>5. DefaultFlow(op) = FM!SetCommand(folded, "ADD")
  <2>. HIDE DEF rm
  <2>. QED
    BY <1>2, <1>4 DEF FM!CreateFlowMod, DefaultFlow, rm
<1>6. match.eth_dst = NULL /\ acts = FM!FoldLeft(FM!AddAction, <<>>, as)
  BY <1>2, <1>3, MatchFoldKeepsMac
<1>. HIDE DEF rm, match, acts, as, p
<1>7. folded = [command |-> NULL, priority |-> p,
                idle_timeout |-> Permanent, hard_timeout |-> Permanent,
                match |-> match, actions |-> acts]
  <2>1. folded = FM!AddOption(FM!AddOption(base, rm.options[1]), rm.options[2])
    BY <1>2, TwoOptions
  <2>2. FM!AddOption(base, FM!Tlv("PRIORITY", p)) = [base EXCEPT !.priority = p]
    BY DEF FM!AddOption, FM!Tlv
  <2>3. \A x : FM!AddOption(x, FM!Tlv("CT_ID", NULL)) = x
    BY DEF FM!AddOption, FM!Tlv
  <2>. QED
    BY <1>2, <2>1, <2>2, <2>3
<1>. HIDE DEF folded
<1>8. DefaultFlow(op) = [command |-> "ADD", priority |-> p,
                idle_timeout |-> Permanent, hard_timeout |-> Permanent,
                match |-> match, actions |-> acts]
  BY <1>5, <1>7 DEF FM!SetCommand
<1>. QED
  BY <1>6, <1>8 DEF DefaultFields, p, as

LEMMA DefaultAgain ==
  ASSUME NEW a \in Defaults, NEW b \in Defaults,
         DefaultFlow(a).match = DefaultFlow(b).match,
         DefaultFlow(a).priority = DefaultFlow(b).priority
  PROVE  DefaultFlow(a) = DefaultFlow(b)
<1>. DEFINE f == DefaultFlow(a)
            g == DefaultFlow(b)
<1>1. DefaultFields(a, f) /\ DefaultFields(b, g)
  BY DefaultFlowIs
<1>. HIDE DEF f, g
<1>2. /\ f.priority = IF a = "DC_DROP_ALL" THEN 10 ELSE 8197
      /\ g.priority = IF b = "DC_DROP_ALL" THEN 10 ELSE 8197
  BY <1>1 DEF DefaultFields
<1>3. a = "DC_DROP_ALL" <=> b = "DC_DROP_ALL"
  <2>1. f.priority = g.priority
    BY DEF f, g
  <2>. QED
    BY <1>2, <2>1
<1>4. f.match = g.match
  BY DEF f, g
<1>5. f = g
  BY <1>1, <1>3, <1>4 DEF DefaultFields
<1>. QED
  BY <1>5 DEF f, g

(* The flows a route's message is about are for one MAC address.           *)
LEMMA RouteHasMac ==
  ASSUME NEW m, FromRoute(m), NEW fm, fm = FM!CreateFlowMod(m), fm # NULL
  PROVE  "eth_dst" \in DOMAIN fm.match /\ fm.match.eth_dst \in VmPort
<1>1. PICK mod \in {"ADD", "DELETE"}, r \in Route, p \in InAndOut :
        p[2][1] = r.vm /\ m = MessageFor(mod, r, p[1], p[2])
  BY DEF FromRoute
<1>. DEFINE in == p[1]
            out == p[2]
<1>2. in \in Config /\ m = MessageFor(mod, r, in, out)
  BY <1>1 DEF InAndOut
<1>. HIDE DEF in, out
<1>3. fm.match = Fields(IP, r.match.value, in[1], in[2])
  <2>1. fm.match = MatchOf(r, in)
    BY <1>2, RouteFlowIs
  <2>. QED
    BY <2>1, MatchOfFields
<1>4. in[1] \in VmPort
  BY <1>2, ConfigPair
<1>. QED
  BY <1>3, <1>4 DEF Fields

LEMMA OperationsAre ==
  /\ Operations \in Seq(Defaults \cup {"DC_CLEAR_FLOW_TABLE"})
  /\ Len(Operations) = 2 + Len(Protocols) /\ Len(Protocols) \in Nat
  /\ \A k \in DOMAIN Operations : k # 1 => Operations[k] \in Defaults
  /\ \A op \in Defaults : \E k \in DOMAIN Operations : k # 1 /\ Operations[k] = op
<1>. DEFINE two == <<"DC_CLEAR_FLOW_TABLE", "DC_DROP_ALL">>
            S == Defaults \cup {"DC_CLEAR_FLOW_TABLE"}
            T == ToSet(Protocols)
<1>1. /\ two \in Seq(S) /\ Len(two) = 2 /\ two[2] = "DC_DROP_ALL"
      /\ Protocols \in Seq(T) /\ T \subseteq Defaults
  BY FlowTableAssumption DEF Defaults
<1>2. Defaults \subseteq S /\ Protocols \in Seq(S)
  <2>. HIDE DEF S, T
  <2>1. T \subseteq S
    BY <1>1 DEF S
  <2>. QED
    BY <1>1, <2>1 DEF S
<1>. HIDE DEF two, S
<1>3. /\ Operations \in Seq(S) /\ Len(Operations) = 2 + Len(Protocols)
      /\ Len(Protocols) \in Nat
      /\ \A i \in 1..2 + Len(Protocols) :
           Operations[i] = IF i <= 2 THEN two[i] ELSE Protocols[i - 2]
  BY <1>1, <1>2, ConcatProperties DEF Operations, two
<1>4. DOMAIN Operations = 1..2 + Len(Protocols) /\ DOMAIN Protocols = 1..Len(Protocols)
  BY <1>1, <1>3
<1>5. ASSUME NEW k \in DOMAIN Operations, k # 1
      PROVE  Operations[k] \in Defaults
  <2>1. CASE k = 2
    BY <1>1, <1>3, <1>4, <2>1 DEF Defaults
  <2>2. CASE k # 2
    <3>1. k - 2 \in DOMAIN Protocols /\ ~(k <= 2)
      BY <1>3, <1>4, <1>5, <2>2
    <3>2. Operations[k] = Protocols[k - 2]
      BY <1>3, <1>4, <3>1
    <3>. QED
      BY <1>1, <3>1, <3>2
  <2>. QED
    BY <2>1, <2>2
<1>6. ASSUME NEW op \in Defaults
      PROVE  \E k \in DOMAIN Operations : k # 1 /\ Operations[k] = op
  <2>1. CASE op = "DC_DROP_ALL"
    <3>1. 2 \in 1..2 + Len(Protocols) /\ 2 # 1 /\ 2 <= 2
      BY <1>3
    <3>2. Operations[2] = op
      BY <1>1, <1>3, <2>1, <3>1
    <3>. QED
      BY <1>4, <3>1, <3>2
  <2>2. CASE op \in T
    <3>1. PICK j \in DOMAIN Protocols : Protocols[j] = op
      BY <2>2 DEF ToSet
    <3>2. j + 2 \in 1..2 + Len(Protocols) /\ j + 2 # 1 /\ ~(j + 2 <= 2) /\ j + 2 - 2 = j
      BY <1>3, <1>4
    <3>3. Operations[j + 2] = op
      BY <1>3, <3>1, <3>2
    <3>. QED
      BY <1>4, <3>2, <3>3
  <2>. QED
    BY <2>1, <2>2 DEF Defaults
<1>. QED
  BY <1>3, <1>5, <1>6 DEF S

(* Only the clear message reads as one.                                    *)
LEMMA ClearIs ==
  /\ \A op \in Defaults : ConfigMessage(op) # Clear
  /\ \A m : FromRoute(m) => m # Clear
  /\ \A m : FromConfig(m) => m = Clear \/ \E op \in Defaults : m = ConfigMessage(op)
<1>1. ASSUME NEW op \in Defaults PROVE ConfigMessage(op) # Clear
  <2>1. op # "DC_CLEAR_FLOW_TABLE"
    BY ProtocolsAssumption DEF Defaults
  <2>2. ConfigMessage(op).mod = "ADD" /\ Clear.mod = "DELETE"
    BY <2>1, ConfigMessageIs DEF Clear
  <2>. QED
    BY <2>2
<1>2. ASSUME NEW m, FromRoute(m) PROVE m # Clear
  <2>1. PICK mod \in {"ADD", "DELETE"}, r \in Route, p \in InAndOut :
          p[2][1] = r.vm /\ m = MessageFor(mod, r, p[1], p[2])
    BY <1>2 DEF FromRoute
  <2>2. MessageFields(m, mod, r, p[1], p[2])
    BY <2>1, RouteMessageFields
  <2>3. DOMAIN m.matches = 1..3
    BY <2>2 DEF MessageFields
  <2>4. Clear.matches = <<>>
    BY ConfigMessageIs, ProtocolsAssumption DEF Clear
  <2>. QED
    BY <2>3, <2>4
<1>3. ASSUME NEW m, FromConfig(m)
      PROVE  m = Clear \/ \E op \in Defaults : m = ConfigMessage(op)
  <2>1. PICK op \in ToSet(Operations) : m = ConfigMessage(op)
    BY <1>3 DEF FromConfig
  <2>2. op \in Defaults \/ op = "DC_CLEAR_FLOW_TABLE"
    BY OperationsAre DEF ToSet
  <2>. QED
    BY <2>1, <2>2 DEF Clear
<1>. QED
  BY <1>1, <1>2, <1>3

(* Nothing but the clear message takes a default flow away.                *)
LEMMA DefaultKept ==
  ASSUME NEW op \in Defaults, DefaultFlow(op) \in flows,
         NEW m, FromRoute(m) \/ FromConfig(m), m # Clear,
         NEW fm, fm = FM!CreateFlowMod(m), fm # NULL
  PROVE  DefaultFlow(op) \in Applied(fm)
<1>. DEFINE f == DefaultFlow(op)
<1>0. f.match.eth_dst = NULL
  BY DefaultFlowIs
<1>1. CASE FromRoute(m)
  <2>1. "eth_dst" \in DOMAIN fm.match /\ fm.match.eth_dst \in VmPort
    BY <1>1, RouteHasMac
  <2>2. fm.match.eth_dst # NULL /\ fm.match.eth_dst # f.match.eth_dst
    BY <1>0, <2>1, NullAssumption
  <2>. HIDE DEF f
  <2>3. ~Within(fm.match, f.match)
    BY <2>1, <2>2 DEF Within
  <2>4. f.match # fm.match
    BY <2>2
  <2>. QED
    BY <2>3, <2>4 DEF Applied, f
<1>2. CASE FromConfig(m)
  <2>1. PICK o \in Defaults : m = ConfigMessage(o)
    BY <1>2, ClearIs
  <2>2. fm = DefaultFlow(o)
    BY <2>1 DEF DefaultFlow
  <2>3. fm.command = "ADD"
    BY <2>2, DefaultFlowIs DEF DefaultFields
  <2>4. CASE f.match # fm.match \/ f.priority # fm.priority
    BY <2>3, <2>4 DEF Applied
  <2>5. CASE f.match = fm.match /\ f.priority = fm.priority
    <3>1. f = fm
      BY <2>2, <2>5, DefaultAgain
    <3>2. fm \in Applied(fm)
      BY <2>3 DEF Applied
    <3>. QED
      BY <3>1, <3>2
  <2>. QED
    BY <2>4, <2>5
<1>. QED
  BY <1>1, <1>2

LEMMA DefaultAdded ==
  ASSUME NEW op \in Defaults
  PROVE  DefaultFlow(op) # NULL /\ DefaultFlow(op) \in Applied(DefaultFlow(op))
<1>1. DefaultFlow(op).command = "ADD"
  BY DefaultFlowIs DEF DefaultFields
<1>2. DefaultFlow(op) # NULL
  BY ProtocolsAssumption DEF Defaults, DefaultFlow
<1>. QED
  BY <1>1, <1>2 DEF Applied

(* A default flow is installed or on its way, and nothing on its way       *)
(* clears it.                                                              *)
Held(op) ==
    \/ DefaultFlow(op) \in flows /\ \A j \in DOMAIN s2p : s2p[j] # Clear
    \/ \E k \in DOMAIN s2p :
         s2p[k] = ConfigMessage(op) /\ \A j \in DOMAIN s2p : j > k => s2p[j] # Clear

DownPending == \E k \in DOMAIN p2s : p2s[k].type = "DatapathDown"

(* How many operations have been sent in this round.                       *)
Sent == Len(Operations) - Len(sending)

RoundSafe ==
    /\ Sent >= 0
    /\ \A k \in DOMAIN sending : sending[k] = Operations[Sent + k]
    /\ pthread.pc # "configure" => Sent = 0

DefaultsSafe == up /\ ~DownPending =>
    /\ pthread.pc = "configure" => \A k \in 2..Sent : Held(Operations[k])
    /\ pthread.pc # "configure" /\ dp0 \in configured => \A op \in Defaults : Held(op)

(* Each of these documents has an entry of its own left in the list.       *)
Accounted(docs, todo) ==
    \E f \in [docs -> todo] :
        /\ \A i \in docs : f[i][2] = rftable[i].dp
        /\ \A i, j \in docs : f[i] = f[j] => i = j

(* While the datapath is away rfserver has still to read that it left, or  *)
(* puts its documents down, or has put them all down.                      *)
Away ==
    /\ p2s = <<>> /\ dp0 \notin configured
    /\ \/ pthread.pc = "idle" /\ RowsOfDp(dp0) = {}
       \/ pthread.pc \in {"down", "down_reset"} /\ Accounted(RowsOfDp(dp0), pthread.todo)
       \/ /\ pthread.pc = "down_save" /\ pthread.entry.dp = NULL
          /\ Accounted(RowsOfDp(dp0) \ {pthread.id}, pthread.todo)

AwaySafe == ~up => Away \/ (p2s # <<>> /\ p2s[Len(p2s)].type = "DatapathDown")

DefaultInv == FlowInv /\ RoundSafe /\ DefaultsSafe /\ AwaySafe

-------------------------------------------------------------------------------
(* How the messages for rfproxy come and go. *)

LEMMA AppendIs ==
  ASSUME NEW S, NEW s \in Seq(S), NEW m
  PROVE  /\ Len(Append(s, m)) = Len(s) + 1 /\ Len(s) \in Nat
         /\ DOMAIN Append(s, m) = 1..Len(s) + 1 /\ DOMAIN s = 1..Len(s)
         /\ \A k \in DOMAIN s : k \in DOMAIN Append(s, m) /\ Append(s, m)[k] = s[k]
         /\ Append(s, m)[Len(s) + 1] = m
  OBVIOUS

LEMMA TailIs ==
  ASSUME NEW S, NEW s \in Seq(S), s # <<>>
  PROVE  /\ Head(s) = s[1] /\ Len(Tail(s)) = Len(s) - 1 /\ Len(s) \in Nat \ {0}
         /\ DOMAIN s = 1..Len(s) /\ DOMAIN Tail(s) = 1..Len(s) - 1
         /\ \A k \in DOMAIN Tail(s) : k + 1 \in DOMAIN s /\ Tail(s)[k] = s[k + 1]
         /\ \A k \in DOMAIN s : k # 1 => k - 1 \in DOMAIN Tail(s) /\ Tail(s)[k - 1] = s[k]
  OBVIOUS

(* A message that does not clear leaves a default flow held.               *)
LEMMA HeldAppend ==
  ASSUME NEW op, Held(op), s2p \in Seq(ToSet(s2p)), NEW m, m # Clear,
         s2p' = Append(s2p, m), UNCHANGED flows
  PROVE  Held(op)'
<1>. DEFINE q == s2p'
            n == Len(s2p)
<1>1. /\ n \in Nat /\ DOMAIN s2p = 1..n /\ DOMAIN q = 1..n + 1
      /\ \A k \in 1..n : q[k] = s2p[k]
      /\ q[n + 1] = m
  BY AppendIs
<1>. HIDE DEF q, n
<1>2. \A j \in DOMAIN q : j = n + 1 \/ j \in DOMAIN s2p
  BY <1>1
<1>3. CASE DefaultFlow(op) \in flows /\ \A j \in DOMAIN s2p : s2p[j] # Clear
  <2>1. \A j \in DOMAIN q : q[j] # Clear
    BY <1>1, <1>2, <1>3
  <2>. QED
    BY <1>3, <2>1 DEF Held, q
<1>4. ASSUME NEW k \in DOMAIN s2p, s2p[k] = ConfigMessage(op),
             \A j \in DOMAIN s2p : j > k => s2p[j] # Clear
      PROVE  Held(op)'
  <2>1. k \in DOMAIN q /\ q[k] = ConfigMessage(op)
    BY <1>1, <1>4
  <2>2. \A j \in DOMAIN q : j > k => q[j] # Clear
    BY <1>1, <1>2, <1>4
  <2>. QED
    BY <2>1, <2>2 DEF Held, q
<1>. QED
  BY <1>3, <1>4 DEF Held

LEMMA HeldSent ==
  ASSUME NEW op, s2p \in Seq(ToSet(s2p)), s2p' = Append(s2p, ConfigMessage(op))
  PROVE  Held(op)'
<1>. DEFINE q == s2p'
            n == Len(s2p)
<1>1. n \in Nat /\ DOMAIN q = 1..n + 1 /\ q[n + 1] = ConfigMessage(op)
  BY AppendIs
<1>. HIDE DEF q, n
<1>2. n + 1 \in DOMAIN q /\ \A j \in DOMAIN q : ~(j > n + 1)
  BY <1>1
<1>. QED
  BY <1>1, <1>2 DEF Held, q

LEMMA HeldProcessed ==
  ASSUME FlowInv, up, ProcessRouteMod, NEW op \in Defaults, Held(op)
  PROVE  Held(op)'
<1>. DEFINE m == s2p[1]
            fm == FM!CreateFlowMod(m)
            q == s2p'
<1>1. /\ s2p \in Seq(ToSet(s2p)) /\ s2p # <<>> /\ q = Tail(s2p)
      /\ m = Head(s2p)
  BY DEF ProcessRouteMod, FlowInv, QueuesSafe
<1>2. /\ 1 \in DOMAIN s2p /\ DOMAIN s2p \subseteq Nat \ {0} /\ DOMAIN q \subseteq Nat \ {0}
      /\ \A k \in DOMAIN q : k + 1 \in DOMAIN s2p /\ q[k] = s2p[k + 1]
      /\ \A k \in DOMAIN s2p : k # 1 => k - 1 \in DOMAIN q /\ q[k - 1] = s2p[k]
  BY <1>1, TailIs
<1>3. FromRoute(m) \/ FromConfig(m)
  BY <1>1, <1>2 DEF FlowInv, QueuesSafe, ToSet
<1>4. IF fm # NULL THEN flows' = Applied(fm) ELSE flows' = flows
  BY <1>1 DEF ProcessRouteMod
<1>5. CASE DefaultFlow(op) \in flows /\ \A j \in DOMAIN s2p : s2p[j] # Clear
  <2>1. m # Clear
    BY <1>2, <1>5
  <2>. HIDE DEF m, q
  <2>2. DefaultFlow(op) \in flows'
    BY <1>3, <1>4, <1>5, <2>1, DefaultKept
  <2>3. \A j \in DOMAIN q : q[j] # Clear
    BY <1>2, <1>5
  <2>. QED
    BY <2>2, <2>3 DEF Held, q
<1>6. ASSUME NEW k \in DOMAIN s2p, s2p[k] = ConfigMessage(op),
             \A j \in DOMAIN s2p : j > k => s2p[j] # Clear
      PROVE  Held(op)'
  <2>1. CASE k = 1
    <3>1. fm = DefaultFlow(op)
      BY <1>6, <2>1 DEF DefaultFlow
    <3>2. DefaultFlow(op) \in flows'
      BY <1>4, <3>1, DefaultAdded
    <3>. HIDE DEF q
    <3>3. \A j \in DOMAIN q : q[j] # Clear
      BY <1>2, <1>6, <2>1
    <3>. QED
      BY <3>2, <3>3 DEF Held, q
  <2>2. CASE k # 1
    <3>. HIDE DEF q
    <3>1. k - 1 \in DOMAIN q /\ q[k - 1] = ConfigMessage(op)
      BY <1>2, <1>6, <2>2
    <3>2. \A j \in DOMAIN q : j > k - 1 => q[j] # Clear
      BY <1>2, <1>6
    <3>. QED
      BY <3>1, <3>2 DEF Held, q
  <2>. QED
    BY <2>1, <2>2
<1>. QED
  BY <1>5, <1>6 DEF Held

LEMMA HeldUnchanged ==
  ASSUME NEW op, Held(op), UNCHANGED <<s2p, flows>>
  PROVE  Held(op)'
  BY DEF Held

-------------------------------------------------------------------------------
(* The round of config_dp. *)

LEMMA RoundKept ==
  ASSUME RoundSafe, UNCHANGED sending, pthread'.pc # "configure" => Sent = 0
  PROVE  RoundSafe' /\ Sent' = Sent
  BY DEF RoundSafe, Sent

LEMMA RoundFacts ==
  ASSUME FlowInv, RoundSafe
  PROVE  /\ sending \in Seq(ToSet(Operations)) /\ Len(sending) \in Nat \ {0}
         /\ DOMAIN sending = 1..Len(sending)
         /\ Len(Operations) \in Nat /\ DOMAIN Operations = 1..Len(Operations)
         /\ Sent \in Nat /\ Sent + Len(sending) = Len(Operations)
         /\ Head(sending) = Operations[Sent + 1] /\ Sent + 1 \in DOMAIN Operations
<1>1. sending \in Seq(ToSet(Operations)) /\ sending # <<>>
  BY DEF FlowInv, QueuesSafe
<1>2. /\ Len(sending) \in Nat \ {0} /\ DOMAIN sending = 1..Len(sending)
      /\ Head(sending) = sending[1]
  BY <1>1
<1>3. Len(Operations) \in Nat /\ DOMAIN Operations = 1..Len(Operations)
  BY OperationsSequence
<1>4. Sent \in Nat /\ Sent + Len(sending) = Len(Operations)
  <2>1. Sent = Len(Operations) - Len(sending) /\ Sent >= 0
    BY DEF RoundSafe, Sent
  <2>. QED
    BY <1>2, <1>3, <2>1
<1>5. sending[1] = Operations[Sent + 1]
  BY <1>2 DEF RoundSafe
<1>6. Sent + 1 \in DOMAIN Operations
  BY <1>2, <1>3, <1>4
<1>. QED
  BY <1>1, <1>2, <1>3, <1>4, <1>5, <1>6

LEMMA SendConfigRound ==
  ASSUME FlowInv, RoundSafe, SendConfig
  PROVE  /\ RoundSafe'
         /\ \/ Sent' = Sent + 1 /\ UNCHANGED vars
            \/ /\ Sent + 1 = Len(Operations) /\ Sent' = 0
               /\ pthread'.pc # "configure"
<1>1. /\ sending \in Seq(ToSet(Operations)) /\ Len(sending) \in Nat \ {0}
      /\ Len(Operations) \in Nat /\ DOMAIN Operations = 1..Len(Operations)
      /\ Sent \in Nat /\ Sent + Len(sending) = Len(Operations)
  BY RoundFacts
<1>2. CASE Len(sending) > 1
  <2>1. sending' = Tail(sending) /\ UNCHANGED vars
    BY <1>2 DEF SendConfig
  <2>2. /\ Len(sending') = Len(sending) - 1
        /\ \A k \in DOMAIN sending' : k + 1 \in DOMAIN sending /\ sending'[k] = sending[k + 1]
        /\ DOMAIN sending' \subseteq Nat
    BY <1>1, <1>2, <2>1
  <2>3. Sent' = Sent + 1
    BY <1>1, <2>2 DEF Sent
  <2>4. \A k \in DOMAIN sending' : sending'[k] = Operations[Sent' + k]
    <3>. TAKE k \in DOMAIN sending'
    <3>1. sending[k + 1] = Operations[Sent + (k + 1)] /\ k \in Nat
      BY <2>2 DEF RoundSafe
    <3>2. Sent + (k + 1) = Sent' + k
      BY <1>1, <2>3, <3>1
    <3>. QED
      BY <2>2, <3>1, <3>2
  <2>5. pthread'.pc = "configure"
    BY <2>1 DEF SendConfig, vars
  <2>6. RoundSafe'
    BY <1>1, <2>3, <2>4, <2>5 DEF RoundSafe
  <2>. QED
    BY <2>1, <2>3, <2>6
<1>3. CASE ~(Len(sending) > 1)
  <2>0. Len(sending) = 1
    <3>. DEFINE n == Len(sending)
    <3>1. n \in Nat \ {0} /\ ~(n > 1)
      BY <1>1, <1>3
    <3>. HIDE DEF n
    <3>2. n = 1
      BY <3>1
    <3>. QED
      BY <3>2 DEF n
  <2>1. sending' = Operations /\ ConfigDp /\ Len(sending) = 1
    BY <1>3, <2>0, Zenon DEF SendConfig
  <2>2. Sent' = 0
    BY <1>1, <2>1 DEF Sent
  <2>3. \A k \in DOMAIN sending' : sending'[k] = Operations[Sent' + k]
    BY <1>1, <2>1, <2>2
  <2>4. pthread'.pc # "configure"
    BY <2>1 DEF ConfigDp, IdleP, FlowInv, IInv, TypeOK, PState
  <2>5. RoundSafe'
    BY <2>2, <2>3 DEF RoundSafe
  <2>. QED
    BY <1>1, <2>1, <2>2, <2>4, <2>5
<1>. QED
  BY <1>2, <1>3

-------------------------------------------------------------------------------
(* Default flows, while the datapath is up. *)

LEMMA DefaultsKept ==
  ASSUME DefaultsSafe, UNCHANGED <<up, p2s, s2p, flows, configured>>, Sent' = Sent,
         pthread'.pc = "configure" <=> pthread.pc = "configure"
  PROVE  DefaultsSafe'
<1>. SUFFICES ASSUME up', ~DownPending'
              PROVE  /\ pthread'.pc = "configure" => \A k \in 2..Sent' : Held(Operations[k])'
                     /\ pthread'.pc # "configure" /\ dp0 \in configured' =>
                          \A op \in Defaults : Held(op)'
  BY DEF DefaultsSafe
<1>1. up /\ ~DownPending
  BY DEF DownPending
<1>. QED
  BY <1>1, HeldUnchanged DEF DefaultsSafe

LEMMA AppendDefaults ==
  ASSUME DefaultInv, NEW m, m # Clear, s2p' = Append(s2p, m),
         UNCHANGED <<up, p2s, flows, configured>>, Sent' = Sent,
         pthread'.pc = "configure" <=> pthread.pc = "configure"
  PROVE  DefaultsSafe'
<1>. SUFFICES ASSUME up', ~DownPending'
              PROVE  /\ pthread'.pc = "configure" => \A k \in 2..Sent' : Held(Operations[k])'
                     /\ pthread'.pc # "configure" /\ dp0 \in configured' =>
                          \A op \in Defaults : Held(op)'
  BY DEF DefaultsSafe
<1>1. up /\ ~DownPending
  BY DEF DownPending
<1>2. s2p \in Seq(ToSet(s2p))
  BY DEF DefaultInv, FlowInv, QueuesSafe
<1>3. \A op : Held(op) => Held(op)'
  BY <1>2, HeldAppend
<1>. QED
  BY <1>1, <1>3 DEF DefaultInv, DefaultsSafe

(* When the last operation of a round has been sent every default flow is  *)
(* held: they were sent after the clear message.                           *)
LEMMA SendConfigDefaults ==
  ASSUME DefaultInv, SendConfig
  PROVE  DefaultsSafe'
<1>. DEFINE n == Sent + 1
<1>0. PICK op : op = Operations[n]
  OBVIOUS
<1>. SUFFICES ASSUME up', ~DownPending'
              PROVE  /\ pthread'.pc = "configure" => \A k \in 2..Sent' : Held(Operations[k])'
                     /\ pthread'.pc # "configure" /\ dp0 \in configured' =>
                          \A o \in Defaults : Held(o)'
  BY DEF DefaultsSafe
<1>1. up /\ ~DownPending /\ UNCHANGED flows
  BY DEF SendConfig, DownPending
<1>2. s2p \in Seq(ToSet(s2p)) /\ FlowInv /\ RoundSafe
  BY DEF DefaultInv, FlowInv, QueuesSafe
<1>3. /\ s2p' = Append(s2p, ConfigMessage(op)) /\ pthread.pc = "configure"
      /\ Sent \in Nat /\ n \in DOMAIN Operations
  BY <1>0, <1>2, RoundFacts DEF SendConfig
<1>4. \A k \in 2..Sent : Held(Operations[k])
  BY <1>1, <1>3 DEF DefaultInv, DefaultsSafe
<1>5. Held(op)'
  BY <1>2, <1>3, HeldSent
<1>6. \A k \in 2..Sent : Held(Operations[k])'
  <2>. SUFFICES ASSUME NEW k \in 2..Sent PROVE Held(Operations[k])'
    OBVIOUS
  <2>1. n # 1
    BY <1>3
  <2>2. ConfigMessage(op) # Clear
    BY <1>0, <1>3, <2>1, OperationsAre, ClearIs
  <2>. QED
    BY <1>1, <1>2, <1>3, <1>4, <2>2, HeldAppend
<1>7. \A k \in 2..n : Held(Operations[k])'
  <2>1. \A k \in 2..n : k \in 2..Sent \/ k = n
    BY <1>3
  <2>. QED
    BY <1>0, <1>5, <1>6, <2>1
<1>8. CASE Sent' = n /\ UNCHANGED vars
  BY <1>3, <1>7, <1>8 DEF vars
<1>9. CASE n = Len(Operations) /\ pthread'.pc # "configure"
  <2>1. \A k \in DOMAIN Operations : k # 1 => k \in 2..n
    BY <1>2, <1>9, RoundFacts
  <2>2. \A o \in Defaults : Held(o)'
    BY <1>7, <2>1, OperationsAre
  <2>. QED
    BY <1>9, <2>2
<1>. QED
  BY <1>2, <1>8, <1>9, SendConfigRound

(* While no message that the datapath left is pending, reading one leaves  *)
(* it so.                                                                  *)
LEMMA DownStaysPending ==
  ASSUME p2s \in Seq(Reports), p2s # <<>>, p2s' = Tail(p2s), ~DownPending'
  PROVE  ~DownPending \/ Head(p2s).type = "DatapathDown"
<1>1. /\ DOMAIN p2s \subseteq Nat /\ Head(p2s) = p2s[1]
      /\ \A k \in DOMAIN p2s : k # 1 => k - 1 \in DOMAIN Tail(p2s) /\ Tail(p2s)[k - 1] = p2s[k]
  BY TailIs
<1>. SUFFICES ASSUME NEW k \in DOMAIN p2s, p2s[k].type = "DatapathDown", k # 1
              PROVE  FALSE
  BY <1>1 DEF DownPending
<1>2. k - 1 \in DOMAIN p2s' /\ p2s'[k - 1].type = "DatapathDown"
  BY <1>1
<1>. QED
  BY <1>2 DEF DownPending

LEMMA ReadDefaults ==
  ASSUME DefaultInv, ProxyThreadReads
  PROVE  RoundSafe' /\ DefaultsSafe'
<1>1. pthread.pc = "idle" /\ Sent = 0 /\ UNCHANGED <<sending, s2p, flows, up>>
  BY DEF ProxyThreadReads, DefaultInv, RoundSafe
<1>2. RoundSafe' /\ Sent' = 0
  BY <1>1, RoundKept DEF DefaultInv
<1>3. CASE Head(p2s).type = "DatapathPortRegister" /\ RegisterDpPort(Head(p2s).port)
  <2>. SUFFICES ASSUME up', ~DownPending'
                PROVE  /\ \A k \in 2..Sent' : Held(Operations[k])'
                       /\ dp0 \in configured' => \A op \in Defaults : Held(op)'
    BY <1>2 DEF DefaultsSafe
  <2>1. up /\ ~DownPending
    BY <1>1, <1>3, DownStaysPending DEF ProxyThreadReads, DefaultInv, FlowInv, QueuesSafe
  <2>2. dp0 \in configured => \A op \in Defaults : Held(op)
    BY <1>1, <2>1 DEF DefaultInv, DefaultsSafe
  <2>3. UNCHANGED configured
    BY <1>3 DEF RegisterDpPort
  <2>. QED
    BY <1>1, <1>2, <2>2, <2>3, HeldUnchanged
<1>4. CASE SetDpDown(dp0)
  <2>1. dp0 \notin configured' /\ pthread'.pc # "configure"
    BY <1>4 DEF SetDpDown, IdleP
  <2>. QED
    BY <1>2, <2>1 DEF DefaultsSafe
<1>. QED
  BY <1>2, <1>3, <1>4 DEF ProxyThreadReads

LEMMA StepDefaults ==
  ASSUME DefaultInv, ProxyThreadStep \/ \E v \in VmPort : VmMaps(v)
  PROVE  RoundSafe' /\ DefaultsSafe'
<1>0. UNCHANGED <<sending, p2s, s2p, up, flows>>
  BY DEF ProxyThreadStep, VmMaps
<1>1. pthread.pc # "configure" /\ pthread'.pc # "configure" /\ UNCHANGED configured
  <2>1. DOMAIN pthread = {"pc", "x", "dp", "id", "entry", "todo"}
    BY DEF DefaultInv, FlowInv, IInv, TypeOK, PState
  <2>0. IdleP.pc = "idle"
    BY DEF IdleP
  <2>2. CASE DpLookupVm
    <3>1. /\ pthread.pc = "lookup_vm" /\ UNCHANGED configured
          /\ \/ pthread' = IdleP \/ pthread' = [pthread EXCEPT !.pc = "insert"]
             \/ \E i, e : pthread' = [pthread EXCEPT !.pc = "save", !.id = i, !.entry = e]
      BY <2>2 DEF DpLookupVm
    <3>. QED
      BY <2>0, <2>1, <3>1
  <2>3. CASE DownLookup
    <3>1. pthread.pc = "down" /\ UNCHANGED configured
      BY <2>3 DEF DownLookup
    <3>2. CASE pthread' = IdleP
      BY <2>0, <3>1, <3>2
    <3>3. ASSUME NEW t, pthread' = [pthread EXCEPT !.todo = @ \ {t}]
          PROVE  pthread'.pc # "configure"
      BY <2>1, <3>1, <3>3
    <3>4. ASSUME NEW t, NEW i,
                 pthread' = [pthread EXCEPT !.pc = "down_save", !.id = i,
                               !.entry = MakeIdleVm(rftable[i]), !.todo = @ \ {t}]
          PROVE  pthread'.pc # "configure"
      BY <2>1, <3>4
    <3>. QED
      BY <2>3, <3>1, <3>2, <3>3, <3>4 DEF DownLookup
  <2>4. CASE DpSave \/ MapSave
    BY <2>1, <2>4 DEF DpSave, MapSave
  <2>7. CASE DpAskMap \/ MapSend
    BY <2>0, <2>7 DEF DpAskMap, MapSend
  <2>8. CASE DownReset
    BY <2>1, <2>8 DEF DownReset
  <2>6. CASE DownSave
    BY <2>1, <2>6 DEF DownSave
  <2>5. CASE \E v \in VmPort : VmMaps(v)
    BY <2>5 DEF VmMaps, MapPort, IdleP
  <2>. QED
    BY <2>2, <2>3, <2>4, <2>5, <2>6, <2>7, <2>8 DEF ProxyThreadStep
<1>2. Sent = 0
  BY <1>1 DEF DefaultInv, RoundSafe
<1>3. RoundSafe' /\ Sent' = Sent
  BY <1>0, <1>1, <1>2, RoundKept DEF DefaultInv
<1>. QED
  BY <1>0, <1>1, <1>3, DefaultsKept DEF DefaultInv

LEMMA ReconfigureDefaults ==
  ASSUME DefaultInv, VsPortGone
  PROVE  RoundSafe' /\ DefaultsSafe'
<1>1. /\ pthread.pc = "idle" /\ pthread'.pc = "configure" /\ Sent = 0
      /\ UNCHANGED sending
  BY DEF VsPortGone, ReconfigureDp, IdleP, DefaultInv, RoundSafe
<1>2. RoundSafe' /\ Sent' = 0
  BY <1>1, RoundKept DEF DefaultInv
<1>3. 2..Sent' = {}
  BY <1>2
<1>. QED
  BY <1>1, <1>2, <1>3 DEF DefaultsSafe

LEMMA ProcessDefaults ==
  ASSUME DefaultInv, ProcessRouteMod
  PROVE  RoundSafe' /\ DefaultsSafe'
<1>1. UNCHANGED <<vars, sending, p2s, up>>
  BY DEF ProcessRouteMod
<1>2. UNCHANGED <<pthread, configured, sending, p2s, up>>
  BY <1>1 DEF vars
<1>3. RoundSafe' /\ Sent' = Sent
  BY <1>2 DEF DefaultInv, RoundSafe, Sent
<1>. SUFFICES ASSUME up', ~DownPending'
              PROVE  /\ pthread'.pc = "configure" => \A k \in 2..Sent' : Held(Operations[k])'
                     /\ pthread'.pc # "configure" /\ dp0 \in configured' =>
                          \A op \in Defaults : Held(op)'
  BY <1>3 DEF DefaultsSafe
<1>4. up /\ ~DownPending
  BY <1>2 DEF DownPending
<1>5. \A op \in Defaults : Held(op) => Held(op)'
  BY <1>4, HeldProcessed DEF DefaultInv
<1>6. \A k \in 2..Sent : Operations[k] \in Defaults
  <2>. SUFFICES ASSUME NEW k \in 2..Sent PROVE k \in DOMAIN Operations /\ k # 1
    BY OperationsAre
  <2>. QED
    BY RoundFacts DEF DefaultInv
<1>. QED
  BY <1>2, <1>3, <1>4, <1>5, <1>6 DEF DefaultInv, DefaultsSafe

LEMMA JoinDefaults ==
  ASSUME DefaultInv, Join
  PROVE  DefaultsSafe'
<1>1. ~up /\ UNCHANGED <<pthread, configured>>
  BY DEF Join, vars
<1>2. PICK order \in SetToSeqs(DpPort) :
        p2s' = p2s \o [k \in DOMAIN order |->
                         [type |-> "DatapathPortRegister", port |-> order[k]]]
  BY DEF Join
<1>. DEFINE new == [k \in DOMAIN order |->
                      [type |-> "DatapathPortRegister", port |-> order[k]]]
<1>3. CASE p2s # <<>> /\ p2s[Len(p2s)].type = "DatapathDown"
  <2>1. Cardinality(DpPort) \in Nat
    BY FlowTableAssumption, FS_CardinalityType
  <2>2. DOMAIN order = 1..Cardinality(DpPort) /\ \A k \in DOMAIN order : order[k] \in DpPort
    BY DEF SetToSeqs
  <2>3. new \in Seq(Reports)
    BY <2>1, <2>2 DEF Reports
  <2>. HIDE DEF new
  <2>4. p2s \in Seq(Reports)
    BY DEF DefaultInv, FlowInv, QueuesSafe
  <2>. DEFINE n == Len(p2s)
  <2>5. /\ n \in Nat \ {0} /\ Len(p2s') = n + Len(new) /\ Len(new) \in Nat
        /\ \A i \in 1..n + Len(new) : p2s'[i] = IF i <= n THEN p2s[i] ELSE new[i - n]
    BY <1>2, <1>3, <2>3, <2>4, ConcatProperties DEF new
  <2>6. p2s' \in Seq(Reports)
    BY <1>2, <2>3, <2>4, ConcatProperties DEF new
  <2>7. n \in 1..n + Len(new) /\ DOMAIN p2s' = 1..n + Len(new)
    BY <2>5, <2>6
  <2>8. p2s'[n] = p2s[n]
    BY <2>5, <2>7
  <2>9. DownPending'
    BY <1>3, <2>7, <2>8 DEF DownPending
  <2>. QED
    BY <2>9 DEF DefaultsSafe
<1>4. CASE dp0 \notin configured /\ pthread.pc # "configure"
  BY <1>1, <1>4 DEF DefaultsSafe
<1>. QED
  BY <1>1, <1>3, <1>4 DEF DefaultInv, AwaySafe, Away

-------------------------------------------------------------------------------
(* While the datapath is away. *)

LEMMA AwayRows ==
  ASSUME NEW i
  PROVE  i \in RowsOfDp(dp0) <=> i \in Rows /\ rftable[i].dp # NULL /\ DpOf[rftable[i].dp] = dp0
  BY DEF RowsOfDp

(* Every entry with a datapath port is one of the only datapath. *)
LEMMA OnlyDatapath ==
  ASSUME TypeOK, NEW i \in Rows, rftable[i].dp # NULL
  PROVE  i \in RowsOfDp(dp0)
<1>1. rftable[i].dp \in DpPort
  BY RowType DEF Entry
<1>2. DpOf[rftable[i].dp] = dp0
  BY <1>1, DpOfAssumption, FlowTableAssumption
<1>. QED
  BY <1>2, AwayRows

(* Without entries of the datapath no message of rfproxy finds one. *)
LEMMA NothingToMap ==
  ASSUME FlowInv, RowsOfDp(dp0) = {}
  PROVE  ~VsPortGone /\ \A v \in VmPort : ~VmMaps(v)
<1>1. ~VsPortGone
  BY DEF VsPortGone, ReconfigureDp
<1>2. ASSUME NEW v \in VmPort, NEW i \in RowsOfVm(v),
             IsAssociated(rftable[i]) \/ IsActive(rftable[i])
      PROVE  FALSE
  <2>1. i \in Rows /\ rftable[i].vm = v /\ FollowsConfig(rftable[i])
    BY QueriesFindRows DEF FlowInv, IInv, RowsFollowConfig
  <2>2. rftable[i].dp = NULL
    BY <2>1, OnlyDatapath DEF FlowInv, IInv
  <2>3. v # NULL
    BY NullAssumption
  <2>. QED
    BY <1>2, <2>1, <2>2, <2>3 DEF IsAssociated, IsActive, IsIdleVmPort, FollowsConfig
<1>. QED
  BY <1>1, <1>2 DEF VmMaps, MapPort

(* All listed documents are accounted for when the handler starts.         *)
LEMMA DownStarts ==
  ASSUME SetDpDown(dp0)
  PROVE  pthread'.pc = "down" /\ Accounted(RowsOfDp(dp0), pthread.todo)'
<1>. DEFINE todo == {<<i, rftable[i].dp>> : i \in RowsOfDp(dp0)}
            docs == RowsOfDp(dp0)
            f == [i \in docs |-> <<i, rftable[i].dp>>]
<1>1. pthread'.pc = "down" /\ pthread'.todo = todo /\ UNCHANGED rftable
  BY DEF SetDpDown, IdleP
<1>2. docs' = docs
  BY <1>1 DEF RowsOfDp, Rows
<1>3. f \in [docs -> todo] /\ \A i \in docs : f[i][2] = rftable[i].dp /\ f[i][1] = i
  OBVIOUS
<1>4. \A i, j \in docs : f[i] = f[j] => i = j
  BY <1>3
<1>. HIDE DEF f, todo, docs
<1>5. \E g \in [docs -> todo] :
        /\ \A i \in docs : g[i][2] = rftable'[i].dp
        /\ \A i, j \in docs : g[i] = g[j] => i = j
  BY <1>1, <1>3, <1>4
<1>. QED
  BY <1>1, <1>2, <1>5 DEF Accounted, docs

(* One entry of the list accounts for one document.                        *)
LEMMA DownContinues ==
  ASSUME NEW docs, NEW todo, Accounted(docs, todo), NEW t \in todo
  PROVE  /\ RowsOfDpPort(t[2]) = {} /\ docs \subseteq Rows => Accounted(docs, todo \ {t})
         /\ \A i \in docs : rftable[i].dp = t[2] => Accounted(docs \ {i}, todo \ {t})
<1>1. PICK f \in [docs -> todo] :
        /\ \A i \in docs : f[i][2] = rftable[i].dp
        /\ \A i, j \in docs : f[i] = f[j] => i = j
  BY DEF Accounted
<1>2. ASSUME RowsOfDpPort(t[2]) = {}, docs \subseteq Rows
      PROVE  Accounted(docs, todo \ {t})
  <2>1. \A i \in docs : f[i] # t
    BY <1>1, <1>2 DEF RowsOfDpPort
  <2>2. f \in [docs -> todo \ {t}]
    BY <2>1
  <2>. QED
    BY <1>1, <2>2 DEF Accounted
<1>3. ASSUME NEW i \in docs, rftable[i].dp = t[2]
      PROVE  Accounted(docs \ {i}, todo \ {t})
  <2>. DEFINE g == [j \in docs \ {i} |-> IF f[j] = t THEN f[i] ELSE f[j]]
  <2>1. \A j \in docs \ {i} : g[j] \in todo \ {t} /\ g[j][2] = rftable[j].dp
    BY <1>1, <1>3
  <2>2. \A j, k \in docs \ {i} : g[j] = g[k] => j = k
    BY <1>1
  <2>3. g \in [docs \ {i} -> todo \ {t}]
    BY <2>1
  <2>. HIDE DEF g
  <2>. QED
    BY <2>1, <2>2, <2>3 DEF Accounted
<1>. QED
  BY <1>2, <1>3

LEMMA AccountedKept ==
  ASSUME NEW docs, NEW todo, Accounted(docs, todo), \A i \in docs : rftable'[i] = rftable[i],
         NEW docs1, docs1 = docs, NEW todo1, todo1 = todo
  PROVE  \E f \in [docs1 -> todo1] :
           /\ \A i \in docs1 : f[i][2] = rftable'[i].dp
           /\ \A i, j \in docs1 : f[i] = f[j] => i = j
  BY DEF Accounted

LEMMA AwayReads ==
  ASSUME DefaultInv, AwaySafe, ProxyThreadReads
  PROVE  AwaySafe'
<1>. SUFFICES ASSUME ~up'
              PROVE  (p2s # <<>> /\ p2s[Len(p2s)].type = "DatapathDown")' \/ Away'
  BY DEF AwaySafe, Away
<1>1. /\ ~up /\ p2s # <<>> /\ p2s' = Tail(p2s) /\ p2s \in Seq(Reports)
  BY DEF ProxyThreadReads, DefaultInv, FlowInv, QueuesSafe
<1>2. p2s[Len(p2s)].type = "DatapathDown"
  BY <1>1 DEF AwaySafe, Away
<1>3. CASE Len(p2s) = 1
  <2>1. Head(p2s).type = "DatapathDown" /\ p2s' = <<>>
    BY <1>1, <1>2, <1>3
  <2>2. SetDpDown(dp0)
    BY <2>1 DEF ProxyThreadReads
  <2>3. dp0 \notin configured'
    BY <2>2 DEF SetDpDown
  <2>. QED
    BY <2>1, <2>2, <2>3, DownStarts DEF Away
<1>4. CASE Len(p2s) # 1
  <2>. DEFINE n == Len(p2s)
  <2>1. /\ n \in Nat \ {0, 1} /\ n \in DOMAIN p2s /\ Len(p2s') = n - 1
        /\ DOMAIN p2s' = 1..n - 1
        /\ \A k \in DOMAIN p2s : k # 1 => p2s'[k - 1] = p2s[k]
    BY <1>1, <1>4, TailIs
  <2>2. p2s'[n - 1] = p2s[n]
    BY <2>1
  <2>3. p2s' # <<>> /\ p2s'[Len(p2s')].type = "DatapathDown"
    BY <1>2, <2>1, <2>2
  <2>. QED
    BY <2>3
<1>. QED
  BY <1>3, <1>4

LEMMA AwayLooksUp ==
  ASSUME FlowInv, Away, DownLookup, UNCHANGED p2s
  PROVE  Away'
<1>1. /\ pthread.pc = "down" /\ UNCHANGED <<rftable, configured>>
      /\ Accounted(RowsOfDp(dp0), pthread.todo)
  BY DEF DownLookup, Away
<1>2. RowsOfDp(dp0)' = RowsOfDp(dp0)
  BY <1>1 DEF RowsOfDp, Rows
<1>3. DOMAIN pthread = {"pc", "x", "dp", "id", "entry", "todo"}
  BY DEF FlowInv, IInv, TypeOK, PState
<1>4. CASE pthread.todo = {} /\ pthread' = IdleP
  <2>1. RowsOfDp(dp0) = {}
    BY <1>1, <1>4 DEF Accounted
  <2>. QED
    BY <1>1, <1>2, <1>4, <2>1 DEF Away, IdleP
<1>5. ASSUME NEW t \in pthread.todo, RowsOfDpPort(t[2]) = {},
             pthread' = [pthread EXCEPT !.todo = @ \ {t}]
      PROVE  Away'
  <2>1. pthread'.pc = "down" /\ pthread'.todo = pthread.todo \ {t}
    BY <1>1, <1>3, <1>5
  <2>2. Accounted(RowsOfDp(dp0), pthread.todo \ {t})
    BY <1>1, <1>5, DownContinues, QueriesFindRows
  <2>3. Accounted(RowsOfDp(dp0), pthread.todo)'
    BY <1>1, <1>2, <2>1, <2>2 DEF Accounted
  <2>. QED
    BY <1>1, <2>1, <2>3 DEF Away
<1>6. ASSUME NEW t \in pthread.todo, NEW i \in RowsOfDpPort(t[2]),
             pthread' = [pthread EXCEPT !.pc = "down_save", !.id = i,
                           !.entry = MakeIdleVm(rftable[i]), !.todo = @ \ {t}]
      PROVE  Away'
  <2>1. /\ pthread'.pc = "down_save" /\ pthread'.id = i
        /\ pthread'.entry = MakeIdleVm(rftable[i]) /\ pthread'.todo = pthread.todo \ {t}
    BY <1>3, <1>6
  <2>2. t[2] \in DpPort
    BY DEF FlowInv, IInv, TypeOK, PState
  <2>3. i \in Rows /\ rftable[i].dp = t[2] /\ rftable[i] \in Entry
    BY <1>6, QueriesFindRows, RowType DEF FlowInv, IInv
  <2>4. i \in RowsOfDp(dp0)
    BY <2>2, <2>3, OnlyDatapath, NullAssumption DEF FlowInv, IInv
  <2>5. Accounted(RowsOfDp(dp0) \ {i}, pthread.todo \ {t})
    BY <1>1, <2>3, <2>4, DownContinues
  <2>6. Accounted(RowsOfDp(dp0) \ {pthread.id}, pthread.todo)'
    BY <1>1, <1>2, <2>1, <2>5 DEF Accounted
  <2>7. pthread'.entry.dp = NULL
    BY <2>1, <2>3, MakeIdleCopy
  <2>. QED
    BY <1>1, <2>1, <2>6, <2>7 DEF Away
<1>. QED
  BY <1>4, <1>5, <1>6 DEF DownLookup

LEMMA AwaySaves ==
  ASSUME FlowInv, Away, DownSave, UNCHANGED p2s
  PROVE  Away'
<1>. DEFINE id == pthread.id
            docs == RowsOfDp(dp0) \ {id}
<1>1. /\ pthread.pc = "down_save" /\ pthread.entry.dp = NULL
      /\ Accounted(docs, pthread.todo)
      /\ rftable' = [rftable EXCEPT ![id] = pthread.entry] /\ UNCHANGED configured
  BY DEF DownSave, Save, Away
<1>2. /\ DOMAIN pthread = {"pc", "x", "dp", "id", "entry", "todo"}
      /\ DOMAIN rftable = Doc
  BY DEF FlowInv, IInv, TypeOK, PState
<1>3. pthread'.pc \in {"down", "down_reset"} /\ pthread'.todo = pthread.todo
  BY <1>2 DEF DownSave
<1>4. \A i \in Doc : rftable'[i] = IF i = id THEN pthread.entry ELSE rftable[i]
  BY <1>1, <1>2
<1>5. RowsOfDp(dp0)' = docs
  BY <1>1, <1>4 DEF RowsOfDp, Rows
<1>6. \A i \in docs : rftable'[i] = rftable[i]
  BY <1>4 DEF RowsOfDp, Rows
<1>. HIDE DEF docs
<1>7. Accounted(RowsOfDp(dp0), pthread.todo)'
  BY <1>1, <1>3, <1>5, <1>6, AccountedKept DEF Accounted
<1>. QED
  BY <1>1, <1>3, <1>7 DEF Away

LEMMA AwayKept ==
  ASSUME Away, UNCHANGED <<p2s, rftable, pthread, configured>>
  PROVE  Away'
<1>1. RowsOfDp(dp0)' = RowsOfDp(dp0)
  BY DEF RowsOfDp, Rows
<1>2. /\ Accounted(RowsOfDp(dp0), pthread.todo) => Accounted(RowsOfDp(dp0), pthread.todo)'
      /\ Accounted(RowsOfDp(dp0) \ {pthread.id}, pthread.todo)
           => Accounted(RowsOfDp(dp0) \ {pthread.id}, pthread.todo)'
  BY <1>1 DEF Accounted
<1>. QED
  BY <1>1, <1>2 DEF Away

LEMMA AwaySteps ==
  ASSUME FlowInv, Away, ProxyThreadStep
  PROVE  Away'
<1>1. UNCHANGED p2s
  BY DEF ProxyThreadStep
<1>2. pthread.pc \in {"idle", "down", "down_save", "down_reset"}
  BY DEF Away
<1>3. ~(DpLookupVm \/ DpSave \/ DpAskMap \/ MapSave \/ MapSend)
  BY <1>2 DEF DpLookupVm, DpSave, DpAskMap, MapSave, MapSend
<1>4. CASE DownReset
  <2>1. /\ pthread.pc = "down_reset" /\ UNCHANGED <<rftable, configured>>
        /\ pthread'.pc = "down" /\ pthread'.todo = pthread.todo
    BY <1>4 DEF DownReset, FlowInv, IInv, TypeOK, PState
  <2>2. RowsOfDp(dp0)' = RowsOfDp(dp0)
    BY <2>1 DEF RowsOfDp, Rows
  <2>3. Accounted(RowsOfDp(dp0), pthread.todo)'
    BY <2>1, <2>2 DEF Away, Accounted
  <2>. QED
    BY <1>1, <2>1, <2>3 DEF Away
<1>. QED
  BY <1>1, <1>3, <1>4, AwayLooksUp, AwaySaves DEF ProxyThreadStep

LEMMA AwayNext ==
  ASSUME DefaultInv, FlowNext
  PROVE  AwaySafe'
<1>. SUFFICES ASSUME ~up'
              PROVE  (p2s # <<>> /\ p2s[Len(p2s)].type = "DatapathDown")' \/ Away'
  BY DEF AwaySafe, Away
<1>. DEFINE Told == p2s # <<>> /\ p2s[Len(p2s)].type = "DatapathDown"
<1>1. CASE Leave
  <2>. DEFINE m == [type |-> "DatapathDown", port |-> NULL]
  <2>1. p2s' = Append(p2s, m) /\ p2s \in Seq(Reports) /\ m.type = "DatapathDown"
    BY <1>1 DEF Leave, DefaultInv, FlowInv, QueuesSafe
  <2>. HIDE DEF m
  <2>2. p2s' # <<>> /\ p2s'[Len(p2s')] = m
    <3>1. /\ Len(p2s') = Len(p2s) + 1 /\ Len(p2s) \in Nat
          /\ p2s'[Len(p2s) + 1] = m
      BY <2>1, AppendIs
    <3>. QED
      BY <3>1
  <2>. QED
    BY <2>1, <2>2
<1>2. CASE Join
  BY <1>2 DEF Join
<1>3. CASE ProxyThreadReads
  BY <1>3, AwayReads DEF DefaultInv, AwaySafe, Away
<1>4. ASSUME ~Leave, ~Join, ~ProxyThreadReads
      PROVE  Told' \/ Away'
  <2>1. UNCHANGED <<up, p2s>>
    BY <1>4 DEF FlowNext, RegisterRouteMod, ListInPorts, SendRouteMod, SendConfig,
                ProxyThreadStep, VmMaps, VsPortGone, ProcessRouteMod
  <2>2. Told \/ Away
    BY <2>1 DEF DefaultInv, AwaySafe, Away
  <2>3. CASE Told
    BY <2>1, <2>3
  <2>4. CASE Away
    <3>1. CASE UNCHANGED vars
      BY <2>1, <2>4, <3>1, AwayKept DEF vars
    <3>2. CASE ProxyThreadStep
      BY <2>4, <3>2, AwaySteps DEF DefaultInv
    <3>3. CASE SendConfig
      BY <2>4, <3>3 DEF Away, SendConfig
    <3>4. CASE VsPortGone \/ \E v \in VmPort : VmMaps(v)
      <4>1. pthread.pc = "idle"
        BY <3>4 DEF VsPortGone, ReconfigureDp, VmMaps, MapPort
      <4>2. RowsOfDp(dp0) = {}
        BY <2>4, <4>1 DEF Away
      <4>. QED
        BY <3>4, <4>2, NothingToMap DEF DefaultInv
    <3>. QED
      BY <1>4, <3>1, <3>2, <3>3, <3>4
      DEF FlowNext, RegisterRouteMod, ListInPorts, SendRouteMod, ProcessRouteMod
  <2>. QED
    BY <2>2, <2>3, <2>4
<1>. QED
  BY <1>1, <1>2, <1>3, <1>4

LEMMA DefaultsInit == FlowInit => DefaultInv
<1>. SUFFICES ASSUME FlowInit PROVE DefaultInv
  OBVIOUS
<1>1. FlowInv
  BY FlowInitInv
<1>2. /\ pthread = IdleP /\ sending = Operations /\ configured = {} /\ p2s = <<>>
      /\ ~up /\ rftable \in [Doc -> {IdleVm(v) : v \in VmPort}]
  BY DEF FlowInit
<1>3. Len(Operations) \in Nat
  BY OperationsSequence
<1>4. RoundSafe
  <2>1. Sent = 0 /\ DOMAIN Operations = 1..Len(Operations)
    BY <1>2, <1>3, OperationsSequence DEF Sent
  <2>. QED
    BY <1>2, <2>1 DEF RoundSafe
<1>5. DefaultsSafe
  BY <1>2 DEF DefaultsSafe
<1>6. AwaySafe
  <2>1. RowsOfDp(dp0) = {}
    BY <1>2 DEF RowsOfDp, Rows, IdleVm
  <2>. QED
    BY <1>2, <2>1 DEF AwaySafe, Away, IdleP
<1>. QED
  BY <1>1, <1>4, <1>5, <1>6 DEF DefaultInv

LEMMA DefaultsNext ==
  ASSUME DefaultInv, [FlowNext]_ftvars
  PROVE  DefaultInv'
<1>1. FlowInv'
  BY FlowNextInv DEF DefaultInv
<1>2. CASE UNCHANGED ftvars
  <2>1. UNCHANGED <<rftable, pthread, configured, sending, p2s, s2p, up, flows>>
    BY <1>2 DEF ftvars, vars
  <2>2. RoundSafe' /\ Sent' = Sent
    BY <2>1 DEF DefaultInv, RoundSafe, Sent
  <2>3. DefaultsSafe'
    BY <2>1, <2>2, DefaultsKept DEF DefaultInv
  <2>4. AwaySafe'
    BY <2>1, AwayKept DEF DefaultInv, AwaySafe, Away
  <2>. QED
    BY <1>1, <2>2, <2>3, <2>4 DEF DefaultInv
<1>3. CASE FlowNext
  <2>1. AwaySafe'
    BY <1>3, AwayNext
  <2>2. RoundSafe' /\ DefaultsSafe'
    <3>1. ASSUME UNCHANGED <<vars, sending>> PROVE RoundSafe' /\ Sent' = Sent
      BY <3>1 DEF DefaultInv, RoundSafe, Sent, vars
    <3>2. CASE (\E mod \in {"ADD", "DELETE"}, r \in Route : RegisterRouteMod(mod, r)) \/ ListInPorts
      <4>1. UNCHANGED <<vars, sending, p2s, s2p, up, flows>>
        BY <3>2 DEF RegisterRouteMod, ListInPorts
      <4>. QED
        BY <3>1, <4>1, DefaultsKept DEF DefaultInv, vars
    <3>3. CASE SendRouteMod
      <4>1. UNCHANGED <<vars, sending, p2s, up, flows>>
        BY <3>3 DEF SendRouteMod
      <4>2. PICK m : FromRoute(m) /\ s2p' = Append(s2p, m)
        BY <3>3, SendRouteModSafe DEF DefaultInv
      <4>. QED
        BY <3>1, <4>1, <4>2, ClearIs, AppendDefaults DEF vars
    <3>4. CASE SendConfig
      BY <3>4, SendConfigRound, SendConfigDefaults DEF DefaultInv
    <3>5. CASE Join
      <4>1. UNCHANGED <<vars, sending>>
        BY <3>5 DEF Join
      <4>. QED
        BY <3>1, <3>5, <4>1, JoinDefaults
    <3>6. CASE Leave
      <4>1. UNCHANGED <<vars, sending>> /\ ~up'
        BY <3>6 DEF Leave
      <4>. QED
        BY <3>1, <4>1 DEF DefaultsSafe
    <3>. QED
      BY <1>3, <3>2, <3>3, <3>4, <3>5, <3>6, ReadDefaults, StepDefaults,
         ReconfigureDefaults, ProcessDefaults DEF FlowNext
  <2>. QED
    BY <1>1, <2>1, <2>2 DEF DefaultInv
<1>. QED
  BY <1>2, <1>3

(* When nothing is left to be done a configured datapath has all of its    *)
(* default flows, however often it left, was configured again or had       *)
(* routes announced and withdrawn (config_dp, send_datapath_config_message,*)
(* create_flow_mod).                                                       *)
THEOREM DefaultsStay == FlowSpec => []DefaultsInstalled
<1>1. DefaultInv => DefaultsInstalled
  <2>. SUFFICES ASSUME DefaultInv, Settled, up, dp0 \in configured
                PROVE  DefaultFlows \subseteq flows
    BY DEF DefaultsInstalled
  <2>1. p2s = <<>> /\ s2p = <<>> /\ pthread.pc = "idle"
    BY DEF Settled, Quiet
  <2>2. ~DownPending
    BY <2>1 DEF DownPending
  <2>3. \A op \in Defaults : Held(op)
    BY <2>1, <2>2 DEF DefaultInv, DefaultsSafe
  <2>4. \A op \in Defaults : DefaultFlow(op) \in flows
    BY <2>1, <2>3 DEF Held
  <2>. QED
    BY <2>4 DEF DefaultFlows, Defaults, DefaultFlow
<1>2. DefaultInv /\ [FlowNext]_ftvars => DefaultInv'
  BY DefaultsNext
<1>. QED
  BY DefaultsInit, <1>1, <1>2, PTL DEF FlowSpec

-------------------------------------------------------------------------------
(* Which routes' flows the datapath holds, when routes are announced once  *)
(* all ports are mapped.                                                   *)

(* No route leads to a destination of another.                             *)
DisjointRoutes ==
    \A q, r \in Route : q # r => /\ q.match.value # r.match.value
                                 /\ <<q.match.value, r.match.value>> \notin Covers

(* rfproxy can convert the messages of every route.                        *)
ConvertibleRoutes ==
    \A mod \in {"ADD", "DELETE"}, r \in Route, p \in InAndOut :
        FM!CreateFlowMod(MessageFor(mod, r, p[1], p[2])) # NULL

(* What the theorems below need of the constants; every VM port has one    *)
(* document.                                                               *)
OrderlyRoutes ==
    /\ RoutesLast /\ DisjointRoutes /\ ConvertibleRoutes
    /\ \A c, e \in Config : c[1] = e[1] <=> c[2] = e[2]
    /\ IsFiniteSet(Doc) /\ IsFiniteSet(VmPort) /\ Cardinality(Doc) = Cardinality(VmPort)

Registered ==
    /\ \A i \in Doc : rftable[i] # NULL /\ rftable[i].vm \in VmPort
    /\ \A i, j \in Doc : rftable[i].vm = rftable[j].vm => i = j
    /\ \A v \in VmPort : RowsOfVm(v) # {}
    /\ pthread.pc = "down_save" => pthread.entry.vm # NULL

(* What the newest RouteMod of a route was.                                *)
Wanted(r) == IF r \in announced THEN "ADD" ELSE "DELETE"

IsFor(f, r, v) == FlowOf(f, r) /\ f.match.eth_dst = v

(* The flow of r from v is there if and only if r is announced.            *)
Right(r, v) == r \in announced <=> \E f \in flows : IsFor(f, r, v)

MessageOf(m, r, in, out) ==
    in[2] # out[2] /\ out[1] = r.vm /\ m = MessageFor(Wanted(r), r, in, out)

Handles(r) ==
    \E out \in Config : /\ out[1] = r.vm /\ rthread.out = out[2]
                        /\ rthread.rm = Translate(RouteMod(Wanted(r), r), out[2])

(* A message that puts it right is on its way or about to be sent.         *)
Coming(r, v) ==
    \/ rthread.pc = "list" /\ Handles(r)
    \/ rthread.pc = "send" /\ Handles(r) /\ \E e \in rthread.todo : e.vm = v
    \/ \E m \in ToSet(s2p), in, out \in Config : in[1] = v /\ MessageOf(m, r, in, out)

(* Before the first route there are only default flows.                    *)
Before ==
    /\ announced = {} /\ rthread.pc = "idle"
    /\ \A m \in ToSet(s2p) : FromConfig(m)
    /\ flows \subseteq DefaultFlows

(* From the first route on the table stays mapped, and only routes come.   *)
Mapped ==
    /\ up /\ p2s = <<>> /\ pthread.pc \in {"idle", "map_save", "map_send"}
    /\ \A i \in Doc : IsActive(rftable[i])
    /\ \A r \in announced : r \in Route /\ r.vm # NULL
    /\ rthread.pc \in {"list", "send"} => \E r \in Route : Handles(r)
    /\ \A m \in ToSet(s2p) : \E r \in Route, in, out \in Config : MessageOf(m, r, in, out)

RoutesRight ==
    \A r \in Route, v \in VmPort : r.vm # NULL /\ v # r.vm => Right(r, v) \/ Coming(r, v)

RoutesInv == FlowInv /\ Registered /\ (Before \/ (Mapped /\ RoutesRight))

-------------------------------------------------------------------------------
(* What applying a route's message does to the flows of the routes.        *)

LEMMA FlowOfFields ==
  ASSUME NEW f, NEW r, NEW v, IsFor(f, r, v)
  PROVE  \E in \in Config : in[1] = v /\ f.match = MatchOf(r, in)
<1>1. PICK in, out \in Config :
        /\ f.match = MatchOf(r, in) /\ f.match.eth_dst = v
  BY Zenon DEF IsFor, FlowOf, MatchOf
<1>2. f.match.eth_dst = in[1]
  BY <1>1, MatchOfFields DEF Fields
<1>. QED
  BY <1>1, <1>2

LEMMA DifferentMatch ==
  ASSUME NEW q, NEW r, NEW in, NEW at, q.match.value # r.match.value \/ in[1] # at[1]
  PROVE  MatchOf(q, in) # MatchOf(r, at)
<1>1. /\ MatchOf(q, in).ipv4_dst = q.match.value /\ MatchOf(q, in).eth_dst = in[1]
      /\ MatchOf(r, at).ipv4_dst = r.match.value /\ MatchOf(r, at).eth_dst = at[1]
  BY MatchOfFields DEF Fields
<1>. QED
  BY <1>1

(* A DELETE removes what has its match and nothing of another route or for *)
(* another MAC address.                                                    *)
LEMMA WhatItCovers ==
  ASSUME OrderlyRoutes, NEW q \in Route, NEW r \in Route, NEW in \in Config, NEW at \in Config
  PROVE  /\ Within(MatchOf(q, in), MatchOf(q, in))
         /\ q # r \/ in[1] # at[1] => ~Within(MatchOf(q, in), MatchOf(r, at))
<1>. DEFINE m == MatchOf(q, in)
            f == MatchOf(r, at)
<1>1. Within(m, m)
  BY DEF Within
<1>2. /\ "ipv4_dst" \in DOMAIN m /\ m["ipv4_dst"] = q.match.value /\ f["ipv4_dst"] = r.match.value
      /\ "eth_dst" \in DOMAIN m /\ m["eth_dst"] = in[1] /\ f["eth_dst"] = at[1]
  BY MatchOfFields DEF Fields
<1>3. in[1] # NULL /\ q.match.value # NULL
  BY ConfigPair, NullAssumption, FlowTableAssumption
<1>. HIDE DEF m, f
<1>4. ASSUME q # r PROVE ~Within(m, f)
  <2>1. q.match.value # r.match.value /\ <<q.match.value, r.match.value>> \notin Covers
    BY <1>4 DEF OrderlyRoutes, DisjointRoutes
  <2>. QED
    BY <1>2, <1>3, <2>1 DEF Within
<1>5. ASSUME in[1] # at[1] PROVE ~Within(m, f)
  BY <1>2, <1>3, <1>5 DEF Within
<1>. QED
  BY <1>1, <1>4, <1>5 DEF m, f

(* Applying the newest message of q from in puts that flow right and       *)
(* leaves the others as they are.                                          *)
LEMMA Applying ==
  ASSUME OrderlyRoutes, NEW q \in Route, NEW in \in Config, NEW out \in Config,
         NEW m, MessageOf(m, q, in, out), NEW fm, fm = FM!CreateFlowMod(m), fm # NULL,
         flows' = Applied(fm), UNCHANGED announced
  PROVE  \A r \in Route, v \in VmPort :
           Right(r, v) \/ (r = q /\ v = in[1]) => Right(r, v)'
<1>1. /\ fm.command = Wanted(q) /\ fm.match = MatchOf(q, in)
      /\ Wanted(q) # "DELETE" => fm.actions = <<FM!Tlv("OUTPUT", out[2])>>
  <2>1. PICK mod : mod = Wanted(q) /\ m = MessageFor(mod, q, in, out)
    BY DEF MessageOf
  <2>2. /\ fm.command = mod /\ fm.match = MatchOf(q, in)
        /\ mod # "DELETE" => fm.actions = <<FM!Tlv("OUTPUT", out[2])>>
    BY <2>1, RouteFlowIs
  <2>. QED
    BY <2>1, <2>2
<1>2. in[2] # out[2] /\ out[1] = q.vm
  BY DEF MessageOf
<1>3. fm.match.eth_dst = in[1]
  BY <1>1, MatchOfFields DEF Fields
<1>4. ASSUME NEW r \in Route, NEW v \in VmPort, r # q \/ v # in[1], NEW f, IsFor(f, r, v)
      PROVE  f.match # fm.match /\ ~Within(fm.match, f.match)
  <2>1. PICK at \in Config : at[1] = v /\ f.match = MatchOf(r, at)
    BY <1>4, FlowOfFields
  <2>2. q # r => q.match.value # r.match.value
    BY DEF OrderlyRoutes, DisjointRoutes
  <2>. QED
    BY <1>1, <1>4, <2>1, <2>2, DifferentMatch, WhatItCovers
<1>5. CASE q \in announced
  <2>1. Wanted(q) = "ADD"
    BY <1>5 DEF Wanted
  <2>2. flows' = {f \in flows : f.match # fm.match \/ f.priority # fm.priority} \cup {fm}
    BY <1>1, <2>1 DEF Applied
  <2>3. IsFor(fm, q, in[1])
    <3>1. in # out
      BY <1>2
    <3>. QED
      BY <1>1, <1>2, <1>3, <2>1, <3>1, Zenon DEF IsFor, FlowOf, MatchOf
  <2>4. ASSUME NEW r \in Route, NEW v \in VmPort, r # q \/ v # in[1], Right(r, v)
        PROVE  Right(r, v)'
    <3>1. (\E f \in flows : IsFor(f, r, v)) <=> (\E f \in flows' : IsFor(f, r, v))
      BY <1>4, <2>2, <2>4
    <3>. QED
      BY <2>4, <3>1 DEF Right, IsFor, FlowOf
  <2>5. Right(q, in[1])'
    BY <1>5, <2>2, <2>3 DEF Right, IsFor, FlowOf
  <2>. QED
    BY <2>4, <2>5
<1>6. CASE q \notin announced
  <2>1. flows' = {f \in flows : ~Within(fm.match, f.match)}
    BY <1>1, <1>6 DEF Wanted, Applied
  <2>2. ASSUME NEW f, IsFor(f, q, in[1]) PROVE Within(fm.match, f.match)
    <3>1. PICK at \in Config : at[1] = in[1] /\ f.match = MatchOf(q, at)
      BY <2>2, FlowOfFields
    <3>2. at[2] = in[2]
      BY <3>1 DEF OrderlyRoutes
    <3>3. f.match = fm.match
      BY <1>1, <3>1, <3>2, MatchOfFields
    <3>. QED
      BY <1>1, <3>3, WhatItCovers
  <2>3. ASSUME NEW r \in Route, NEW v \in VmPort, r # q \/ v # in[1], Right(r, v)
        PROVE  Right(r, v)'
    <3>1. (\E f \in flows : IsFor(f, r, v)) <=> (\E f \in flows' : IsFor(f, r, v))
      BY <1>4, <2>1, <2>3
    <3>. QED
      BY <2>3, <3>1 DEF Right, IsFor, FlowOf
  <2>4. Right(q, in[1])'
    BY <1>6, <2>1, <2>2 DEF Right, IsFor, FlowOf
  <2>. QED
    BY <2>3, <2>4
<1>. QED
  BY <1>5, <1>6

-------------------------------------------------------------------------------
(* The first route, and the routes after it. *)

(* A default flow is none of a route, nor does a message of config_dp add  *)
(* one.                                                                    *)
LEMMA DefaultsAreNoRoutes ==
  ASSUME NEW f \in DefaultFlows, NEW r, NEW v \in VmPort
  PROVE  ~IsFor(f, r, v)
<1>1. PICK op \in Defaults : f = DefaultFlow(op)
  BY DEF DefaultFlows, Defaults, DefaultFlow
<1>2. f.match.eth_dst = NULL
  BY <1>1, DefaultFlowIs
<1>. QED
  BY <1>2, NullAssumption DEF IsFor

LEMMA BeforeRight ==
  ASSUME Before, NEW r, NEW v \in VmPort
  PROVE  Right(r, v)
  BY DefaultsAreNoRoutes DEF Before, Right

(* The document of a VM port is its only one. *)
LEMMA AllDocumentsActive ==
  ASSUME Registered, \A v \in VmPort : Active(v)
  PROVE  \A i \in Doc : IsActive(rftable[i])
<1>. TAKE i \in Doc
<1>1. rftable[i].vm \in VmPort
  BY DEF Registered
<1>2. PICK j \in RowsOfVm(rftable[i].vm) : IsActive(rftable[j])
  BY <1>1 DEF Active
<1>3. j \in Doc /\ rftable[j].vm = rftable[i].vm
  BY DEF RowsOfVm, Rows
<1>4. j = i
  BY <1>3 DEF Registered
<1>. QED
  BY <1>2, <1>4

LEMMA EveryoneActive ==
  ASSUME Registered, \A i \in Doc : IsActive(rftable[i])
  PROVE  \A v \in VmPort : Active(v)
  BY DEF Registered, Active, RowsOfVm, Rows

(* A new route finds everything settled, and every flow right.             *)
LEMMA AllRight ==
  ASSUME RoutesInv, Settled, NEW r \in Route, NEW v \in VmPort, r.vm # NULL, v # r.vm
  PROVE  Right(r, v)
<1>1. rthread.pc = "idle" /\ s2p = <<>>
  BY DEF Settled
<1>2. ~Coming(r, v)
  BY <1>1 DEF Coming, ToSet
<1>. QED
  BY <1>2, BeforeRight DEF RoutesInv, RoutesRight

LEMMA MappedWhenAllMapped ==
  ASSUME RoutesInv, AllMapped
  PROVE  Mapped
<1>1. /\ up /\ p2s = <<>> /\ s2p = <<>> /\ rthread.pc = "idle" /\ pthread.pc = "idle"
      /\ \A v \in VmPort : Active(v)
  BY DEF AllMapped, Settled, Quiet
<1>2. \A i \in Doc : IsActive(rftable[i])
  BY <1>1, AllDocumentsActive DEF RoutesInv
<1>3. \A r \in announced : r \in Route /\ r.vm # NULL
  BY DEF RoutesInv, Before, Mapped
<1>. QED
  BY <1>1, <1>2, <1>3 DEF Mapped, ToSet

LEMMA RegisterRoutes ==
  ASSUME OrderlyRoutes, RoutesInv, NEW mod \in {"ADD", "DELETE"}, NEW r \in Route,
         RegisterRouteMod(mod, r)
  PROVE  Mapped' /\ RoutesRight'
<1>1. AllMapped /\ Settled
  BY DEF RegisterRouteMod, OrderlyRoutes, AllMapped
<1>2. Mapped
  BY <1>1, MappedWhenAllMapped
<1>3. UNCHANGED <<rftable, pthread, up, p2s, s2p, flows>> /\ s2p = <<>> /\ rthread.pc = "idle"
  BY <1>1 DEF RegisterRouteMod, vars, Settled
<1>4. announced' = {x \in IF mod = "ADD" THEN announced \cup {r} ELSE announced \ {r} :
                       x.vm # NULL}
  BY DEF RegisterRouteMod
<1>5. ASSUME NEW q \in Route, NEW v \in VmPort, q.vm # NULL, v # q.vm, q # r \/ r.vm = NULL
      PROVE  Right(q, v)'
  <2>1. Right(q, v)
    BY <1>1, <1>5, AllRight
  <2>2. q \in announced' <=> q \in announced
    BY <1>4, <1>5
  <2>. QED
    BY <1>3, <2>1, <2>2 DEF Right, IsFor, FlowOf
<1>6. CASE r.vm = NULL
  <2>1. UNCHANGED rthread
    BY <1>6 DEF RegisterRouteMod
  <2>2. announced' = announced
    BY <1>2, <1>4, <1>6 DEF Mapped
  <2>3. Mapped'
    BY <1>2, <1>3, <2>1, <2>2 DEF Mapped, ToSet
  <2>. QED
    BY <1>5, <1>6, <2>3 DEF RoutesRight
<1>7. CASE r.vm # NULL
  <2>1. r.vm \in VmPort
    BY <1>7, FlowTableAssumption
  <2>2. RowsOfVm(r.vm) # {}
    BY <2>1 DEF RoutesInv, Registered
  <2>3. PICK i \in RowsOfVm(r.vm) :
          rthread' = IF IsIdleVmPort(rftable[i]) THEN IdleR
                     ELSE [IdleR EXCEPT !.pc = "list", !.out = rftable[i].dp,
                             !.rm = Translate(RouteMod(mod, r), rftable[i].dp)]
    BY <1>7, <2>2 DEF RegisterRouteMod
  <2>4. i \in Rows /\ i \in Doc /\ rftable[i].vm = r.vm
    BY DEF RowsOfVm, Rows
  <2>5. IsActive(rftable[i]) /\ FollowsConfig(rftable[i])
    BY <1>2, <2>4 DEF Mapped, RoutesInv, FlowInv, IInv, RowsFollowConfig
  <2>. DEFINE out == <<r.vm, rftable[i].dp>>
  <2>6. out \in Config /\ out[1] = r.vm /\ out[2] = rftable[i].dp
    BY <2>4, <2>5 DEF IsActive, FollowsConfig
  <2>7. /\ rthread'.pc = "list" /\ rthread'.out = rftable[i].dp
        /\ rthread'.rm = Translate(RouteMod(mod, r), rftable[i].dp)
    BY <2>3, <2>5 DEF IsActive, IdleR
  <2>8. Wanted(r)' = mod
    BY <1>4, <1>7 DEF Wanted
  <2>9. Handles(r)'
    <3>. HIDE DEF out
    <3>. QED
      BY <2>6, <2>7, <2>8 DEF Handles
  <2>10. Mapped'
    BY <1>2, <1>3, <1>4, <2>7, <2>9 DEF Mapped, ToSet
  <2>11. \A v \in VmPort : Coming(r, v)'
    BY <2>7, <2>9 DEF Coming
  <2>. QED
    BY <1>5, <2>10, <2>11 DEF RoutesRight
<1>. QED
  BY <1>6, <1>7
(* The handler keeps the route it handles. *)
LEMMA SameHandles ==
  ASSUME UNCHANGED announced, rthread'.rm = rthread.rm, rthread'.out = rthread.out
  PROVE  \A r : Handles(r) => Handles(r)'
  BY DEF Handles, Wanted

LEMMA ListsAllPorts ==
  ASSUME OrderlyRoutes, RoutesInv, Mapped, RoutesRight, ListInPorts
  PROVE  Mapped' /\ RoutesRight'
<1>1. /\ rthread.pc = "list" /\ DOMAIN rthread = {"pc", "rm", "out", "todo"}
      /\ UNCHANGED <<rftable, pthread, announced, p2s, s2p, up, flows>>
  BY DEF ListInPorts, vars, RoutesInv, FlowInv, RouteSafe
<1>. DEFINE ins == {i \in RowsOfDp(DpOf[rthread.out]) :
                      rftable[i].dp # rthread.out /\ IsActive(rftable[i])}
<1>2. /\ ins = {} => rthread' = IdleR
      /\ ins # {} => /\ rthread'.pc = "send" /\ rthread'.rm = rthread.rm
                     /\ rthread'.out = rthread.out
                     /\ rthread'.todo = {rftable[i] : i \in ins}
  BY <1>1 DEF ListInPorts
<1>3. ASSUME NEW r \in Route, NEW v \in VmPort, v # r.vm, Handles(r)
      PROVE  \E i \in ins : rftable[i].vm = v
  <2>1. PICK out \in Config : out[1] = r.vm /\ rthread.out = out[2]
    BY <1>3 DEF Handles
  <2>2. PICK i \in RowsOfVm(v) : TRUE
    BY DEF RoutesInv, Registered
  <2>3. i \in Rows /\ i \in Doc /\ rftable[i].vm = v
    BY DEF RowsOfVm, Rows
  <2>4. IsActive(rftable[i]) /\ FollowsConfig(rftable[i])
    BY <2>3 DEF Mapped, RoutesInv, FlowInv, IInv, RowsFollowConfig
  <2>5. <<v, rftable[i].dp>> \in Config /\ rftable[i].dp # NULL
    BY <2>3, <2>4, NullAssumption DEF IsActive, FollowsConfig
  <2>6. rftable[i].dp # out[2]
    <3>. DEFINE c == <<v, rftable[i].dp>>
    <3>1. c \in Config /\ c[1] = v /\ c[2] = rftable[i].dp
      BY <2>5
    <3>. HIDE DEF c
    <3>. QED
      BY <1>3, <2>1, <3>1 DEF OrderlyRoutes
  <2>7. DpOf[rthread.out] = dp0
    BY <2>1, ConfigPair, DpOfAssumption, FlowTableAssumption
  <2>8. i \in RowsOfDp(dp0)
    BY <2>3, <2>5, OnlyDatapath DEF RoutesInv, FlowInv, IInv
  <2>. QED
    BY <2>1, <2>3, <2>4, <2>6, <2>7, <2>8
<1>. HIDE DEF ins
<1>4. Mapped'
  <2>1. rthread'.pc \in {"list", "send"} => \E r \in Route : Handles(r)'
    BY <1>1, <1>2, SameHandles DEF Mapped, IdleR
  <2>2. \A m \in ToSet(s2p') : \E r \in Route, in, out \in Config : MessageOf(m, r, in, out)'
    BY <1>1 DEF Mapped, MessageOf, Wanted
  <2>. QED
    BY <1>1, <2>1, <2>2 DEF Mapped
<1>5. RoutesRight'
  <2>. SUFFICES ASSUME NEW r \in Route, NEW v \in VmPort, r.vm # NULL, v # r.vm
                PROVE  Right(r, v)' \/ Coming(r, v)'
    BY DEF RoutesRight
  <2>1. CASE Right(r, v)
    BY <1>1, <2>1 DEF Right, IsFor, FlowOf
  <2>2. CASE Handles(r)
    <3>1. PICK i \in ins : rftable[i].vm = v
      BY <1>3, <2>2
    <3>2. rthread'.pc = "send" /\ Handles(r)' /\ rftable[i] \in rthread'.todo
      BY <1>1, <1>2, <2>2, <3>1, SameHandles
    <3>. QED
      BY <3>1, <3>2 DEF Coming
  <2>3. CASE \E m \in ToSet(s2p), in, out \in Config : in[1] = v /\ MessageOf(m, r, in, out)
    BY <1>1, <2>3 DEF Coming, MessageOf, Wanted
  <2>. QED
    BY <1>1, <2>1, <2>2, <2>3 DEF RoutesRight, Coming
<1>. QED
  BY <1>4, <1>5

LEMMA SendsEachPort ==
  ASSUME OrderlyRoutes, RoutesInv, Mapped, RoutesRight, SendRouteMod
  PROVE  Mapped' /\ RoutesRight'
<1>1. /\ rthread.pc = "send" /\ DOMAIN rthread = {"pc", "rm", "out", "todo"}
      /\ UNCHANGED <<rftable, pthread, announced, p2s, up, flows>>
  BY DEF SendRouteMod, vars, RoutesInv, FlowInv, RouteSafe
<1>2. PICK e \in rthread.todo :
        /\ s2p' = Append(s2p, [rthread.rm EXCEPT !.matches =
                     @ \o <<FM!Tlv("ETHERNET", e.vm), FM!Tlv("IN_PORT", e.dp)>>])
        /\ rthread' = IF rthread.todo = {e} THEN IdleR
                                            ELSE [rthread EXCEPT !.todo = @ \ {e}]
  BY DEF SendRouteMod
<1>. PICK m : m = [rthread.rm EXCEPT !.matches =
                     @ \o <<FM!Tlv("ETHERNET", e.vm), FM!Tlv("IN_PORT", e.dp)>>]
  OBVIOUS
<1>. DEFINE from == <<e.vm, e.dp>>
<1>3. from \in Config /\ from[1] = e.vm /\ from[2] = e.dp /\ e.dp # rthread.out
  BY <1>1, <1>2 DEF RoutesInv, FlowInv, RouteSafe
<1>4. ASSUME NEW r, Handles(r)
      PROVE  \E out \in Config : MessageOf(m, r, from, out)
  <2>1. PICK out \in Config : /\ out[1] = r.vm /\ rthread.out = out[2]
                              /\ rthread.rm = Translate(RouteMod(Wanted(r), r), out[2])
    BY <1>4 DEF Handles
  <2>2. m = MessageFor(Wanted(r), r, from, out)
    BY <2>1 DEF MessageFor
  <2>. QED
    BY <1>3, <2>1, <2>2 DEF MessageOf
<1>. HIDE DEF from
<1>5. s2p' = Append(s2p, m)
  BY <1>2
<1>6. \A x : x \in ToSet(s2p') <=> x \in ToSet(s2p) \/ x = m
  <2>1. /\ s2p \in Seq(ToSet(s2p)) /\ Len(s2p) \in Nat /\ Len(s2p') = Len(s2p) + 1
        /\ DOMAIN s2p = 1..Len(s2p) /\ DOMAIN s2p' = 1..Len(s2p) + 1
        /\ s2p'[Len(s2p) + 1] = m /\ \A k \in DOMAIN s2p : s2p'[k] = s2p[k]
    BY <1>5, AppendIs DEF RoutesInv, FlowInv, QueuesSafe
  <2>. DEFINE n == Len(s2p)
  <2>. HIDE DEF n
  <2>2. /\ n \in Nat /\ DOMAIN s2p = 1..n /\ DOMAIN s2p' = 1..n + 1
        /\ s2p'[n + 1] = m /\ \A k \in 1..n : s2p'[k] = s2p[k]
    BY <2>1 DEF n
  <2>3. n + 1 \in 1..n + 1 /\ \A k \in 1..n : k \in 1..n + 1
    BY <2>2
  <2>4. \A k \in 1..n + 1 : k = n + 1 \/ k \in 1..n
    BY <2>2
  <2>. QED
    BY <2>2, <2>3, <2>4 DEF ToSet
<1>7. Mapped'
  <2>1. rthread'.pc \in {"list", "send"} =>
          rthread'.rm = rthread.rm /\ rthread'.out = rthread.out
    BY <1>1, <1>2 DEF IdleR
  <2>2. rthread'.pc \in {"list", "send"} => \E r \in Route : Handles(r)'
    BY <1>1, <2>1, SameHandles DEF Mapped
  <2>3. \A x \in ToSet(s2p') : \E r \in Route, in, out \in Config : MessageOf(x, r, in, out)
    BY <1>1, <1>3, <1>4, <1>6 DEF Mapped
  <2>4. \A x \in ToSet(s2p') : \E r \in Route, in, out \in Config : MessageOf(x, r, in, out)'
    BY <1>1, <2>3 DEF MessageOf, Wanted
  <2>. QED
    BY <1>1, <2>2, <2>4 DEF Mapped
<1>8. RoutesRight'
  <2>. SUFFICES ASSUME NEW r \in Route, NEW v \in VmPort, r.vm # NULL, v # r.vm
                PROVE  Right(r, v)' \/ Coming(r, v)'
    BY DEF RoutesRight
  <2>1. CASE Right(r, v)
    BY <1>1, <2>1 DEF Right, IsFor, FlowOf
  <2>2. CASE Handles(r) /\ e.vm = v
    <3>1. PICK out \in Config : MessageOf(m, r, from, out)
      BY <1>4, <2>2
    <3>2. m \in ToSet(s2p') /\ MessageOf(m, r, from, out)'
      BY <1>1, <1>6, <3>1 DEF MessageOf, Wanted
    <3>. QED
      BY <1>3, <2>2, <3>1, <3>2 DEF Coming
  <2>3. ASSUME Handles(r), NEW d \in rthread.todo, d.vm = v, d # e
        PROVE  Coming(r, v)'
    <3>1. rthread' = [rthread EXCEPT !.todo = @ \ {e}]
      BY <1>2, <2>3
    <3>2. /\ rthread'.pc = "send" /\ rthread'.rm = rthread.rm /\ rthread'.out = rthread.out
          /\ d \in rthread'.todo
      BY <1>1, <2>3, <3>1
    <3>3. Handles(r)'
      BY <1>1, <2>3, <3>2, SameHandles
    <3>. QED
      BY <2>3, <3>2, <3>3 DEF Coming
  <2>4. ASSUME NEW x \in ToSet(s2p), NEW in \in Config, NEW out \in Config,
               in[1] = v, MessageOf(x, r, in, out)
        PROVE  Coming(r, v)'
    <3>1. x \in ToSet(s2p') /\ MessageOf(x, r, in, out)'
      BY <1>1, <1>6, <2>4 DEF MessageOf, Wanted
    <3>. QED
      BY <2>4, <3>1 DEF Coming
  <2>. QED
    BY <1>1, <2>1, <2>2, <2>3, <2>4 DEF RoutesRight, Coming
<1>. QED
  BY <1>7, <1>8

(* What rfproxy applies is the newest message of its route.                *)
LEMMA AppliesRoute ==
  ASSUME OrderlyRoutes, RoutesInv, Mapped, RoutesRight, ProcessRouteMod
  PROVE  Mapped' /\ RoutesRight'
<1>1. /\ up /\ s2p # <<>> /\ s2p' = Tail(s2p)
      /\ UNCHANGED <<rftable, pthread, announced, rthread, p2s, up>>
  BY DEF ProcessRouteMod, vars, Mapped
<1>2. PICK m : m = Head(s2p)
  OBVIOUS
<1>3. /\ ToSet(s2p') \subseteq ToSet(s2p) /\ m \in ToSet(s2p)
      /\ ToSet(s2p) \subseteq ToSet(s2p') \cup {m}
  <2>1. s2p \in Seq(ToSet(s2p))
    BY DEF RoutesInv, FlowInv, QueuesSafe
  <2>2. /\ DOMAIN s2p' = 1..Len(s2p) - 1 /\ Len(s2p) \in Nat \ {0} /\ DOMAIN s2p = 1..Len(s2p)
        /\ \A k \in DOMAIN s2p : k # 1 => s2p'[k - 1] = s2p[k]
    BY <1>1, <2>1, TailIs
  <2>3. ASSUME NEW x \in ToSet(s2p), x # m PROVE x \in ToSet(s2p')
    <3>1. PICK k \in DOMAIN s2p : s2p[k] = x
      BY DEF ToSet
    <3>2. k # 1
      BY <1>1, <1>2, <2>1, <2>3, <3>1
    <3>3. k - 1 \in DOMAIN s2p' /\ s2p'[k - 1] = x
      BY <2>2, <3>1, <3>2
    <3>. QED
      BY <3>3 DEF ToSet
  <2>4. ToSet(s2p') \subseteq ToSet(s2p) /\ m \in ToSet(s2p)
    BY <1>1, <1>2, <2>1, QueueTail
  <2>. QED
    BY <2>3, <2>4
<1>4. PICK q \in Route, in \in Config, out \in Config : MessageOf(m, q, in, out)
  BY <1>3 DEF Mapped
<1>5. PICK fm : fm = FM!CreateFlowMod(m)
  OBVIOUS
<1>6. fm # NULL
  <2>. DEFINE p == <<in, out>>
  <2>1. p \in InAndOut /\ p[1] = in /\ p[2] = out
    BY <1>4 DEF InAndOut, MessageOf
  <2>2. m = MessageFor(Wanted(q), q, p[1], p[2]) /\ Wanted(q) \in {"ADD", "DELETE"}
    BY <1>4 DEF MessageOf, Wanted
  <2>. HIDE DEF p
  <2>. QED
    BY <1>5, <2>1, <2>2 DEF OrderlyRoutes, ConvertibleRoutes
<1>7. flows' = Applied(fm)
  BY <1>1, <1>2, <1>5, <1>6 DEF ProcessRouteMod
<1>8. \A r \in Route, v \in VmPort :
        Right(r, v) \/ (r = q /\ v = in[1]) => Right(r, v)'
  BY <1>1, <1>4, <1>5, <1>6, <1>7, Applying
<1>9. Mapped'
  <2>1. \A x \in ToSet(s2p') : \E r \in Route, i, o \in Config : MessageOf(x, r, i, o)'
    BY <1>1, <1>3 DEF Mapped, MessageOf, Wanted
  <2>2. rthread'.pc \in {"list", "send"} => \E r \in Route : Handles(r)'
    BY <1>1, SameHandles DEF Mapped
  <2>. QED
    BY <1>1, <2>1, <2>2 DEF Mapped
<1>10. RoutesRight'
  <2>. SUFFICES ASSUME NEW r \in Route, NEW v \in VmPort, r.vm # NULL, v # r.vm
                PROVE  Right(r, v)' \/ Coming(r, v)'
    BY DEF RoutesRight
  <2>1. CASE Right(r, v)
    BY <1>8, <2>1
  <2>2. CASE Handles(r) /\ (rthread.pc = "list" \/ (rthread.pc = "send" /\ \E e \in rthread.todo : e.vm = v))
    <3>1. Handles(r)'
      BY <1>1, <2>2, SameHandles
    <3>. QED
      BY <1>1, <2>2, <3>1 DEF Coming
  <2>3. ASSUME NEW x \in ToSet(s2p), NEW i \in Config, NEW o \in Config,
               i[1] = v, MessageOf(x, r, i, o)
        PROVE  Right(r, v)' \/ Coming(r, v)'
    <3>1. CASE x \in ToSet(s2p')
      <4>1. MessageOf(x, r, i, o)'
        BY <1>1, <2>3 DEF MessageOf, Wanted
      <4>. QED
        BY <2>3, <3>1, <4>1 DEF Coming
    <3>2. CASE x = m
      <4>1. \A s \in Route, w \in VmPort :
              Right(s, w) \/ (s = r /\ w = i[1]) => Right(s, w)'
        BY <1>1, <1>5, <1>6, <1>7, <2>3, <3>2, Applying
      <4>. QED
        BY <2>3, <4>1
    <3>. QED
      BY <1>3, <3>1, <3>2
  <2>. QED
    BY <2>1, <2>2, <2>3 DEF RoutesRight, Coming
<1>. QED
  BY <1>9, <1>10
-------------------------------------------------------------------------------
(* rfserver's documents, and the steps that are no route's. *)

(* A write keeps the VM port of its document. *)
LEMMA WriteKeepsVm ==
  ASSUME FlowInv, Registered, ProxyThreadStep
  PROVE  \A i \in Doc : rftable'[i] # NULL /\ rftable'[i].vm = rftable[i].vm
<1>1. CASE UNCHANGED rftable
  BY <1>1 DEF Registered
<1>2. ASSUME pthread.pc \in {"save", "down_save", "map_save"},
             rftable' = [rftable EXCEPT ![pthread.id] = pthread.entry]
      PROVE  \A i \in Doc : rftable'[i] # NULL /\ rftable'[i].vm = rftable[i].vm
  <2>1. /\ pthread.id \in Doc /\ pthread.entry \in Entry
        /\ pthread.entry.vm = rftable[pthread.id].vm
    BY <1>2 DEF FlowInv, IInv, ProxySafe, Registered, IdleVm
  <2>2. pthread.entry # NULL
    BY <2>1, NullAssumption
  <2>. QED
    BY <1>2, <2>1, <2>2 DEF Registered, FlowInv, IInv, TypeOK
<1>. QED
  BY <1>1, <1>2 DEF ProxyThreadStep, DpLookupVm, DpSave, DpAskMap, DownLookup, DownSave,
                    DownReset, MapSave, MapSend, Save

LEMMA PutsDownVm ==
  ASSUME FlowInv, Registered, FlowNext, pthread'.pc = "down_save"
  PROVE  pthread'.entry.vm # NULL
<1>0. DOMAIN pthread = {"pc", "x", "dp", "id", "entry", "todo"}
  BY DEF FlowInv, IInv, TypeOK, PState
<1>1. CASE UNCHANGED pthread
  BY <1>1 DEF Registered
<1>2. CASE DownLookup
  <2>1. PICK t \in pthread.todo : \E i \in RowsOfDpPort(t[2]) :
          pthread' = [pthread EXCEPT !.pc = "down_save", !.id = i,
                        !.entry = MakeIdleVm(rftable[i]), !.todo = @ \ {t}]
    <3>1. ASSUME NEW t \in pthread.todo, pthread' = [pthread EXCEPT !.todo = @ \ {t}]
          PROVE  FALSE
      BY <1>0, <1>2, <3>1 DEF DownLookup
    <3>2. pthread' # IdleP
      BY DEF IdleP
    <3>. QED
      BY <1>2, <3>1, <3>2 DEF DownLookup
  <2>2. PICK i \in RowsOfDpPort(t[2]) :
          pthread' = [pthread EXCEPT !.pc = "down_save", !.id = i,
                        !.entry = MakeIdleVm(rftable[i]), !.todo = @ \ {t}]
    BY <2>1
  <2>3. pthread'.entry = MakeIdleVm(rftable[i])
    BY <1>0, <2>2
  <2>4. i \in Rows /\ i \in Doc /\ rftable[i] \in Entry
    BY RowType, QueriesFindRows DEF FlowInv, IInv
  <2>5. pthread'.entry.vm = rftable[i].vm
    BY <2>3, <2>4, MakeIdleCopy
  <2>. QED
    BY <2>4, <2>5, NullAssumption DEF Registered
<1>3. /\ pthread' # IdleP
      /\ \A pc : pthread' = [pthread EXCEPT !.pc = pc] => pc = "down_save"
  BY <1>0 DEF IdleP
<1>4. ~DpAskMap /\ ~DpSave /\ ~DownReset /\ ~MapSave /\ ~MapSend
  <2>1. ~DpAskMap /\ ~MapSend
    BY <1>3 DEF DpAskMap, MapSend
  <2>2. ~DpSave /\ ~MapSave
    BY <1>3 DEF DpSave, MapSave
  <2>3. ~DownReset
    BY <1>0 DEF DownReset
  <2>. QED
    BY <2>1, <2>2, <2>3
<1>5. ~DownSave
  <2>1. pthread' # [pthread EXCEPT !.pc = "down", !.id = NULL, !.entry = NULL]
    BY <1>0
  <2>. QED
    BY <1>3, <2>1 DEF DownSave
<1>6. ~DpLookupVm
  <2>1. ASSUME NEW i PROVE pthread' # [pthread EXCEPT !.pc = "save", !.id = i,
                                         !.entry = [rftable[i] EXCEPT !.dp = pthread.dp]]
    BY <1>0
  <2>. QED
    BY <1>3, <2>1 DEF DpLookupVm
<1>7. ~ConfigDp /\ ~ReconfigureDp(dp0) /\ ~SetDpDown(dp0)
  <2>1. ~ConfigDp
    BY <1>3 DEF ConfigDp
  <2>2. ~ReconfigureDp(dp0) /\ ~SetDpDown(dp0)
    BY DEF ReconfigureDp, SetDpDown, IdleP
  <2>. QED
    BY <2>1, <2>2
<1>8. /\ \A d : ~RegisterDpPort(d)
      /\ \A v \in VmPort : ~MapPort(v, AttachedAt[v])
  BY DEF RegisterDpPort, MapPort, IdleP
<1>. QED
  BY <1>1, <1>2, <1>4, <1>5, <1>6, <1>7, <1>8
  DEF FlowNext, RegisterRouteMod, ListInPorts, SendRouteMod, SendConfig, ProxyThreadReads,
      ProxyThreadStep, VmMaps, VsPortGone, ProcessRouteMod, Join, Leave, vars

LEMMA StaysRegistered ==
  ASSUME FlowInv, Registered, FlowNext
  PROVE  Registered'
<1>1. \A i \in Doc : rftable'[i] # NULL /\ rftable'[i].vm = rftable[i].vm
  <2>1. CASE UNCHANGED rftable
    BY <2>1 DEF Registered
  <2>2. ~ProxyThreadStep => UNCHANGED rftable
    BY DEF FlowNext, RegisterRouteMod, ListInPorts, SendRouteMod, SendConfig, ConfigDp,
       ProxyThreadReads, RegisterDpPort, SetDpDown, VmMaps, MapPort, VsPortGone,
       ReconfigureDp, ProcessRouteMod, Join, Leave, vars
  <2>. QED
    BY <2>1, <2>2, WriteKeepsVm
<1>2. \A v \in VmPort : RowsOfVm(v)' = RowsOfVm(v)
  BY <1>1 DEF Registered, RowsOfVm, Rows
<1>. QED
  BY <1>1, <1>2, PutsDownVm DEF Registered

(* The steps of rfserver's proxy thread once the table is mapped: a VM     *)
(* port maps itself again.                                                 *)
LEMMA StaysMapped ==
  ASSUME RoutesInv, Mapped, RoutesRight, ProxyThreadStep \/ \E v \in VmPort : VmMaps(v)
  PROVE  Mapped' /\ RoutesRight'
<1>1. UNCHANGED <<announced, rthread, p2s, s2p, up, flows>>
  BY DEF ProxyThreadStep, VmMaps
<1>2. pthread'.pc \in {"idle", "map_save", "map_send"}
  <2>1. DOMAIN pthread = {"pc", "x", "dp", "id", "entry", "todo"}
    BY DEF RoutesInv, FlowInv, IInv, TypeOK, PState
  <2>2. ~(DpLookupVm \/ DpSave \/ DpAskMap \/ DownLookup \/ DownSave \/ DownReset)
    BY DEF Mapped, DpLookupVm, DpSave, DpAskMap, DownLookup, DownSave, DownReset
  <2>3. CASE MapSave
    BY <2>1, <2>3 DEF MapSave
  <2>4. CASE MapSend
    BY <2>4 DEF MapSend, IdleP
  <2>5. ASSUME NEW v \in VmPort, VmMaps(v)
        PROVE  pthread'.pc = "map_save"
    BY <2>5 DEF VmMaps, MapPort, IdleP
  <2>. QED
    BY <2>2, <2>3, <2>4, <2>5 DEF ProxyThreadStep
<1>3. \A i \in Doc : IsActive(rftable'[i])
  <2>1. CASE UNCHANGED rftable
    BY <2>1 DEF Mapped
  <2>2. CASE MapSave
    <3>1. /\ pthread.id \in Doc /\ pthread.entry.vm # NULL /\ pthread.entry.dp # NULL
          /\ pthread.entry.vs # NULL /\ rftable' = [rftable EXCEPT ![pthread.id] = pthread.entry]
      BY <2>2 DEF MapSave, Save, RoutesInv, FlowInv, IInv, ProxySafe
    <3>2. IsActive(pthread.entry)
      BY <3>1 DEF IsActive, IsIdleVmPort, IsIdleDpPort
    <3>3. \A i \in Doc : rftable'[i] = IF i = pthread.id THEN pthread.entry ELSE rftable[i]
      BY <3>1 DEF RoutesInv, FlowInv, IInv, TypeOK
    <3>. QED
      BY <3>2, <3>3 DEF Mapped
  <2>. QED
    BY <2>1, <2>2 DEF Mapped, ProxyThreadStep, DpLookupVm, DpSave, DpAskMap, DownLookup, DownSave,
                      DownReset, MapSend, VmMaps, MapPort
<1>4. Mapped'
  <2>1. \A r : Handles(r) => Handles(r)'
    BY <1>1, SameHandles
  <2>2. \A m, r, in, out : MessageOf(m, r, in, out) => MessageOf(m, r, in, out)'
    BY <1>1 DEF MessageOf, Wanted
  <2>. QED
    BY <1>1, <1>2, <1>3, <2>1, <2>2 DEF Mapped
<1>5. RoutesRight'
  <2>. SUFFICES ASSUME NEW r \in Route, NEW v \in VmPort, r.vm # NULL, v # r.vm
                PROVE  Right(r, v)' \/ Coming(r, v)'
    BY DEF RoutesRight
  <2>1. Right(r, v) => Right(r, v)'
    BY <1>1 DEF Right, IsFor, FlowOf
  <2>2. Coming(r, v) => Coming(r, v)'
    BY <1>1 DEF Coming, Handles, MessageOf, Wanted
  <2>. QED
    BY <2>1, <2>2 DEF RoutesRight
<1>. QED
  BY <1>4, <1>5

(* Before the first route only default flows are added. *)
LEMMA OnlyDefaults ==
  ASSUME RoutesInv, Before, FlowNext,
         ~\E mod \in {"ADD", "DELETE"}, r \in Route : RegisterRouteMod(mod, r)
  PROVE  Before'
<1>1. /\ announced = {} /\ rthread.pc = "idle" /\ flows \subseteq DefaultFlows
      /\ \A m \in ToSet(s2p) : FromConfig(m)
  BY DEF Before
<1>2. ~ListInPorts /\ ~SendRouteMod
  BY <1>1 DEF ListInPorts, SendRouteMod
<1>3. UNCHANGED <<announced, rthread>>
  BY <1>2 DEF FlowNext, SendConfig, ProxyThreadReads, ProxyThreadStep, VmMaps, VsPortGone,
              ProcessRouteMod, Join, Leave
<1>4. CASE SendConfig
  <2>1. PICK m : m = ConfigMessage(Head(sending))
    OBVIOUS
  <2>2. FromConfig(m)
    BY <2>1 DEF FromConfig, RoutesInv, FlowInv, QueuesSafe
  <2>3. s2p' = Append(s2p, m) /\ UNCHANGED flows
    BY <1>4, <2>1 DEF SendConfig
  <2>4. \A x \in ToSet(s2p') : FromConfig(x)
    BY <1>1, <2>2, <2>3, QueueAppend DEF RoutesInv, FlowInv, QueuesSafe
  <2>. QED
    BY <1>1, <1>3, <2>3, <2>4 DEF Before
<1>5. CASE ProcessRouteMod
  <2>1. PICK m : m = Head(s2p)
    OBVIOUS
  <2>2. ToSet(s2p') \subseteq ToSet(s2p) /\ m \in ToSet(s2p)
    BY <1>5, <2>1, QueueTail DEF ProcessRouteMod, RoutesInv, FlowInv, QueuesSafe
  <2>3. PICK fm : fm = FM!CreateFlowMod(m)
    OBVIOUS
  <2>4. flows' \subseteq flows \/ (fm # NULL /\ flows' = Applied(fm))
    BY <1>5, <2>1, <2>3 DEF ProcessRouteMod
  <2>5. fm # NULL => fm.command = "DELETE" \/ fm \in DefaultFlows
    BY <1>1, <2>2, <2>3, DefaultConverted
  <2>6. flows' \subseteq DefaultFlows
    BY <1>1, <2>4, <2>5 DEF Applied
  <2>. QED
    BY <1>1, <1>3, <2>2, <2>6 DEF Before
<1>6. CASE UNCHANGED s2p /\ flows' \in {flows, {}}
  BY <1>1, <1>3, <1>6 DEF Before
<1>. QED
  BY <1>2, <1>4, <1>5, <1>6 DEF FlowNext, ProxyThreadReads, ProxyThreadStep, VmMaps, VsPortGone,
                                Join, Leave

LEMMA RoutesInit == OrderlyRoutes /\ FlowInit => RoutesInv
<1>. SUFFICES ASSUME OrderlyRoutes, FlowInit PROVE RoutesInv
  OBVIOUS
<1>1. FlowInv
  BY FlowInitInv
<1>2. Before
  BY DEF FlowInit, Before, IdleR, ToSet
<1>3. /\ rftable \in [Doc -> {IdleVm(v) : v \in VmPort}]
      /\ \A v \in VmPort : RowsOfVm(v) # {}
  BY DEF FlowInit
<1>4. \A i \in Doc : rftable[i] # NULL /\ rftable[i].vm \in VmPort
  <2>. TAKE i \in Doc
  <2>1. PICK v \in VmPort : rftable[i] = IdleVm(v)
    BY <1>3
  <2>2. IdleVm(v) \in Entry /\ IdleVm(v).vm = v
    BY IdleType DEF IdleVm
  <2>. QED
    BY <2>1, <2>2, NullAssumption
<1>5. \A i, j \in Doc : rftable[i].vm = rftable[j].vm => i = j
  <2>1. PICK vm : vm = [i \in Doc |-> rftable[i].vm]
    OBVIOUS
  <2>2. vm \in [Doc -> VmPort] /\ \A i \in Doc : vm[i] = rftable[i].vm
    BY <1>4, <2>1
  <2>3. \A v \in VmPort : \E i \in Doc : vm[i] = v
    BY <1>3, <2>2 DEF RowsOfVm, Rows
  <2>4. vm \in Surjection(Doc, VmPort)
    BY <2>2, <2>3 DEF Surjection
  <2>5. vm \in Injection(Doc, VmPort)
    BY <2>4, FS_SurjSameCardinalityImpliesInj DEF OrderlyRoutes
  <2>. QED
    BY <2>2, <2>5 DEF Injection, IsInjective
<1>6. Registered
  BY <1>3, <1>4, <1>5 DEF FlowInit, Registered, IdleP
<1>. QED
  BY <1>1, <1>2, <1>6 DEF RoutesInv

LEMMA RoutesNext ==
  ASSUME OrderlyRoutes, RoutesInv, [FlowNext]_ftvars
  PROVE  RoutesInv'
<1>1. FlowInv'
  BY FlowNextInv DEF RoutesInv
<1>2. CASE UNCHANGED ftvars
  <2>1. UNCHANGED <<rftable, pthread, announced, rthread, p2s, s2p, up, flows>>
    BY <1>2 DEF ftvars, vars
  <2>2. Registered'
    BY <2>1 DEF RoutesInv, Registered, RowsOfVm, Rows
  <2>3. Before => Before'
    BY <2>1 DEF Before
  <2>4. /\ \A r : Wanted(r)' = Wanted(r) /\ Handles(r)' = Handles(r)
        /\ \A r, v : (Right(r, v) <=> Right(r, v)') /\ (Coming(r, v) <=> Coming(r, v)')
        /\ \A m, r, in, out : MessageOf(m, r, in, out) <=> MessageOf(m, r, in, out)'
    BY <2>1 DEF Wanted, Handles, Right, Coming, IsFor, FlowOf, MessageOf
  <2>5. Mapped /\ RoutesRight => Mapped' /\ RoutesRight'
    BY <2>1, <2>4 DEF Mapped, RoutesRight
  <2>. QED
    BY <1>1, <2>2, <2>3, <2>5 DEF RoutesInv
<1>3. CASE FlowNext
  <2>1. Registered'
    BY <1>3, StaysRegistered DEF RoutesInv
  <2>2. Before' \/ (Mapped' /\ RoutesRight')
    <3>1. CASE \E mod \in {"ADD", "DELETE"}, r \in Route : RegisterRouteMod(mod, r)
      BY <3>1, RegisterRoutes
    <3>2. ASSUME ~\E mod \in {"ADD", "DELETE"}, r \in Route : RegisterRouteMod(mod, r), Before
          PROVE  Before'
      BY <1>3, <3>2, OnlyDefaults
    <3>3. ASSUME ~\E mod \in {"ADD", "DELETE"}, r \in Route : RegisterRouteMod(mod, r),
                 Mapped, RoutesRight
          PROVE  Mapped' /\ RoutesRight'
      <4>1. ~SendConfig /\ ~ProxyThreadReads /\ ~Join
        BY <3>3 DEF Mapped, SendConfig, ProxyThreadReads, Join
      <4>2. ~VsPortGone /\ ~Leave
        <5>1. \A v \in VmPort : Active(v)
          BY <3>3, EveryoneActive DEF RoutesInv, Mapped
        <5>. QED
          BY <5>1 DEF OrderlyRoutes, VsPortGone, Leave
      <4>. QED
        BY <1>3, <3>3, <4>1, <4>2, ListsAllPorts, SendsEachPort, StaysMapped, AppliesRoute
        DEF FlowNext
    <3>. QED
      BY <3>1, <3>2, <3>3 DEF RoutesInv
  <2>. QED
    BY <1>1, <2>1, <2>2 DEF RoutesInv
<1>. QED
  BY <1>2, <1>3

(* When nothing is left to be done, every announced route has a flow from  *)
(* every other port of the datapath, whatever other routes were announced  *)
(* and withdrawn in whatever order (register_route_mod,                    *)
(* _send_rm_with_matches, create_flow_mod).                                *)
THEOREM RoutesAreInstalled ==
  ASSUME OrderlyRoutes
  PROVE  FlowSpec => []RoutesInstalled
<1>1. RoutesInv => RoutesInstalled
  <2>. SUFFICES ASSUME RoutesInv, Settled, NEW r \in announced, r.vm # NULL,
                       NEW v \in VmPort \ {r.vm}
                PROVE  \E f \in flows : FlowOf(f, r) /\ f.match.eth_dst = v
    BY DEF RoutesInstalled, Installed
  <2>1. r \in Route
    BY DEF RoutesInv, Before, Mapped
  <2>2. Right(r, v)
    BY <2>1, AllRight
  <2>. QED
    BY <2>2 DEF Right, IsFor
<1>2. FlowInit => RoutesInv
  BY RoutesInit
<1>3. RoutesInv /\ [FlowNext]_ftvars => RoutesInv'
  BY RoutesNext
<1>. QED
  BY <1>1, <1>2, <1>3, PTL DEF FlowSpec

(* When nothing is left to be done, the datapath holds no flow of a route  *)
(* that was withdrawn, from whichever ports it had been installed          *)
(* (register_route_mod, create_flow_mod).                                  *)
THEOREM WithdrawnAreGone ==
  ASSUME OrderlyRoutes
  PROVE  FlowSpec => []NoWithdrawnFlows
<1>1. RoutesInv => NoWithdrawnFlows
  <2>. SUFFICES ASSUME RoutesInv, Settled, NEW f \in flows, NEW r \in Route \ announced,
                       FlowOf(f, r)
                PROVE  FALSE
    BY DEF NoWithdrawnFlows
  <2>1. PICK in, out \in Config : in # out /\ out[1] = r.vm /\ f.match = MatchOf(r, in)
    BY Zenon DEF FlowOf, MatchOf
  <2>2. f.match.eth_dst = in[1]
    BY <2>1, MatchOfFields DEF Fields
  <2>3. in[1] # out[1]
    <3>1. in = <<in[1], in[2]>> /\ out = <<out[1], out[2]>>
      BY ConfigAssumption
    <3>2. in[1] = out[1] => in[2] = out[2]
      BY DEF OrderlyRoutes
    <3>. QED
      BY <2>1, <3>1, <3>2
  <2>4. in[1] \in VmPort /\ r.vm # NULL /\ in[1] # r.vm
    BY <2>1, <2>3, ConfigPair, NullAssumption
  <2>5. Right(r, in[1])
    BY <2>4, AllRight
  <2>. QED
    BY <2>2, <2>5 DEF Right, IsFor
<1>2. FlowInit => RoutesInv
  BY RoutesInit
<1>3. RoutesInv /\ [FlowNext]_ftvars => RoutesInv'
  BY RoutesNext
<1>. QED
  BY <1>1, <1>2, <1>3, PTL DEF FlowSpec
===============================================================================
