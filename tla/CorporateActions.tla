-------------------------- MODULE CorporateActions --------------------------
(***************************************************************************)
(* CorporateActionAdjuster (src/data/corporate_actions.cpp): splits,       *)
(* dividends and changes of symbol, added in any portions, and the bars    *)
(* adjusted by what has been added.                                        *)
(*                                                                         *)
(* A bar is its time, its closing price and its volume; the other prices   *)
(* are treated as the closing one.  Factors are quotients of integers, and *)
(* prices are chosen so that they divide.                                  *)
(***************************************************************************)
EXTENDS Integers, Sequences, FiniteSets, Functions

CONSTANTS
  Symbols,     \* symbols
  Actions,     \* the corporate actions there are
  Bars,        \* the bars of one symbol, as the source has them
  MaxActions   \* bound: actions added

ActionsAssumption ==
  /\ \A a \in Actions :
       /\ a.kind \in {"split", "dividend", "rename"} /\ a.date \in Nat
       /\ a.factor \in Int \X (Nat \ {0}) /\ a.amount \in Int
  /\ \A b \in Bars : {b.time, b.price, b.volume} \subseteq Nat

VARIABLES
  listed,   \* the symbols actions_ has a list for, be it empty
  actions   \* their lists, sorted by effective_date

vars == <<listed, actions>>

Init == listed = {} /\ actions = [s \in Symbols |-> <<>>]
-----------------------------------------------------------------------------
\* Mutant: new actions stay behind those that were there.
SortedAlone(list) == {list}

\* std::sort(): actions of one date come in any order.
Sorted(list) ==
  { sorted \in [DOMAIN list -> Range(list)] :
      /\ \A a \in Range(list) :
           Cardinality({i \in DOMAIN list : sorted[i] = a})
             = Cardinality({i \in DOMAIN list : list[i] = a})
      /\ \A i, j \in DOMAIN list : i < j => sorted[i].date <= sorted[j].date }

Added == FoldFunction(LAMBDA list, n : Len(list) + n, 0, actions)

\* add_actions()
AddActions(s, portion) ==
  /\ Added + Len(portion) <= MaxActions
  /\ listed' = listed \cup {s}
  /\ \E sorted \in Sorted(actions[s] \o portion) : actions' = [actions EXCEPT ![s] = sorted]

\* The actions come one or two at a time.
Portions == UNION {[1 .. n -> Actions] : n \in 0 .. 2}

Next == \E s \in Symbols, portion \in Portions : AddActions(s, portion)

Spec == Init /\ [][Next]_vars
-----------------------------------------------------------------------------
(* adjust_bar()                                                            *)

\* Mutant: the day of the action is adjusted as well.
PrecedesOrMeets(bar, action) == bar.time <= action.date

Precedes(bar, action) == bar.time < action.date

\* price / factor and volume * factor, cut to an integer.
Split(bar, factor) ==
  IF factor[1] > 0
    THEN [bar EXCEPT !.price = (@ * factor[2]) \div factor[1],
                     !.volume = (@ * factor[1]) \div factor[2]]
  ELSE bar

\* A dividend without a factor gets one from the price of the bar itself; one that
\* is not above 0 is left out.
Dividend(bar, action) ==
  IF action.factor[1] # action.factor[2] /\ action.factor[1] > 0
    THEN [bar EXCEPT !.price = (@ * action.factor[1]) \div action.factor[2]]
  ELSE IF bar.price > action.amount THEN [bar EXCEPT !.price = @ - action.amount]
  ELSE bar

AdjustedBy(bar, action) ==
  IF Precedes(bar, action) THEN
    CASE action.kind = "split" -> Split(bar, action.factor)
      [] action.kind = "dividend" -> Dividend(bar, action)
      [] action.kind = "rename" -> bar
  ELSE IF action.kind = "rename" THEN [bar EXCEPT !.symbol = action.symbol]
  ELSE bar

AsRead(s, bar) ==
  [symbol |-> s, time |-> bar.time, price |-> bar.price, volume |-> bar.volume]

Adjusted(s, bar) ==
  LET by[n \in 0 .. Len(actions[s])] ==
        IF n = 0 THEN AsRead(s, bar) ELSE AdjustedBy(by[n - 1], actions[s][n])
  IN  by[Len(actions[s])]

\* aliases_for(), without the symbol itself.
Aliases(s) == {a.symbol : a \in {a \in Range(actions[s]) : a.kind = "rename"}}

\* resolve_symbol(): the first match in an order that is not determined.
Resolved(s) ==
  IF s \in listed THEN {s}
  ELSE LET former == {t \in Symbols : s \in Aliases(t)} IN IF former = {} THEN {s} ELSE former
-----------------------------------------------------------------------------
(* Properties.                                                             *)

TypeOK ==
  /\ listed \subseteq Symbols /\ \A s \in Symbols \ listed : actions[s] = <<>>
  /\ actions \in [Symbols -> Seq(Actions)]
  /\ \A s \in Symbols : \A i, j \in DOMAIN actions[s] :
       i < j => actions[s][i].date <= actions[s][j].date

\* What the actions between two bars make of the price of the first one.
FactorsBetween(s, from, to) ==
  LET between == SelectSeq(actions[s],
        LAMBDA a : a.kind # "rename" /\ from < a.date /\ a.date <= to)
      Multiplier(a, f) ==
        IF a.kind = "split" THEN <<f[1] * a.factor[2], f[2] * a.factor[1]>>
        ELSE <<f[1] * a.factor[1], f[2] * a.factor[2]>>
  IN FoldFunction(Multiplier, <<1, 1>>, between)

HasAmounts(s) ==
  \E a \in Range(actions[s]) : a.kind = "dividend" /\ a.factor[1] = a.factor[2]

\* However the actions were added, the return between two adjusted bars is the
\* return of the source corrected by the actions between them and by no other.
\* (Not with dividends given as an amount, whose factor differs from bar to bar.)
ReturnsAreCorrected ==
  \A s \in Symbols : ~HasAmounts(s) =>
    \A b, c \in Bars : b.time <= c.time =>
      LET f == FactorsBetween(s, b.time, c.time) IN
      Adjusted(s, b).price * c.price * f[2] = Adjusted(s, c).price * b.price * f[1]

\* A bar bears the name its symbol had at its time: the one of the last change.
NamesFollowTime ==
  \A s \in Symbols, b \in Bars :
    LET past == {i \in DOMAIN actions[s] :
                   actions[s][i].kind = "rename" /\ actions[s][i].date <= b.time}
    IN Adjusted(s, b).symbol
         \in IF past = {} THEN {s}
             ELSE {actions[s][i].symbol : i \in
                     {i \in past : \A j \in past : actions[s][j].date <= actions[s][i].date}}

\* A new name leads back to its symbol, unless it has a list of its own or two
\* symbols took it.
AliasesResolve ==
  \A s \in Symbols : \A name \in Aliases(s) :
    name \notin listed => s \in Resolved(name)
=============================================================================
