------------------------------ MODULE Figures ------------------------------
(***************************************************************************)
(* Two calculations: the days a user signed in without a break             *)
(* (UserServiceImpl.sign, signCount: one bit a day, a key a month), and    *)
(* the page's conversion between cents and the text of a price             *)
(* (formatPrice of common.js).                                             *)
(***************************************************************************)
EXTENDS Naturals, Sequences

CONSTANTS
    MonthLength, \* days of a month
    MaxPrice     \* bound: the largest price in cents

ASSUME FigureConstants == MonthLength \in Nat \ {0} /\ MaxPrice \in Nat

VARIABLES
    today,    \* day of the month
    bits,     \* sign:{user}:{yyyyMM}: the offsets that are 1
    signedOn, \* history: days of this month with a sign-in
    price     \* an amount in cents, its tenths as a sequence of digits or none

figureVars == <<today, bits, signedOn, price>>

FiguresInit ==
    /\ today = 1 /\ bits = {} /\ signedOn = {}
    /\ price \in [whole : 0..MaxPrice, tenths : {<<>>, <<5>>}]
    /\ price # [whole |-> 0, tenths |-> <<>>]

\* Changed form: offsets counted from one.
OffsetFromOne(day) == day

Offset(day) == day - 1

\* SETBIT; a second sign-in of the day changes nothing.
Sign ==
    /\ bits' = bits \cup {Offset(today)} /\ signedOn' = signedOn \cup {today}
    /\ UNCHANGED <<today, price>>

NextDay ==
    /\ today < MonthLength /\ today' = today + 1
    /\ UNCHANGED <<bits, signedOn, price>>

\* Another key.
NextMonth ==
    /\ today = MonthLength /\ today' = 1 /\ bits' = {} /\ signedOn' = {}
    /\ UNCHANGED price

FiguresNext == Sign \/ NextDay \/ NextMonth

FiguresSpec == FiguresInit /\ [][FiguresNext]_figureVars

\* BITFIELD GET u{today} 0: the first bit is the highest.
bitField[n \in Nat] ==
    IF n = 0 THEN 0 ELSE 2 * bitField[n - 1] + (IF n - 1 \in bits THEN 1 ELSE 0)

\* The loop over the lowest bits.
trailingOnes[num \in Nat] == IF num % 2 = 0 THEN 0 ELSE 1 + trailingOnes[num \div 2]

SignCount == trailingOnes[bitField[today]]

-----------------------------------------------------------------------------
digits[n \in Nat] == IF n < 10 THEN <<n>> ELSE Append(digits[n \div 10], n % 10)

Number(s) ==
    LET value[k \in 0..Len(s)] == IF k = 0 THEN 0 ELSE 10 * value[k - 1] + s[k]
    IN  value[Len(s)]

\* Changed form: the dot one place to the right.
DotAfterOne(whole, all) ==
    [yuan |-> SubSeq(all, 1, Len(whole) - 1), cents |-> SubSeq(all, Len(whole), Len(all))]

\* The dot two places to the left.
DotBeforeTwo(whole, all) ==
    [yuan |-> SubSeq(all, 1, Len(whole) - 2), cents |-> SubSeq(all, Len(whole) - 1, Len(all))]

\* The number branch of formatPrice: one or two digits are filled up with zeros.
FormatPrice(p) ==
    LET whole == digits[p.whole]
        all   == whole \o p.tenths
    IN  CASE Len(whole) = 1 -> [yuan |-> <<0>>, cents |-> <<0>> \o all]
          [] Len(whole) = 2 -> [yuan |-> <<0>>, cents |-> all]
          [] OTHER -> DotBeforeTwo(whole, all)

\* The string branch, for a text with a dot: it is left out, whatever follows it.
ParsePrice(text) == Number(text.yuan \o text.cents)

-----------------------------------------------------------------------------
\* Every variable has its type.
FiguresTypeOK ==
    /\ today \in 1..MonthLength
    /\ bits \subseteq 0..(MonthLength - 1) /\ signedOn \subseteq 1..MonthLength
    /\ price \in [whole : 0..MaxPrice, tenths : {<<>>, <<5>>}]

\* signCount is the number of days up to today, today included, on which the user
\* signed in without a break, also at the first and the last day of a month.
StreakCounted ==
    /\ (today - SignCount + 1)..today \subseteq signedOn
    /\ today - SignCount \notin signedOn

\* A price is shown as a hundredth of the amount to its last digit, and what is shown
\* reads back as the digits of the amount: a whole number of cents survives the trip.
PriceExact ==
    LET text == FormatPrice(price)
    IN  /\ Len(text.cents) = 2 + Len(price.tenths)
        /\ ParsePrice(text) = Number(digits[price.whole] \o price.tenths)
=============================================================================
