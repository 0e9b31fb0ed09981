----------------------------- MODULE ShopTypes -----------------------------
(***************************************************************************)
(* The list of shop types in Redis (ShopTypeServiceImpl.queryList): who    *)
(* finds it empty reads the table and pushes the types one by one.  The    *)
(* list has no time to live and nothing else writes it.                    *)
(***************************************************************************)
EXTENDS Naturals, FiniteSets

CONSTANTS
    TypeReader,  \* places for requests to /shop-type/list
    TypeCount    \* rows of tb_shop_type

ASSUME TypeConstants == IsFiniteSet(TypeReader) /\ TypeCount \in Nat \ {0}

ShopType == 1..TypeCount

VARIABLES
    copies,   \* cache:shoptype: how often it holds each type
    next,     \* requests: the type to push next, 0 for none
    stopped   \* history: a request stopped halfway

typeVars == <<copies, next, stopped>>

TypesInit ==
    /\ copies = [t \in ShopType |-> 0]
    /\ next = [r \in TypeReader |-> 0]
    /\ stopped = FALSE

ListEmpty == \A t \in ShopType : copies[t] = 0

\* LRANGE finds nothing; the table is read.
QueryTypes(r) ==
    /\ next[r] = 0 /\ ListEmpty
    /\ next' = [next EXCEPT ![r] = 1]
    /\ UNCHANGED <<copies, stopped>>

\* Changed form: it stops when the list is not empty any more.
LastPush(r) == next[r] >= TypeCount \/ ~ListEmpty

Finished(r) == next[r] = TypeCount

RightPush(r) ==
    /\ next[r] > 0
    /\ copies' = [copies EXCEPT ![next[r]] = @ + 1]
    /\ next' = [next EXCEPT ![r] = IF Finished(r) THEN 0 ELSE @ + 1]
    /\ UNCHANGED stopped

\* A push throws or the instance dies.
FillBreaks(r) ==
    /\ next[r] > 0 /\ next' = [next EXCEPT ![r] = 0]
    /\ stopped' = TRUE
    /\ UNCHANGED copies

TypesNext == \E r \in TypeReader : QueryTypes(r) \/ RightPush(r) \/ FillBreaks(r)

TypesSpec == TypesInit /\ [][TypesNext]_typeVars

-----------------------------------------------------------------------------
ShopTypesTypeOK ==
    /\ copies \in [ShopType -> Nat] /\ next \in [TypeReader -> 0..TypeCount]
    /\ stopped \in BOOLEAN

\* What the list holds once nobody pushes is what it holds for ever: as long as no
\* request stopped halfway it is every type equally often, though every type twice
\* when two requests found it empty.
ListWhole ==
    ~stopped /\ (\A r \in TypeReader : next[r] = 0) =>
        \A s, t \in ShopType : copies[s] = copies[t]
=============================================================================
