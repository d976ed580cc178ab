----------------------------- MODULE MCPeriphery -----------------------------
(***************************************************************************)
(* Periphery for TLC: what is asked of each part.                          *)
(***************************************************************************)
EXTENDS Periphery, MCIngestion

\* The instrument named by the first field of its schema and by a well-known one.
MCShapes ==
  {[fields |-> [issuer |-> "SBIN", type |-> "credit"], schema |-> <<"issuer", "type">>],
   [fields |-> [issuer |-> "SBIN", type |-> "credit"], schema |-> <<>>]}

MCKinds == {[right |-> "RETRY", delayed |-> FALSE], [right |-> "NUDGE", delayed |-> TRUE]}

MCScenario == [b \in Batches |-> "normal"]

\* "Rs 750" and "Rs 10000.01": shorter and longer than the placeholder.
LOCAL Short == [digits |-> 3, paise |-> FALSE]
LOCAL Long  == [digits |-> 5, paise |-> TRUE]

\* Every known code with the most misleading fields around it, and an unknown
\* one with every combination of them, some with a short amount too.
LOCAL Codes == UNION {CodesOf[b] : b \in DOMAIN CodesOf} \union Indeterminate
MCPayments ==
  [code : Codes, source : {"BANK"}, step : {"AUTHENTICATION"}, type : {"PAYMENT"},
   amount : {Long}]
  \union [code : {"UNHEARD_OF"}, source : {"CUSTOMER", "BANK", ""},
          step : {"AUTHENTICATION", "AUTHORIZATION", ""},
          type : {"PAYMENT", "CHECKOUT", "INVOICE"}, amount : {Long}]
  \union [code : {"UNHEARD_OF"}, source : {"BANK", ""}, step : {""},
          type : {"CHECKOUT", "INVOICE"}, amount : {Short}]

MCModelAnswers ==
  [bucket : {"TRANSIENT_BANK", "?"}, action : {"RETRY", "ESCALATE", "NONE", "?"},
   confidence : {-1, 50, 101}, reasoned : BOOLEAN]
MCModelTexts ==
  {t \in [length : {0, 10, 160, 161}, amounts : 0..2, digits : BOOLEAN, leaks : BOOLEAN] :
     t \in Texts}
MCRate == <<1, 2>>
=============================================================================
