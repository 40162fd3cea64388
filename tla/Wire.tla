------------------------------- MODULE Wire -------------------------------
(***************************************************************************)
(* The messages of pb/demo.proto as the TypeScript programs write and read *)
(* them, with the generated code of module Message.                        *)
(*                                                                         *)
(* One behaviour is one half of one call.  A request is an object of the   *)
(* program, complete or not, that the generated code writes and the        *)
(* service's own protobuf library reads; a response is a message of the    *)
(* service that its library writes in a form of its own (another order,    *)
(* defaults spelled out, fields of a newer schema) and the generated code  *)
(* reads, after which it goes through JSON and back.                       *)
(***************************************************************************)
EXTENDS Integers, Sequences

CONSTANTS
    MaxSafe,      \* Number.MAX_SAFE_INTEGER, scaled down
    Objects(_),   \* the objects of a type that a behaviour starts from
    MaxEdits      \* bound: liberties a service's library takes in one message

ASSUME BoundsAssumption == MaxSafe \in Nat /\ MaxEdits \in Nat

---------------------------------------------------------------------------
(* The generated code by how deep messages nest in a message of the type:  *)
(* not at all, ...                                                         *)
Never(t, o) == FALSE
Nothing(t, o) == <<>>
Flat == INSTANCE Message WITH
    InnerType <- LAMBDA t : FALSE, InnerObject <- Never,
    InnerFill <- Nothing, InnerToJSON <- Nothing,
    InnerUnwritable <- Never, InnerEncode <- Nothing,
    InnerUnreadable <- Never, InnerDecode <- Nothing, InnerUnsafe <- Never

\* ... one or two deep (an OrderItem, an OrderResult), ...
Nested == INSTANCE Message WITH
    InnerType <- Flat!IsType, InnerObject <- Flat!IsObject,
    InnerFill <- Flat!Fill, InnerToJSON <- Flat!toJSON,
    InnerUnwritable <- Flat!Unwritable, InnerEncode <- Flat!encode,
    InnerUnreadable <- Flat!Unreadable, InnerDecode <- Flat!decode,
    InnerUnsafe <- Flat!Unsafe
Deep == INSTANCE Message WITH
    InnerType <- Nested!IsType, InnerObject <- Nested!IsObject,
    InnerFill <- Nested!Fill, InnerToJSON <- Nested!toJSON,
    InnerUnwritable <- Nested!Unwritable, InnerEncode <- Nested!encode,
    InnerUnreadable <- Nested!Unreadable, InnerDecode <- Nested!decode,
    InnerUnsafe <- Nested!Unsafe

\* ... and up to three, which is as deep as they go (a PlaceOrderResponse).
INSTANCE Message WITH
    InnerType <- Deep!IsType, InnerObject <- Deep!IsObject,
    InnerFill <- Deep!Fill, InnerToJSON <- Deep!toJSON,
    InnerUnwritable <- Deep!Unwritable, InnerEncode <- Deep!encode,
    InnerUnreadable <- Deep!Unreadable, InnerDecode <- Deep!decode,
    InnerUnsafe <- Deep!Unsafe

---------------------------------------------------------------------------
(* The message types, in the order of demo.ts.                             *)
CartItem == [productId |-> String(1), quantity |-> Int32(2)]
AddItemRequest == [userId |-> String(1), item |-> One(2, CartItem)]
EmptyCartRequest == [userId |-> String(1)]
GetCartRequest == [userId |-> String(1)]
Cart == [userId |-> String(1), items |-> Many(2, CartItem)]
Empty == <<>>
ListRecommendationsRequest == [userId |-> String(1), productIds |-> Strings(2)]
ListRecommendationsResponse == [productIds |-> Strings(1)]
Money == [currencyCode |-> String(1), units |-> Int64(2), nanos |-> Int32(3)]
Product == [id |-> String(1), name |-> String(2), description |-> String(3),
            picture |-> String(4), priceUsd |-> One(5, Money),
            categories |-> Strings(6)]
ListProductsResponse == [products |-> Many(1, Product)]
GetProductRequest == [id |-> String(1)]
SearchProductsRequest == [query |-> String(1)]
SearchProductsResponse == [results |-> Many(1, Product)]
Address == [streetAddress |-> String(1), city |-> String(2), state |-> String(3),
            country |-> String(4), zipCode |-> String(5)]
GetQuoteRequest == [address |-> One(1, Address), items |-> Many(2, CartItem)]
GetQuoteResponse == [costUsd |-> One(1, Money)]
ShipOrderRequest == [address |-> One(1, Address), items |-> Many(2, CartItem)]
ShipOrderResponse == [trackingId |-> String(1)]
GetSupportedCurrenciesResponse == [currencyCodes |-> Strings(1)]
CurrencyConversionRequest == [from |-> One(1, Money), toCode |-> String(2)]
CreditCardInfo == [creditCardNumber |-> String(1), creditCardCvv |-> Int32(2),
                   creditCardExpirationYear |-> Int32(3),
                   creditCardExpirationMonth |-> Int32(4)]
ChargeRequest == [amount |-> One(1, Money), creditCard |-> One(2, CreditCardInfo)]
ChargeResponse == [transactionId |-> String(1)]
OrderItem == [item |-> One(1, CartItem), cost |-> One(2, Money)]
OrderResult == [orderId |-> String(1), shippingTrackingId |-> String(2),
                shippingCost |-> One(3, Money), shippingAddress |-> One(4, Address),
                items |-> Many(5, OrderItem)]
SendOrderConfirmationRequest == [email |-> String(1), order |-> One(2, OrderResult)]
PlaceOrderRequest ==
    [userId |-> String(1), userCurrency |-> String(2), address |-> One(3, Address),
     email |-> String(5), creditCard |-> One(6, CreditCardInfo)]
PlaceOrderResponse == [order |-> One(1, OrderResult)]
AdRequest == [contextKeys |-> Strings(1)]
Ad == [redirectUrl |-> String(1), text |-> String(2)]
AdResponse == [ads |-> Many(1, Ad)]
Flag == [name |-> String(1), description |-> String(2), enabled |-> Bool(3)]
GetFlagRequest == [name |-> String(1)]
GetFlagResponse == [flag |-> One(1, Flag)]
CreateFlagRequest == [name |-> String(1), description |-> String(2), enabled |-> Bool(3)]
CreateFlagResponse == [flag |-> One(1, Flag)]
UpdateFlagRequest == [name |-> String(1), enabled |-> Bool(2)]
UpdateFlagResponse == <<>>
ListFlagsRequest == <<>>
ListFlagsResponse == [flag |-> Many(1, Flag)]
DeleteFlagRequest == [name |-> String(1)]
DeleteFlagResponse == <<>>

(* The services: the types of each method's request and response.          *)
Rpc(request, response) == [request |-> request, response |-> response]

CartService == {Rpc(AddItemRequest, Empty), Rpc(GetCartRequest, Cart),
                Rpc(EmptyCartRequest, Empty)}
RecommendationService ==
    {Rpc(ListRecommendationsRequest, ListRecommendationsResponse)}
ProductCatalogService ==
    {Rpc(Empty, ListProductsResponse), Rpc(GetProductRequest, Product),
     Rpc(SearchProductsRequest, SearchProductsResponse)}
ShippingService == {Rpc(GetQuoteRequest, GetQuoteResponse),
                    Rpc(ShipOrderRequest, ShipOrderResponse)}
CurrencyService == {Rpc(Empty, GetSupportedCurrenciesResponse),
                    Rpc(CurrencyConversionRequest, Money)}
PaymentService == {Rpc(ChargeRequest, ChargeResponse)}
EmailService == {Rpc(SendOrderConfirmationRequest, Empty)}
CheckoutService == {Rpc(PlaceOrderRequest, PlaceOrderResponse)}
AdService == {Rpc(AdRequest, AdResponse)}
FeatureFlagService ==
    {Rpc(GetFlagRequest, GetFlagResponse), Rpc(CreateFlagRequest, CreateFlagResponse),
     Rpc(UpdateFlagRequest, UpdateFlagResponse), Rpc(ListFlagsRequest, ListFlagsResponse),
     Rpc(DeleteFlagRequest, DeleteFlagResponse)}

Services == {CartService, RecommendationService, ProductCatalogService,
             ShippingService, CurrencyService, PaymentService, EmailService,
             CheckoutService, AdService, FeatureFlagService}

\* What a behaviour starts from is an object of its type.
ASSUME ObjectsAssumption ==
    \A service \in Services : \A method \in service :
        \A t \in {method.request, method.response} :
            \A o \in Objects(t) : IsObject(t, o)

---------------------------------------------------------------------------
VARIABLES
    rpc,      \* the method called
    half,     \* the half of the call: "request" or "response"
    object,   \* what its writer starts from
    phase,    \* how far it is
    words,    \* what travels
    edits,    \* liberties taken so far
    got,      \* the message its reader made
    json      \* the message as JSON, and what fromJSON made of that

vars == <<rpc, half, object, phase, words, edits, got, json>>

Type == rpc[half]

\* A request is what the program has at hand: nothing need be set, but a number
\* of the program is an exact integer.  A service's message is whole.
Init ==
    /\ \E service \in Services : rpc \in service
    /\ half \in {"request", "response"}
    /\ \E o \in Objects(Type) :
          IF half = "request" THEN ~Unsafe(Type, o) /\ object = o
                              ELSE object = fromPartial(Type, o)
    /\ phase = "made" /\ words = <<>> /\ edits = 0
    /\ got = <<>> /\ json = <<>>

\* create: the program completes the object before it passes it on.
create ==
    /\ phase = "made" /\ half = "request"
    /\ object # fromPartial(Type, object)
    /\ object' = fromPartial(Type, object)
    /\ UNCHANGED <<rpc, half, phase, words, edits, got, json>>

requestSerialize ==
    /\ phase = "made" /\ half = "request"
    /\ IF Unwritable(Type, object)
       THEN phase' = "unwritable" /\ UNCHANGED words
       ELSE phase' = "written" /\ words' = encode(Type, object)
    /\ UNCHANGED <<rpc, half, object, edits, got, json>>

\* The service's library reads the request; its longs hold every amount.
ServiceReads ==
    /\ phase = "written" /\ half = "request"
    /\ phase' = "read" /\ got' = decode(Type, words)
    /\ UNCHANGED <<rpc, half, object, words, edits, json>>

ServiceWrites ==
    /\ phase = "made" /\ half = "response"
    /\ phase' = "written" /\ words' = encode(Type, object)
    /\ UNCHANGED <<rpc, half, object, edits, got, json>>

Editable == phase = "written" /\ half = "response" /\ edits < MaxEdits
Edit(fields) ==
    /\ words' = FlattenSeq(fields)
    /\ edits' = edits + 1
    /\ UNCHANGED <<rpc, half, object, phase, got, json>>

\* The service's library writes its fields in another order.
ServiceReorders ==
    /\ Editable
    /\ LET fields == Arriving(words)
       IN  \E i \in 1 .. Len(fields) - 1 :
              /\ fields[i][1] # fields[i + 1][1]
              /\ Edit([fields EXCEPT ![i] = fields[i + 1], ![i + 1] = fields[i]])

\* It writes out a default.
ServiceSpellsOut ==
    /\ Editable
    /\ LET fields == Arriving(words)
       IN  \E n \in Plain(Type) :
              /\ ~Type[n].many /\ Hits(Type[n], fields) = <<>>
              /\ Edit(fields \o << <<Tag(Type[n]), 0>> >>)

\* It has a newer schema, with one more number or text in the message.
ServiceExtends ==
    /\ Editable
    /\ LET fields == Arriving(words)
       IN  \E i \in 1 .. Len(fields) + 1 :
           \E field \in {<<8 * NewField, 1>>, <<8 * NewField + 2, 2, 10, 0>>} :
              Edit(InsertAt(fields, i, field))

responseDeserialize ==
    /\ phase = "written" /\ half = "response"
    /\ IF Unreadable(Type, words)
       THEN phase' = "unreadable" /\ UNCHANGED got
       ELSE phase' = "read" /\ got' = decode(Type, words)
    /\ UNCHANGED <<rpc, half, object, words, edits, json>>

\* A message the program has read goes through JSON, and comes back from it.
Stringify ==
    /\ phase = "read" /\ half = "response"
    /\ phase' = "json" /\ json' = toJSON(Type, got)
    /\ UNCHANGED <<rpc, half, object, words, edits, got>>

Parse ==
    /\ phase = "json"
    /\ phase' = "parsed" /\ json' = fromJSON(Type, json)
    /\ UNCHANGED <<rpc, half, object, words, edits, got>>

Next ==
    \/ create \/ requestSerialize \/ ServiceReads
    \/ ServiceWrites \/ ServiceReorders \/ ServiceSpellsOut \/ ServiceExtends
    \/ responseDeserialize \/ Stringify \/ Parse

Spec == Init /\ [][Next]_vars

---------------------------------------------------------------------------
\* What is read is what was meant, whichever way it was written: the reader has
\* the message create would have made of the writer's object, although defaults
\* do not travel, an object passed without create has undefined fields of which
\* encode writes some as zeros, and a service's library may reorder the fields,
\* spell out defaults and add fields of a newer schema.  It survives JSON, too:
\* what toJSON leaves out, fromJSON fills in again, and a message that is set but
\* empty stays set.
ReadAsMeant ==
    /\ phase \in {"read", "json", "parsed"} => got = fromPartial(Type, object)
    /\ phase = "parsed" => json = got

\* A response cannot be read exactly when an amount in it, however deep, is
\* beyond the integers a number holds: of a placed order this means that the
\* order is charged and shipped and its result is lost.
UnreadableIsUnsafe ==
    /\ phase = "unreadable" => Unsafe(Type, object)
    /\ phase = "read" => ~Unsafe(Type, object)
=============================================================================
