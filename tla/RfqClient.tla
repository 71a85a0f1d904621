------------------------------- MODULE RfqClient -------------------------------
(***************************************************************************)
(* The SDK's client of the router (packages/sdk/.../RFQClient.ts): its     *)
(* WebSocket with the reconnections, the requests it keeps, and the        *)
(* executions that wait for the chain.  What the router sends is external: *)
(* any quote or fill, over any socket that is open.                        *)
(***************************************************************************)
EXTENDS Integers, FiniteSets, Null

CONSTANTS
    Sockets,                \* bound: WebSockets, open or still to be, at a time
    Rfqs, Quotes,
    WithWallet,             \* the quotes that carry the maker's accounts
    Executions,             \* bound: calls of executeOption
    MaxReconnectAttempts

RfqRecord == [status : {"open", "cancelled", "filled"}, quotes : SUBSET Quotes,
              fill : Quotes \cup {None}]

ASSUME ClientOK ==
    /\ IsFiniteSet(Sockets) /\ WithWallet \subseteq Quotes /\ MaxReconnectAttempts \in Nat
    /\ None \notin RfqRecord

VARIABLES
    socket,             \* "free", "opening", "open" or "closing"
    wsConnection, isConnected, reconnectAttempts,
    timers,             \* reconnections that wait for their delay
    activeRFQs,         \* of each request, an RfqRecord or None
    execution,          \* None or an executeOption: [rfq, quote, step]
    onChain             \* history: executions the chain processed

connVars == <<socket, wsConnection, isConnected, reconnectAttempts, timers>>
tradeVars == <<activeRFQs, execution, onChain>>
clientVars == <<connVars, tradeVars>>

ClientInit ==
    /\ socket = [s \in Sockets |-> "free"]
    /\ wsConnection = None /\ isConnected = FALSE
    /\ reconnectAttempts = 0 /\ timers = 0
    /\ activeRFQs = [r \in Rfqs |-> None]
    /\ execution = [x \in Executions |-> None]
    /\ onChain = {}

-----------------------------------------------------------------------------
(* A new WebSocket takes the place of the one there is, which stays open.  *)
Dial(s) ==
    /\ socket[s] = "free"
    /\ socket' = [socket EXCEPT ![s] = "opening"]
    /\ wsConnection' = s

Connect(s) ==
    /\ Cardinality({t \in Sockets : socket[t] # "free"}) + timers < Cardinality(Sockets)
    /\ Dial(s)
    /\ UNCHANGED <<isConnected, reconnectAttempts, timers, tradeVars>>

SocketOpens(s) ==
    /\ socket[s] = "opening"
    /\ socket' = [socket EXCEPT ![s] = "open"]
    /\ isConnected' = TRUE /\ reconnectAttempts' = 0
    /\ UNCHANGED <<wsConnection, timers, tradeVars>>

(* An attempt that fails, or a socket the other side closes. *)
SocketFails(s) ==
    /\ socket[s] \in {"opening", "open"}
    /\ socket' = [socket EXCEPT ![s] = "closing"]
    /\ UNCHANGED <<wsConnection, isConnected, reconnectAttempts, timers, tradeVars>>

ClosedWhenConnected(s) ==       \* mutant: a failed attempt is not followed by another
    /\ socket[s] = "closing"
    /\ socket' = [socket EXCEPT ![s] = "free"]
    /\ isConnected' = FALSE
    /\ timers' = IF isConnected THEN timers + 1 ELSE timers
    /\ reconnectAttempts' = IF isConnected THEN reconnectAttempts + 1 ELSE reconnectAttempts
    /\ UNCHANGED <<wsConnection, tradeVars>>

(* The 'close' handler of any socket, the current one or not. *)
SocketClosed(s) ==
    /\ socket[s] = "closing"
    /\ socket' = [socket EXCEPT ![s] = "free"]
    /\ isConnected' = FALSE
    /\ IF reconnectAttempts >= MaxReconnectAttempts
       THEN UNCHANGED <<reconnectAttempts, timers>>
       ELSE /\ reconnectAttempts' = reconnectAttempts + 1
            /\ timers' = timers + 1
    /\ UNCHANGED <<wsConnection, tradeVars>>

TimerFires(s) ==
    /\ timers > 0
    /\ Dial(s)
    /\ timers' = timers - 1
    /\ UNCHANGED <<isConnected, reconnectAttempts, tradeVars>>

(* The socket's 'close' event still comes. *)
Disconnect ==
    /\ wsConnection # None
    /\ socket' = IF socket[wsConnection] = "free" THEN socket
                 ELSE [socket EXCEPT ![wsConnection] = "closing"]
    /\ wsConnection' = None /\ isConnected' = FALSE
    /\ UNCHANGED <<reconnectAttempts, timers, tradeVars>>

-----------------------------------------------------------------------------
(* The record is kept also when the send throws. *)
CreateRFQ(r) ==
    /\ wsConnection # None /\ isConnected
    /\ activeRFQs[r] = None
    /\ activeRFQs' = [activeRFQs EXCEPT ![r] = [status |-> "open", quotes |-> {}, fill |-> None]]
    /\ UNCHANGED <<connVars, execution, onChain>>

Receives == \E s \in Sockets : socket[s] = "open"

QuoteReceived(r, q) ==
    /\ Receives
    /\ activeRFQs[r] # None /\ activeRFQs[r].status = "open"
    /\ activeRFQs' = [activeRFQs EXCEPT ![r].quotes = @ \cup {q}]
    /\ UNCHANGED <<connVars, execution, onChain>>

(* Whatever the status was. *)
FillReceived(r) ==
    /\ Receives
    /\ activeRFQs[r] # None
    /\ activeRFQs' = [activeRFQs EXCEPT ![r].status = "filled"]
    /\ UNCHANGED <<connVars, execution, onChain>>

CancelAnyStatus(r) ==           \* mutant: the status is not looked at
    /\ activeRFQs[r] # None
    /\ activeRFQs' = [activeRFQs EXCEPT ![r].status = "cancelled"]
    /\ UNCHANGED <<connVars, execution, onChain>>

CancelRFQ(r) ==
    /\ activeRFQs[r] # None /\ activeRFQs[r].status = "open"
    /\ activeRFQs' = [activeRFQs EXCEPT ![r].status = "cancelled"]
    /\ UNCHANGED <<connVars, execution, onChain>>

(* executeOption asks for no status and no expiry of the quote. *)
ExecuteOption(x, r, q) ==
    /\ execution[x] = None
    /\ activeRFQs[r] # None /\ q \in activeRFQs[r].quotes
    /\ execution' = [execution EXCEPT ![x] = [rfq |-> r, quote |-> q, step |-> "building"]]
    /\ UNCHANGED <<connVars, activeRFQs, onChain>>

AtStep(x, step) == execution[x] # None /\ execution[x].step = step

(* buildExecutionTransaction, the wallet's signature and the send: any of  *)
(* them may throw, and without the maker's accounts the first one does.    *)
Sent(x) ==
    /\ AtStep(x, "building") /\ execution[x].quote \in WithWallet
    /\ execution' = [execution EXCEPT ![x].step = "sent"]
    /\ UNCHANGED <<connVars, activeRFQs, onChain>>

(* The exposure and the premium are one transaction. *)
Processed(x) ==
    /\ AtStep(x, "sent")
    /\ execution' = [execution EXCEPT ![x].step = "processed"]
    /\ onChain' = onChain \cup {[rfq |-> execution[x].rfq, quote |-> execution[x].quote]}
    /\ UNCHANGED <<connVars, activeRFQs>>

FilledWhenSent(x) ==            \* mutant: the confirmation is not awaited
    /\ AtStep(x, "sent") \/ AtStep(x, "processed")
    /\ activeRFQs' = [activeRFQs EXCEPT ![execution[x].rfq] =
           [@ EXCEPT !.status = "filled", !.fill = execution[x].quote]]
    /\ execution' = [execution EXCEPT ![x].step = "done"]
    /\ UNCHANGED <<connVars, onChain>>

(* confirmTransaction returns also for a transaction that failed. *)
Confirmed(x) ==
    /\ AtStep(x, "processed")
    /\ activeRFQs' = [activeRFQs EXCEPT ![execution[x].rfq] =
           [@ EXCEPT !.status = "filled", !.fill = execution[x].quote]]
    /\ execution' = [execution EXCEPT ![x].step = "done"]
    /\ UNCHANGED <<connVars, onChain>>

ExecutionThrows(x) ==
    /\ execution[x] # None /\ execution[x].step # "done"
    /\ execution' = [execution EXCEPT ![x].step = "done"]
    /\ UNCHANGED <<connVars, activeRFQs, onChain>>

-----------------------------------------------------------------------------
ConnNext ==
    \/ Disconnect
    \/ \E s \in Sockets :
         Connect(s) \/ SocketOpens(s) \/ SocketFails(s) \/ SocketClosed(s) \/ TimerFires(s)

TradeNext ==
    \/ \E r \in Rfqs :
         \/ CreateRFQ(r) \/ FillReceived(r) \/ CancelRFQ(r)
         \/ \E q \in Quotes :
              QuoteReceived(r, q) \/ \E x \in Executions : ExecuteOption(x, r, q)
    \/ \E x \in Executions : Sent(x) \/ Processed(x) \/ Confirmed(x) \/ ExecutionThrows(x)

ClientNext == ConnNext \/ TradeNext

(* A socket that opens does or fails, a closed one is told, timers fire. *)
ClientFairness ==
    /\ \A s \in Sockets :
         /\ WF_clientVars(SocketOpens(s) \/ (socket[s] = "opening" /\ SocketFails(s)))
         /\ WF_clientVars(SocketClosed(s))
    /\ WF_clientVars(\E s \in Sockets : TimerFires(s))

ClientSpec == ClientInit /\ [][ClientNext]_clientVars /\ ClientFairness

-----------------------------------------------------------------------------
(* A fill the client records is of a quote of its request, which came      *)
(* while that was open, and the chain has processed its transaction,       *)
(* successfully or not: whatever fill messages, cancellations, losses and  *)
(* executions of the same request come in between. A status "filled" alone *)
(* promises none of it: a fill message sets it too.                        *)
FillProcessed ==
    \A r \in Rfqs : activeRFQs[r] # None /\ activeRFQs[r].fill # None =>
        /\ activeRFQs[r].status = "filled"
        /\ activeRFQs[r].fill \in activeRFQs[r].quotes
        /\ [rfq |-> r, quote |-> activeRFQs[r].fill] \in onChain

(* A connection that was lost is there again, or all attempts were made:   *)
(* also when attempts fail, sockets overlap or the user connects as well.  *)
Reconnects ==
    ~isConnected /\ reconnectAttempts > 0 ~>
        isConnected \/ reconnectAttempts = MaxReconnectAttempts
=============================================================================
