----------------------------- MODULE MarketMakers -----------------------------
(***************************************************************************)
(* The market makers of this repository, mock-mm.js (multi-mm.js starts    *)
(* several) and rust-mm, at the other end of the router's sockets: they    *)
(* quote what is broadcast to them, reconnect when a socket is gone, and   *)
(* transfer the premium to the vault when they are told "fill".  Quotes    *)
(* and socket losses take time to reach the router, and the transfer is    *)
(* several awaited steps.                                                  *)
(***************************************************************************)
EXTENDS RfqRouter

CONSTANTS
    MockMakers,    \* the makers that are mock-mm.js processes; others are rust-mm
    Funds          \* USDC each maker's wallet starts with

ASSUME MakersOK == MockMakers \subseteq Makers /\ Funds \in Nat

VARIABLES
    link,          \* the process's socket, None while it is disconnected
    known,         \* rfqVaults, rfq_map: requests whose asset it remembers
    drafts,        \* quotes whose timer or task has not sent them
    sent,          \* quotes on their way to the router
    handled,       \* messages the processes have handled
    transfers,     \* premium transfers begun, and how far each of them is
    usdc,          \* the makers' USDC
    restarted      \* makers that crashed and started again

botVars == <<link, known, drafts, sent, handled, transfers, usdc, restarted>>

MInit ==
    /\ Init
    /\ link = [m \in Makers |-> None]
    /\ known = [m \in Makers |-> {}]
    /\ drafts = {} /\ sent = {} /\ handled = {} /\ transfers = {}
    /\ usdc = [m \in Makers |-> Funds]
    /\ restarted = {}

Unused == {c \in Connections : holder[c] = None}

(* connect, and the reconnect timers: one socket at a time, a new one. *)
BotConnect(m) ==
    /\ link[m] = None /\ Unused # {}
    /\ LET c == CHOOSE x \in Unused : TRUE
       IN  Connect(c, m) /\ link' = [link EXCEPT ![m] = c]
    /\ UNCHANGED <<known, drafts, sent, handled, transfers, usdc, restarted>>

Inbox(m) == {msg \in received \ handled : msg.to = link[m]}

(* The close event comes after the messages that arrived before it. *)
BotClosed(m) ==
    /\ link[m] \notin reachable \cup {None}
    /\ Inbox(m) = {}
    /\ link' = [link EXCEPT ![m] = None]
    /\ UNCHANGED <<vars, known, drafts, sent, handled, transfers, usdc, restarted>>

(* The process dies with what it remembers and starts again; a transfer    *)
(* that was already sent is out of its hands.                              *)
BotRestart(m) ==
    /\ link[m] \in reachable
    /\ Lose(link[m])
    /\ link' = [link EXCEPT ![m] = None]
    /\ known' = [known EXCEPT ![m] = {}]
    /\ drafts' = {d \in drafts : d.maker # m}
    /\ transfers' = {t \in transfers : t.maker # m \/ t.step # "checking"}
    /\ restarted' = restarted \cup {m}
    /\ UNCHANGED <<sent, handled, usdc>>

-----------------------------------------------------------------------------
(* handleMessage, connect_to_router: messages are handled in order, so the *)
(* broadcast of a request before its fill.                                 *)
Handles(m, msg, kind) ==
    /\ msg \in Inbox(m) /\ msg.kind = kind
    /\ kind # "rfq" =>
         \A other \in Inbox(m) : other.kind = "rfq" => other.rfq # msg.rfq
    /\ handled' = handled \cup {msg}

(* Makers do not quote every request; rust-mm remembers those it skips. *)
BotSkips(m, msg) ==
    /\ Handles(m, msg, "rfq")
    /\ known' = IF m \in MockMakers THEN known ELSE [known EXCEPT ![m] = @ \cup {msg.rfq}]
    /\ UNCHANGED <<vars, link, drafts, sent, transfers, usdc, restarted>>

BotPricesForgets(m, msg, premium) ==    \* mutant: the asset is not remembered
    /\ Handles(m, msg, "rfq")
    /\ drafts' = drafts \cup
         {[maker |-> m, rfq |-> msg.rfq, premium |-> premium, via |-> link[m]]}
    /\ UNCHANGED <<vars, link, known, sent, transfers, usdc, restarted>>

BotPrices(m, msg, premium) ==
    /\ Handles(m, msg, "rfq")
    /\ known' = [known EXCEPT ![m] = @ \cup {msg.rfq}]
    /\ drafts' = drafts \cup
         {[maker |-> m, rfq |-> msg.rfq, premium |-> premium, via |-> link[m]]}
    /\ UNCHANGED <<vars, link, sent, transfers, usdc, restarted>>

(* mock-mm.js sends over the socket it has when its timer fires, rust-mm   *)
(* over the channel of the connection the request came from.               *)
CanSend(d) == link[d.maker] # None /\ (d.maker \in MockMakers \/ d.via = link[d.maker])

BotSendsQuote(d) ==
    /\ d \in drafts
    /\ drafts' = drafts \ {d}
    /\ sent' = IF CanSend(d)
               THEN sent \cup {[via |-> link[d.maker], rfq |-> d.rfq, premium |-> d.premium]}
               ELSE sent
    /\ UNCHANGED <<vars, link, known, handled, transfers, usdc, restarted>>

QuoteArrives(q) ==
    /\ q \in sent /\ sent' = sent \ {q}
    /\ \/ \E l \in Lifetimes : Quote(q.via, q.rfq, q.premium, l)
       \/ LateQuote(q.via, q.rfq)
       \/ (q.via \in attached => ~OpenToQuotes(q.rfq)) /\ UNCHANGED vars
    /\ UNCHANGED <<link, known, drafts, handled, transfers, usdc, restarted>>

QuoteLost(q) ==
    /\ q \in sent /\ q.via \notin reachable
    /\ sent' = sent \ {q}
    /\ UNCHANGED <<vars, link, known, drafts, handled, transfers, usdc, restarted>>

-----------------------------------------------------------------------------
(* rust-mm pays only for a request it remembers. *)
PaysFor(m, r) == m \in MockMakers \/ r \in known[m]

(* mock-mm.js pays a request it does not remember to a default vault. *)
BotFilled(m, msg) ==
    /\ Handles(m, msg, "fill")
    /\ transfers' = transfers \cup
         (IF PaysFor(m, msg.rfq)
          THEN {[maker |-> m, rfq |-> msg.rfq, amount |-> filled[msg.rfq].premium,
                 vault |-> IF msg.rfq \in known[m] THEN "underlying" ELSE "default",
                 step |-> IF m \in MockMakers THEN "checking" ELSE "sent"]}
          ELSE {})
    /\ known' = [known EXCEPT ![m] = @ \ {msg.rfq}]
    /\ UNCHANGED <<vars, link, drafts, sent, usdc, restarted>>

BotLostPays(m, msg) ==                  \* mutant: "rfq_lost" is taken for "fill"
    /\ Handles(m, msg, "rfq_lost")
    /\ transfers' = transfers \cup
         {[maker |-> m, rfq |-> msg.rfq, amount |-> filled[msg.rfq].premium,
           vault |-> "underlying", step |-> "sent"]}
    /\ UNCHANGED <<vars, link, known, drafts, sent, usdc, restarted>>

BotLost(m, msg) ==
    /\ Handles(m, msg, "rfq_lost")
    /\ UNCHANGED <<vars, link, known, drafts, sent, transfers, usdc, restarted>>

Becomes(t, step) == (transfers \ {t}) \cup {[t EXCEPT !.step = step]}

(* transferPremiumToVault reads the balance, then sends. *)
CheckBalance(t) ==
    /\ t \in transfers /\ t.step = "checking"
    /\ transfers' = Becomes(t, IF usdc[t.maker] < t.amount THEN "short" ELSE "sent")
    /\ UNCHANGED <<vars, link, known, drafts, sent, handled, usdc, restarted>>

(* The token program moves the amount or refuses. *)
TransferLands(t) ==
    /\ t \in transfers /\ t.step = "sent"
    /\ IF usdc[t.maker] < t.amount
       THEN transfers' = Becomes(t, "short") /\ UNCHANGED usdc
       ELSE /\ transfers' = Becomes(t, "paid")
            /\ usdc' = [usdc EXCEPT ![t.maker] = @ - t.amount]
    /\ UNCHANGED <<vars, link, known, drafts, sent, handled, restarted>>

(* A call of the transfer throws, or its transaction never lands: the       *)
(* error is logged and nothing is tried again.  (A send or a confirmation   *)
(* that throws although the transaction lands is TransferLands.)            *)
TransferFails(t) ==
    /\ t \in transfers /\ t.step \in {"checking", "sent"}
    /\ transfers' = Becomes(t, "failed")
    /\ UNCHANGED <<vars, link, known, drafts, sent, handled, usdc, restarted>>

(* What else the wallet pays, which multi-mm.js shares between makers; of  *)
(* interest while a transfer is under way. *)
Spend(m) ==
    /\ \E t \in transfers : t.maker = m /\ t.step \in {"checking", "sent"}
    /\ usdc[m] > 0
    /\ usdc' = [usdc EXCEPT ![m] = 0]
    /\ UNCHANGED <<vars, link, known, drafts, sent, handled, transfers, restarted>>

-----------------------------------------------------------------------------
BotNext ==
    \/ \E m \in Makers :
         \/ BotConnect(m)
         \/ BotClosed(m)
         \/ BotRestart(m)
         \/ Spend(m)
         \/ \E msg \in received :
              \/ BotSkips(m, msg)
              \/ \E p \in Prices : BotPrices(m, msg, p)
              \/ BotFilled(m, msg)
              \/ BotLost(m, msg)
    \/ \E d \in drafts : BotSendsQuote(d)
    \/ \E q \in sent : QuoteArrives(q) \/ QuoteLost(q)
    \/ \E t \in transfers : CheckBalance(t) \/ TransferLands(t) \/ TransferFails(t)

RouterNext ==
    /\ \/ \E c \in Connections : Lose(c) \/ Close(c)
       \/ \E r \in Rfqs :
            \/ \E f \in Floors, n \in Quorums, t \in QuoteTimeouts : CreateRfq(r, f, n, t)
            \/ FillExpired(r) \/ FillNoneValid(r) \/ FillBest(r)
       \/ Cleanup \/ Tick
    /\ UNCHANGED botVars

MNext == BotNext \/ RouterNext

(* Messages that arrived are handled, and transfers that began go on, land  *)
(* or fail.                                                                *)
MFairness ==
    /\ \A m \in Makers :
         WF_<<vars, botVars>>(\E msg \in received :
             \/ BotSkips(m, msg) \/ \E p \in Prices : BotPrices(m, msg, p)
             \/ BotFilled(m, msg) \/ BotLost(m, msg))
    /\ WF_<<vars, botVars>>(\E t \in transfers :
             CheckBalance(t) \/ TransferLands(t) \/ TransferFails(t))

MSpec == MInit /\ [][MNext]_<<vars, botVars>> /\ MFairness

-----------------------------------------------------------------------------
(* A premium is paid at most once for a request, by the maker the router   *)
(* awarded it to and in the amount awarded, and into the vault the request *)
(* was for unless that maker's process has been restarted; through lost    *)
(* sockets, late quotes and restarts.                                      *)
PaidAsAwarded ==
    \A t \in transfers :
        /\ filled[t.rfq] = [maker |-> t.maker, premium |-> t.amount]
        /\ \A u \in transfers : u.rfq = t.rfq => u = t
        /\ t.vault = "default" => t.maker \in MockMakers \cap restarted

LostSocket(m) == \E c \in Connections : holder[c] = m /\ c \notin reachable

(* The router sends a fill once and the maker tries its transfer once.     *)
(* When the winner has not lost a socket, its transfer ends: the premium   *)
(* is paid, the maker is short of USDC, or a call of the transfer or its   *)
(* transaction failed, and then it stays unpaid.                           *)
FillsAttempted ==
    \A r \in Rfqs :
        filled[r] # None ~>
            \/ \E t \in transfers : t.rfq = r /\ t.step \in {"paid", "short", "failed"}
            \/ filled[r] # None /\ LostSocket(filled[r].maker)

(* The wallet in a quote, which the keeper relies on, is that of the       *)
(* maker's own connection, and missing only once the maker lost a socket.  *)
QuotesCarryWallets ==
    \A r \in Rfqs : \A m \in DOMAIN quotes[r] :
        LET w == quotes[r][m].makerWallet
        IN  IF w = None THEN LostSocket(m) ELSE holder[w] = m

(* mock-mm.js: "On fill, transfers USDC premium to vault's premium         *)
(* account", the vault of the asset tracked for the request.               *)
PaidToOwnVault == \A t \in transfers : t.vault = "underlying"
=============================================================================
