------------------------------ MODULE Channels ------------------------------
(***************************************************************************)
(* The channels a person talks through, and the way back of an answer.     *)
(* Telegram and the terminal publish what is written to them, the mail and *)
(* calendar plugins what they find when they poll.  The router answers a   *)
(* message itself and, once more, when its context has been loaded.  Two   *)
(* plugins send an answer back: the formatter by what it reads from the    *)
(* correlation id, the orchestrator by the origin it remembered when the   *)
(* message came in.                                                        *)
(*                                                                         *)
(* A correlation id is <<platform, chat, number>>; one that is not there   *)
(* stands for the id of the envelope, which names no platform.             *)
(***************************************************************************)
EXTENDS Knowledge

CONSTANTS
  Chats,   \* Telegram chats
  Mails,     \* mails that may arrive and entries that may be in the calendar
  MaxChunks  \* bound: the pieces that a long answer is sent to Telegram in

ASSUME MaxChunksAssumption == MaxChunks \in Nat \ {0}

VARIABLES
  sent,      \* per message, where it came from and its correlation id
  mailbox,   \* the mails that are not marked as seen
  calendar,  \* the entries of the calendar
  seen,      \* the entries the calendar plugin has published
  poll,      \* per polling plugin, the items it has fetched and not published
  fetched,   \* the mails that this poll marks as seen
  origins,   \* the orchestrator's origins, by correlation id
  shown      \* history: the bag of the pieces of answers that were shown

channelVars == <<sent, mailbox, calendar, seen, poll, fetched, origins, shown>>

Pollers == {"email", "calendar"}
NoId == <<"none", "none", 0>>

ChannelInit ==
  /\ sent = <<>> /\ mailbox = {} /\ calendar = {} /\ seen = {}
  /\ poll = [p \in Pollers |-> <<>>] /\ fetched = {} /\ origins = <<>> /\ shown = EmptyBag

Item(platform, chat, corr) == [platform |-> platform, chat |-> chat, corr |-> corr]

(* The envelope goes to everyone who subscribes to channel.*.inbound. *)
publish_inbound(item) ==
  /\ inbound < Messages(DOMAIN queue)
  /\ inbound' = inbound + 1
  /\ sent' = Append(sent, item)
  /\ publish_response("channel.inbound", inbound')

-----------------------------------------------------------------------------
(* What is written in a Telegram chat.  The id is made of the chat and the  *)
(* number of the message, which an edited message keeps.                    *)
TelegramMessage(chat, edited) ==
  /\ "telegram" \in DOMAIN queue
  /\ LET before == {i \in DOMAIN sent : sent[i].chat = chat}
         number == IF edited THEN Cardinality(before) ELSE Cardinality(before) + 1
     IN  /\ edited => before # {}
         /\ publish_inbound(Item("telegram", chat, <<"telegram", chat, number>>))
  /\ UNCHANGED <<db, jobs, next, faults, plugin, loader, contexts, recent, feedback,
                 mailbox, calendar, seen, poll, fetched, origins, shown>>

TerminalLine ==
  /\ "cli" \in DOMAIN queue
  /\ publish_inbound(Item("cli", "cli-session", NoId))
  /\ UNCHANGED <<db, jobs, next, faults, plugin, loader, contexts, recent, feedback,
                 mailbox, calendar, seen, poll, fetched, origins, shown>>

-----------------------------------------------------------------------------
(* External: a mail arrives, an entry is made. *)
MailArrives(mail) ==
  /\ "email" \in DOMAIN queue /\ mail \notin mailbox \cup fetched
  /\ \A i \in DOMAIN sent : sent[i].chat # mail
  /\ mailbox' = mailbox \cup {mail}
  /\ UNCHANGED <<knowledgeVars, sent, calendar, seen, poll, fetched, origins, shown>>

EntryMade(entry) ==
  /\ "calendar" \in DOMAIN queue /\ entry \notin calendar
  /\ calendar' = calendar \cup {entry}
  /\ UNCHANGED <<knowledgeVars, sent, mailbox, seen, poll, fetched, origins, shown>>

(* A poll fetches the unseen mails; they stay unseen until all of them have *)
(* been published.                                                          *)
PollMail ==
  /\ mailbox # {} /\ fetched = {}
  /\ fetched' = mailbox
  /\ poll' = [poll EXCEPT !["email"] = SetToSeq(mailbox)]
  /\ UNCHANGED <<knowledgeVars, sent, mailbox, calendar, seen, origins, shown>>

PublishMail ==
  LET mail == Head(poll["email"])
  IN  /\ poll["email"] # <<>>
      /\ \/ /\ publish_inbound(Item("email", mail, NoId)) /\ NoFault
            /\ poll' = [poll EXCEPT !["email"] = Tail(@)]
            /\ UNCHANGED fetched
         \/ /\ Fault
            /\ poll' = [poll EXCEPT !["email"] = <<>>] /\ fetched' = {}
            /\ UNCHANGED <<inbound, sent, queue>>
      /\ UNCHANGED <<db, jobs, next, plugin, loader, contexts, recent, feedback,
                     mailbox, calendar, seen, origins, shown>>

(* Without the flag the next poll finds the mails again. *)
MarkSeen ==
  /\ fetched # {} /\ poll["email"] = <<>>
  /\ fetched' = {}
  /\ \/ mailbox' = mailbox \ fetched /\ NoFault
     \/ UNCHANGED mailbox /\ Fault
  /\ UNCHANGED <<db, jobs, queue, next, inbound, plugin, loader, contexts, recent, feedback,
                 sent, calendar, seen, poll, origins, shown>>

PollCalendar ==
  /\ calendar \ seen # {} /\ poll["calendar"] = <<>>
  /\ poll' = [poll EXCEPT !["calendar"] = SetToSeq(calendar \ seen)]
  /\ UNCHANGED <<knowledgeVars, sent, mailbox, calendar, seen, fetched, origins, shown>>

(* An entry is remembered once it is published; an error ends the poll. *)
PublishEntry ==
  LET entry == Head(poll["calendar"])
  IN  /\ poll["calendar"] # <<>>
      /\ \/ /\ publish_inbound(Item("calendar", entry, NoId)) /\ NoFault
            /\ seen' = seen \cup {entry}
            /\ poll' = [poll EXCEPT !["calendar"] = Tail(@)]
         \/ /\ Fault
            /\ poll' = [poll EXCEPT !["calendar"] = <<>>]
            /\ UNCHANGED <<inbound, sent, queue, seen>>
      /\ UNCHANGED <<db, jobs, next, plugin, loader, contexts, recent, feedback,
                     mailbox, calendar, fetched, origins, shown>>

-----------------------------------------------------------------------------
(* The id of an answer: its message's, or that of the envelope the router   *)
(* was given, which for a context is not the message's own.                 *)
AnswerId(ev) ==
  LET corr == sent[ev.msg].corr
  IN  IF corr # NoId THEN corr ELSE <<"none", ev.via, ev.msg>>

(* The router's other path: a message as it came in. *)
RouterAnswersInbound ==
  /\ Has("llm-router")
  /\ LET ev == [msg |-> Head(queue["llm-router"]), via |-> "inbound"]
         taken == [queue EXCEPT !["llm-router"] = Tail(@)]
     IN  \/ /\ queue' = [p \in DOMAIN taken |->
                           IF p \in Subscribed("llm.response") THEN Append(taken[p], ev) ELSE taken[p]]
            /\ NoFault
         \/ queue' = taken /\ Fault
  /\ UNCHANGED <<db, jobs, next, inbound, plugin, loader, contexts, recent, feedback, channelVars>>

(* A trigger: its origin is kept for the answer.  The event itself is       *)
(* published again for the workflow's pipeline, which has no subscriber.    *)
RememberOrigin ==
  /\ Takes("orchestrator")
  /\ LET msg == Head(queue["orchestrator"])
         id == AnswerId([msg |-> msg, via |-> "inbound"])
         origin == [platform |-> sent[msg].platform, chat |-> sent[msg].chat]
     IN  origins' = [k \in DOMAIN origins \cup {id} |-> IF k = id THEN origin ELSE origins[k]]
  /\ UNCHANGED <<db, jobs, next, faults, inbound, plugin, loader, contexts, recent, feedback,
                 sent, mailbox, calendar, seen, poll, fetched, shown>>

(* A plugin takes an answer and publishes what it makes of it to            *)
(* channel.<platform>.outbound, the subject of that platform's plugin,      *)
(* which may not be running.                                                *)
Forwards(p, channel, out) ==
  LET taken == [queue EXCEPT ![p] = Tail(@)]
  IN  \/ /\ queue' = [q \in DOMAIN taken |->
                        IF q \in ChannelPlugins /\ q = channel THEN Append(taken[q], out) ELSE taken[q]]
         /\ NoFault
      \/ queue' = taken /\ Fault

Outbound(ev, payload, chat) == [msg |-> ev.msg, via |-> ev.via, payload |-> payload, chat |-> chat]

RouteBy(payload) ==
  /\ Has("orchestrator-responses")
  /\ LET ev == Head(queue["orchestrator-responses"])
         id == AnswerId(ev)
     IN  IF id \in DOMAIN origins
         THEN /\ origins' = [k \in DOMAIN origins \ {id} |-> origins[k]]
              /\ Forwards("orchestrator-responses", origins[id].platform,
                          Outbound(ev, payload, origins[id].chat))
         ELSE Takes("orchestrator-responses") /\ UNCHANGED <<origins, faults>>
  /\ UNCHANGED <<db, jobs, next, inbound, plugin, loader, contexts, recent, feedback,
                 sent, mailbox, calendar, seen, poll, fetched, shown>>

\* Mutant: the orchestrator formats the answer for the channel as well.
RouteFormatted == RouteBy("outbound")

(* An answer without an origin of its own goes to the channel remembered    *)
(* for it, as the LlmResponse it is.                                        *)
RouteOrphan == RouteBy("llm")

(* Telegram, the terminal and the web are platforms; all else is the        *)
(* terminal.                                                                *)
from_correlation_id(id) ==
  IF id[1] \in {"telegram", "cli", "web"} THEN [platform |-> id[1], chat |-> id[2]]
  ELSE [platform |-> "cli", chat |-> "default"]

(* The answers of the router have no origin, and never only tool calls. *)
extract_channel_hint(ev) == from_correlation_id(AnswerId(ev))

handle_llm_response ==
  /\ Has("response-formatter")
  /\ LET ev == Head(queue["response-formatter"])
         hint == extract_channel_hint(ev)
     IN  Forwards("response-formatter", hint.platform, Outbound(ev, "outbound", hint.chat))
  /\ UNCHANGED <<db, jobs, next, inbound, plugin, loader, contexts, recent, feedback, channelVars>>

(* An answer of some pieces: per piece, the forms in which it is shown. *)
split_message(forms) == UNION {[1..n -> forms] : n \in 1..MaxChunks}

(* A channel shows what it can read as ChannelOutbound: an LlmResponse is   *)
(* not.  What is shown of each piece depends on whether a request fails.    *)
Shows(p, usual, failed) ==
  /\ Takes(p)
  /\ LET out == Head(queue[p])
         Display(pieces) == shown' = shown (+) SetToBag(
           UNION {{[on |-> p, what |-> out, chunk |-> i, form |-> f] : f \in pieces[i]} : i \in DOMAIN pieces})
     IN  \/ out.payload = "outbound" /\ NoFault /\ \E pieces \in usual : Display(pieces)
         \/ out.payload = "outbound" /\ Fault /\ \E pieces \in failed : Display(pieces)
         \/ out.payload # "outbound" /\ UNCHANGED shown /\ NoFault
  /\ UNCHANGED <<db, jobs, next, inbound, plugin, loader, contexts, recent, feedback,
                 sent, mailbox, calendar, seen, poll, fetched, origins>>

(* send_with_fallback: Telegram shows the formatted text or, when it        *)
(* rejects the formatting, the plain one.  It may show both, as the plain   *)
(* one is sent after any error, also if Telegram had taken the first; and   *)
(* neither, as an error of the second is only logged: the next piece goes.  *)
TelegramShows ==
  Shows("telegram", split_message({{"markdown"}, {"plain"}}), split_message(SUBSET {"markdown", "plain"}))

TerminalShows == Shows("cli", {<<{"plain"}>>}, {})

(* The mail server may refuse it. *)
MailSends == Shows("email", {<<{"plain"}>>}, {<<{}>>})

-----------------------------------------------------------------------------
RouteStep ==
  \/ RouterAnswersInbound \/ RememberOrigin \/ RouteOrphan \/ handle_llm_response
  \/ TelegramShows \/ TerminalShows \/ MailSends

ChannelStep ==
  \/ \E chat \in Chats, edited \in BOOLEAN : TelegramMessage(chat, edited)
  \/ TerminalLine
  \/ \E mail \in Mails : MailArrives(mail) \/ EntryMade(mail)
  \/ PollMail \/ PublishMail \/ MarkSeen \/ PollCalendar \/ PublishEntry
  \/ RouteStep

(* An answer that two plugins route independently still goes one way, to    *)
(* where its message came from: to the Telegram chat it was written in,     *)
(* whatever was written, edited or answered in other chats meanwhile, and   *)
(* otherwise to the terminal, never to somebody's chat or mail.  The        *)
(* terminal shows it once; in Telegram each piece is there once formatted   *)
(* and once plain at most, from one outbound message, even where Telegram's *)
(* answer to the first request was lost.                                    *)
AnswersGoHome ==
  /\ \A e \in BagToSet(shown) :
       LET from == sent[e.what.msg]
       IN  IF from.platform = "telegram"
           THEN e.on = "telegram" /\ e.what.chat = from.chat
           ELSE e.on = "cli"
  /\ \A e, f \in BagToSet(shown) :
       /\ shown[e] = 1
       /\ e.what.msg = f.what.msg /\ e.what.via = f.what.via =>
            e.on = f.on /\ e.what = f.what /\ (e = f \/ e.on = "telegram")
=============================================================================
