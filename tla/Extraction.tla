----------------------------- MODULE Extraction -----------------------------
(***************************************************************************)
(* One line of a batch's results, from the model's words to the row in     *)
(* events: decodeEntry, its helpers, and the upsert that picks the review  *)
(* status.  The model answers in free text, so every field is checked      *)
(* before it is believed; what the decoder lets through at high confidence *)
(* goes to the calendar without anybody looking at it.                     *)
(*                                                                         *)
(* What a run does with the result (retry, stamp, venue) is the module     *)
(* Processing; here one post is extracted again and again, as after edits. *)
(***************************************************************************)
EXTENDS Integers, SequencesExt

CONSTANTS
  Lines,      \* the result lines that may arrive
  NoPrice     \* a price that is null

(* What a text is made of.  "open" and "close" are the two halves of the   *)
(* JSON object, between which it may break over lines.                     *)
Token == {"fence", "lang", "nl", "open", "close", "prose"}

(* Raw dates: null, a string that is empty or says null, another format, a *)
(* day, a day with a time.                                                 *)
RawDate == {"null", "empty", "garbage", "day", "time"}

(* Raw words of both lists, and what is left of them when they are trimmed,*)
(* lowercased (a category) or rid of their hash (a tag).                   *)
Word == {"music", "MUSIC ", "art", "opera", "#opera", "#", " "}
CategoryId == {"music", "art"}
TagWord == {"music", "MUSIC", "art", "opera"}

Payload == [isEvent : BOOLEAN, confidence : {"high", " High", "medium", "sure"},
            start : RawDate, startFlag : BOOLEAN, end : RawDate, endFlag : BOOLEAN,
            price : Int \cup {NoPrice}, categories : Seq(Word), tags : Seq(Word)]

Line == [type : {"succeeded"}, text : Seq(Token), payload : Payload]
          \cup [type : {"errored", "canceled", "expired", "unknown"}]

(* Stated as ASSUMEs by the module that instantiates this one.             *)
LineAssumption == Lines \subseteq Line
PriceAssumption == NoPrice \notin Int

VARIABLES
  line,     \* the line applied last
  result,   \* what decodeEntry made of it
  event,    \* the events row without its review status
  review    \* review_status

vars == <<line, result, event, review>>

Date == {"none", "day", "time"}
Extracted == [isEvent : BOOLEAN, confidence : {"high", "medium", "low"},
              start : Date, startKnown : BOOLEAN, end : Date, endKnown : BOOLEAN,
              price : Nat \cup {NoPrice}, categories : Seq(CategoryId), tags : Seq(TagWord)]
NoLine == [type |-> "none"]
Error == [error |-> TRUE]
NoEvent == [absent |-> TRUE]

TypeOK ==
  /\ line \in Lines \cup {NoLine}
  /\ result \in Extracted \cup {Error}
  /\ event \in Extracted \cup {NoEvent}
  /\ review \in {"none", "auto_published", "pending", "approved", "rejected"}
  /\ event = NoEvent <=> review = "none"

Init == line = NoLine /\ result = Error /\ event = NoEvent /\ review = "none"

-----------------------------------------------------------------------------
(* The text.                                                               *)

(* strings.TrimSpace: line breaks are the only blanks here.                *)
Trim(t) ==
  LET ink == {i \in DOMAIN t : t[i] # "nl"}
  IN IF ink = {} THEN <<>> ELSE SubSeq(t, Min(ink), Max(ink))

(* What follows the first line break, if there is one: the language goes.  *)
Rest(t) ==
  LET breaks == {i \in DOMAIN t : t[i] = "nl"}
  IN IF breaks = {} THEN t ELSE SubSeq(t, Min(breaks) + 1, Len(t))

TrimFence(t) == IF t # <<>> /\ Last(t) = "fence" THEN Front(t) ELSE t

IsFenced(t) == t # <<>> /\ t[1] = "fence"
StripOpening(text) == IF IsFenced(Trim(text)) THEN Trim(Rest(Tail(Trim(text)))) ELSE Trim(text)
stripCodeFence(text) ==
  IF IsFenced(Trim(text)) THEN Trim(TrimFence(Trim(Rest(Tail(Trim(text)))))) ELSE Trim(text)

(* json.Unmarshal takes one object, broken over lines or not.              *)
IsJson(t) ==
  \E i, j \in DOMAIN t :
    /\ i < j /\ t[i] = "open" /\ t[j] = "close"
    /\ \A k \in DOMAIN t \ {i, j} : t[k] = "nl"

-----------------------------------------------------------------------------
(* The fields.                                                             *)

NormalizeConfidence(raw) ==
  CASE raw \in {"high", " High"} -> "high"
    [] raw = "medium" -> "medium"
    [] OTHER -> "low"

(* parseDate: the date with the time it carried, "none" if it is not ok.   *)
parseDate(raw) == IF raw \in {"day", "time"} THEN raw ELSE "none"

TimeKnown(raw, flag) == parseDate(raw) = "time" /\ flag

(* A start date that was stated and cannot be read costs the confidence;   *)
(* null costs nothing, and neither does the end date.                      *)
DateCostsNothing(p) == NormalizeConfidence(p.confidence)
Confidence(p) ==
  IF p.start # "null" /\ parseDate(p.start) = "none"
  THEN "low" ELSE NormalizeConfidence(p.confidence)

(* Both lists are cleaned word by word; a word that comes out empty or was *)
(* seen before is dropped.                                                 *)
WithRepeats(words) == SelectSeq(words, LAMBDA w : w # "")
FirstOfEach(words) ==
  FoldLeft(LAMBDA out, w : IF w \in {""} \cup Range(out) THEN out ELSE Append(out, w),
           <<>>, words)

Category(w) == CASE w \in {"music", "MUSIC "} -> "music" [] w = "art" -> "art" [] OTHER -> ""
Tag(w) ==
  CASE w \in {"#", " "} -> ""
    [] w \in {"opera", "#opera"} -> "opera"
    [] w = "MUSIC " -> "MUSIC"
    [] OTHER -> w

validateCategories(raw) == FirstOfEach([i \in DOMAIN raw |-> Category(raw[i])])
cleanTags(raw) == FirstOfEach([i \in DOMAIN raw |-> Tag(raw[i])])

sanitizePrice(value) == IF value # NoPrice /\ value < 0 THEN NoPrice ELSE value

decodePayload(p) ==
  [isEvent |-> p.isEvent, confidence |-> Confidence(p),
   start |-> parseDate(p.start), startKnown |-> TimeKnown(p.start, p.startFlag),
   end |-> parseDate(p.end), endKnown |-> TimeKnown(p.end, p.endFlag),
   price |-> sanitizePrice(p.price),
   categories |-> validateCategories(p.categories), tags |-> cleanTags(p.tags)]

decodeEntry(l) ==
  IF l.type = "succeeded" /\ IsJson(stripCodeFence(l.text))
  THEN decodePayload(l.payload) ELSE Error

-----------------------------------------------------------------------------
(* The row.                                                                *)

(* eventRepo.Upsert: review_status is picked on insert and never again.    *)
StartingReview(r) ==
  IF r.isEvent /\ r.confidence = "high" THEN "auto_published" ELSE "pending"
Upsert(r) ==
  /\ event' = r
  /\ review' = IF event = NoEvent THEN StartingReview(r) ELSE review

(* applyResult: a failed line or a non-event writes no row.                *)
Apply(l) ==
  /\ line' = l
  /\ result' = decodeEntry(l)
  /\ IF result' # Error /\ result'.isEvent THEN Upsert(result') ELSE UNCHANGED <<event, review>>

(* An admin decides by hand.                                               *)
Review(decision) ==
  /\ event # NoEvent
  /\ review' = decision
  /\ UNCHANGED <<line, result, event>>

Next ==
  \/ \E l \in Lines : Apply(l)
  \/ \E decision \in {"approved", "rejected"} : Review(decision)

Spec == Init /\ [][Next]_vars

-----------------------------------------------------------------------------
(* An event gets on the calendar unseen in one way only: its row is        *)
(* created, by a line that says it is an event, at high confidence, with a *)
(* start date that is null or can be read; another format or an empty      *)
(* string sends it to review (claude.go:204).  No row that waits for       *)
(* review or was decided ever gets there later.  An event that is on the   *)
(* calendar already stays, whatever is extracted next: the upsert keeps the*)
(* review status of a row that is there (event.repository.go:47-62), so the*)
(* review that claude.go:261-263 promises a low confidence is for inserts. *)
PublishedForCause ==
  [][review' = "auto_published" /\ review # "auto_published" =>
       /\ review = "none"
       /\ line'.type = "succeeded"
       /\ line'.payload.isEvent
       /\ line'.payload.confidence \in {"high", " High"}
       /\ line'.payload.start \in {"null", "day", "time"}]_vars

(* A block that is fenced as fences are written, with or without a language*)
(* and however it is broken over lines, reads like the bare object, and    *)
(* prose is never taken for an answer (claude.go:232-233): only what       *)
(* stands on the line of the opening fence is dropped unread, for there    *)
(* the language goes (242-245).                                            *)
Fenced(t) ==
  \E n, e \in DOMAIN t :
    /\ 1 < n /\ n < e
    /\ t[1] = "fence" /\ t[n] = "nl" /\ \A k \in 2..(n - 1) : t[k] # "nl"
    /\ IsJson(SubSeq(t, n + 1, e - 1))
    /\ t[e] = "fence" /\ \A k \in (e + 1)..Len(t) : t[k] = "nl"
FenceLine(t) ==
  {i \in DOMAIN t :
     \E j \in DOMAIN t :
       /\ j < i /\ t[j] = "fence" /\ \A k \in 1..(j - 1) : t[k] = "nl"
       /\ \A k \in j..i : t[k] # "nl"}
FencesChangeNothing ==
  line.type = "succeeded" =>
    /\ IsJson(line.text) \/ Fenced(line.text) => result # Error
    /\ \A i \in DOMAIN line.text \ FenceLine(line.text) :
         line.text[i] = "prose" => result = Error

(* Whatever the model repeats, invents or contradicts, over any number of  *)
(* re-extractions, the row is one the frontend can render: each id once,   *)
(* and only categories there are (claude.go:300-302, 337); no price below  *)
(* zero (327); no time called known that the date did not give (277-279).  *)
RowIsClean ==
  event # NoEvent =>
    /\ Range(event.categories) \subseteq CategoryId
    /\ IsInjective(event.categories) /\ IsInjective(event.tags)
    /\ "" \notin Range(event.tags)
    /\ event.price = NoPrice \/ event.price >= 0
    /\ event.startKnown => event.start = "time"
    /\ event.endKnown => event.end = "time"
=============================================================================
