----------------------------- MODULE Storefront -----------------------------
(***************************************************************************)
(* What professionals show to customers: posts, deals, services, portfolio *)
(* items, profiles and categories, the feeds and the pages of discovery    *)
(* made of them, and the slots made of their working hours                 *)
(* (internal/posts, deals, services, portfolio, professionals, categories, *)
(* discovery, availability, bookings).                                     *)
(*                                                                         *)
(* A request is one HTTP call, a step one statement.  Of the columns of a  *)
(* row the model keeps two: "text" stands for what the owner edits, "flag" *)
(* for the switch that some kinds have (sponsored, is_active, is_featured, *)
(* home_service_enabled).  The value of a column is the request it came    *)
(* from.  An image or a variant is known by its request and its position.  *)
(* No name is one of Reputation, so that one module can extend both.       *)
(***************************************************************************)
EXTENDS Integers, FiniteSets, Handlers

CONSTANTS
  Users,
  Rows, KindOf,   \* rows of any kind, and their kind
  Parts,          \* images per post, variants per service
  Day,            \* minutes of a day
  Buffer,         \* Service.buffer
  Durations, Step,
  Plans,          \* sets of windows [start, end] for a day of the week
  Exceptions,     \* days that are closed or opened apart from the plan
  Busy            \* intervals [start, end] that other bookings may occupy

ConstantsFit ==
  /\ None \notin Requests
  /\ None \notin Rows
  /\ Parts \in Nat \ {0} /\ Day \in Nat \ {0} /\ Buffer \in Nat /\ Step \in Nat \ {0}
  /\ KindOf \in [Rows -> {"post", "deal", "service", "item", "profile", "category"}]
  /\ \A plan \in Plans : \A w \in plan : w.start \in 0..Day /\ w.end \in 0..Day /\ w.start < w.end
  /\ Durations \subseteq Nat \ {0}

ASSUME StorefrontConstants == ConstantsFit

VARIABLES
  row,        \* of a row: absent, present, hidden (is_active = 0) or gone
  text, flag, \* of a row: where its columns come from
  parts,      \* post_media or service_variants of a row: <<request, position>>
  marks,      \* post_likes and post_saves: <<mark, user, row>>
  active,     \* professionals.status = ACTIVE, of the professional whose posts these
              \* are; the profile among the rows is being made by somebody else
  windows,    \* availability_windows
  exceptions, \* availability_exceptions
  on,         \* of a request: its row
  held,       \* its local variables
  page,       \* its answer: rows with their images
  \* history:
  gives       \* of a request: what it is to give a new value

rows == <<row, text, flag, parts>>
hours == <<windows, exceptions>>
handling == <<pc, op, on, held, gives, ended, before>>
storefront == <<rows, marks, active, hours, page, handling>>

NothingHeld == [text |-> None, flag |-> None, left |-> 0]
Maybe(S) == S \cup {None}
Positions == 1..Parts

StorefrontTypeOK ==
  /\ row \in [Rows -> {"absent", "present", "hidden", "gone"}]
  /\ text \in [Rows -> Maybe(Requests)] /\ flag \in [Rows -> Maybe(Requests)]
  /\ parts \in [Rows -> SUBSET (Requests \X Positions)]
  /\ marks \subseteq {"liked", "saved"} \X Users \X Rows
  /\ active \in BOOLEAN
  /\ windows \in Plans \cup {{}}
  /\ exceptions \subseteq Exceptions
  /\ pc \in [Requests -> {"idle", "insert", "write", "clear", "add", "mark", "media",
                          "professionals", "services", "deals", "variants", "done"}]
  /\ op \in [Requests -> {"none", "create", "update", "sponsor", "switch", "like", "page", "hours",
                          "service", "list", "home", "search", "category"}]
  /\ on \in [Requests -> Maybe(Rows)]
  /\ held \in [Requests -> [text : Maybe(Requests), flag : Maybe(Requests), left : 0..Parts]]
  /\ page \in [Requests -> SUBSET (Rows \X SUBSET (Requests \X Positions))]
  /\ gives \in [Requests -> SUBSET {"text", "flag", "images"}]
  /\ ended \subseteq Requests
  /\ before \in [Requests -> SUBSET Requests]

StorefrontInit ==
  /\ row = [x \in Rows |-> "absent"]
  /\ text = [x \in Rows |-> None] /\ flag = [x \in Rows |-> None]
  /\ parts = [x \in Rows |-> {}] /\ marks = {} /\ active = TRUE
  /\ windows = {} /\ exceptions = {}
  /\ pc = [r \in Requests |-> "idle"] /\ op = [r \in Requests |-> "none"]
  /\ on = [r \in Requests |-> None] /\ held = [r \in Requests |-> NothingHeld]
  /\ page = [r \in Requests |-> {}]
  /\ gives = [r \in Requests |-> {}]
  /\ ended = {} /\ before = [r \in Requests |-> {}]

(***************************************************************************)
(* Requests.                                                               *)
(***************************************************************************)
Open(r, kind, x, columns) ==
  /\ pc[r] = "idle"
  /\ op' = [op EXCEPT ![r] = kind]
  /\ on' = [on EXCEPT ![r] = x]
  /\ gives' = [gives EXCEPT ![r] = columns]
  /\ before' = [before EXCEPT ![r] = ended]

\* A request whose first statement is a read.
BeginRead(r, kind, x, columns, next, locals) ==
  /\ Open(r, kind, x, columns)
  /\ held' = [held EXCEPT ![r] = locals]
  /\ Goto(r, next)
  /\ UNCHANGED <<rows, marks, active, hours, page, ended>>

\* A request of a single statement; reads before it cannot go out of date.
Single(r, kind, x, columns) ==
  /\ Open(r, kind, x, columns)
  /\ ended' = ended \cup {r}
  /\ Goto(r, "done")
  /\ UNCHANGED <<page, held>>

Finish(r, ok) ==
  /\ Goto(r, "done")
  /\ held' = [held EXCEPT ![r] = NothingHeld]
  /\ ended' = IF ok THEN ended \cup {r} ELSE ended
  /\ UNCHANGED <<op, on, gives, before>>

GoOn(r, next) == Goto(r, next) /\ UNCHANGED <<op, on, held, gives, ended, before>>

BreakOff(r) ==
  /\ pc[r] \notin {"idle", "done"}
  /\ Finish(r, FALSE)
  /\ UNCHANGED <<rows, marks, active, hours, page>>

Present(x, kind) == KindOf[x] = kind /\ row[x] = "present"
Absent(x, kind) == KindOf[x] = kind /\ row[x] = "absent"
AtWrite(r, kind) == pc[r] = "write" /\ KindOf[on[r]] = kind

\* The row as INSERT makes it.
Insert(r, x) ==
  /\ row' = [row EXCEPT ![x] = "present"]
  /\ text' = [text EXCEPT ![x] = r]
  /\ flag' = [flag EXCEPT ![x] = r]

\* The columns an update leaves out keep what the request reads.
Merge(r, x, columns) ==
  [NothingHeld EXCEPT !.text = IF "text" \in columns THEN r ELSE text[x],
                 !.flag = IF "flag" \in columns THEN r ELSE flag[x]]

\* UPDATE ... WHERE id = ?, and the row is read back for the answer.
Overwrite(r, columns) ==
  LET x == on[r] IN
  /\ text' = IF "text" \in columns /\ row[x] # "gone" THEN [text EXCEPT ![x] = held[r].text] ELSE text
  /\ flag' = IF "flag" \in columns /\ row[x] # "gone" THEN [flag EXCEPT ![x] = held[r].flag] ELSE flag
  /\ UNCHANGED <<row, parts>>

(***************************************************************************)
(* Posts.                                                                  *)
(***************************************************************************)
CreatePost(r, x) ==
  /\ Absent(x, "post")
  /\ Open(r, "create", x, {"text", "flag", "images"})
  /\ Insert(r, x)
  /\ held' = [held EXCEPT ![r].left = Parts]
  /\ Goto(r, "clear")
  /\ UNCHANGED <<parts, marks, active, hours, page, ended>>

\* Update replaces all columns, and the images when there are any.
UpdatePost(r, x, images) ==
  /\ Present(x, "post")
  /\ BeginRead(r, "update", x, {"text", "flag"} \cup images, "write",
           [text |-> r, flag |-> r, left |-> IF images = {} THEN 0 ELSE Parts])

\* SetSponsored writes back what it reads, with another flag.
SetSponsored(r, x) ==
  /\ Present(x, "post")
  /\ BeginRead(r, "sponsor", x, {"flag"}, "write", Merge(r, x, {"flag"}))

WritePost(r) ==
  /\ AtWrite(r, "post")
  /\ Overwrite(r, {"text", "flag"})
  /\ IF row[on[r]] # "present" THEN Finish(r, FALSE)
     ELSE IF held[r].left > 0 THEN GoOn(r, "clear")
     ELSE Finish(r, TRUE)
  /\ UNCHANGED <<marks, active, hours, page>>

\* Variant: the new images join the old ones.
ClearNothing(r) ==
  /\ pc[r] = "clear"
  /\ GoOn(r, "add")
  /\ UNCHANGED <<rows, marks, active, hours, page>>

\* SetImages: DELETE, and then one INSERT per image, without a transaction.
ClearImages(r) ==
  /\ pc[r] = "clear"
  /\ parts' = [parts EXCEPT ![on[r]] = {}]
  /\ GoOn(r, "add")
  /\ UNCHANGED <<row, text, flag, marks, active, hours, page>>

AddPart(r) ==
  /\ pc[r] = "add"
  /\ parts' = IF row[on[r]] = "gone" THEN parts
              ELSE [parts EXCEPT ![on[r]] = @ \cup {<<r, Parts + 1 - held[r].left>>}]
  /\ IF row[on[r]] = "gone" THEN Finish(r, FALSE)
     ELSE IF held[r].left = 1 THEN Finish(r, TRUE)
     ELSE /\ held' = [held EXCEPT ![r].left = @ - 1]
          /\ UNCHANGED <<pc, op, on, gives, ended, before>>
  /\ UNCHANGED <<row, text, flag, marks, active, hours, page>>

\* Delete hides the post; a second one changes no row and is refused.
DeletePost(r, x) ==
  /\ Present(x, "post")
  /\ Single(r, "switch", x, {})
  /\ row' = [row EXCEPT ![x] = "hidden"]
  /\ UNCHANGED <<text, flag, parts, marks, active, hours>>

\* Like finds the post active, and inserts later.
Like(r, x) ==
  /\ Present(x, "post")
  /\ BeginRead(r, "like", x, {}, "mark", NothingHeld)

InsertMark(r) ==
  /\ pc[r] = "mark"
  /\ \E m \in {"liked", "saved"}, u \in Users : marks' = marks \cup {<<m, u, on[r]>>}
  /\ Finish(r, TRUE)
  /\ UNCHANGED <<rows, active, hours, page>>

Unlike(r, m, u, x) ==
  /\ <<m, u, x>> \in marks
  /\ Single(r, "like", x, {})
  /\ marks' = marks \ {<<m, u, x>>}
  /\ UNCHANGED <<rows, active, hours>>

(***************************************************************************)
(* Feeds: a query for the posts, then one for their images.                *)
(***************************************************************************)
Visible == {x \in Rows : Present(x, "post") /\ active}

ListFeed == Visible
FeedPostByID(x) == {x} \cap Visible
ListLiked(u) == {x \in Visible : <<"liked", u, x>> \in marks}
ListSaved(u) == {x \in Visible : <<"saved", u, x>> \in marks}

ReadPage(r, posts) ==
  /\ posts # {}
  /\ Open(r, "page", None, {})
  /\ page' = [page EXCEPT ![r] = {<<x, {}>> : x \in posts}]
  /\ Goto(r, "media")
  /\ UNCHANGED <<rows, marks, active, hours, held, ended>>

MediaForPosts(r) ==
  /\ pc[r] = "media"
  /\ page' = [page EXCEPT ![r] = {<<p[1], parts[p[1]]>> : p \in page[r]}]
  /\ Finish(r, TRUE)
  /\ UNCHANGED <<rows, marks, active, hours>>

(***************************************************************************)
(* Deals.  (deal_services is written and never read.)                      *)
(***************************************************************************)
CreateDeal(r, x) ==
  /\ Absent(x, "deal")
  /\ Single(r, "create", x, {"text", "flag"})
  /\ Insert(r, x)
  /\ UNCHANGED <<parts, marks, active, hours>>

\* Update reads the row, changes what the input names, writes every column.
UpdateDeal(r, x, columns) ==
  /\ Present(x, "deal")
  /\ BeginRead(r, "update", x, columns, "write", Merge(r, x, columns))

\* Variant: is_active is missing from the UPDATE.
WriteDealText(r) ==
  /\ AtWrite(r, "deal")
  /\ Overwrite(r, {"text"})
  /\ Finish(r, TRUE)
  /\ UNCHANGED <<marks, active, hours, page>>

WriteDeal(r) ==
  /\ AtWrite(r, "deal")
  /\ Overwrite(r, {"text", "flag"})
  /\ Finish(r, TRUE)
  /\ UNCHANGED <<marks, active, hours, page>>

\* Deactivate by the owner, Toggle by an administrator: one column.
SetDealActive(r, x) ==
  /\ Present(x, "deal")
  /\ Single(r, "switch", x, {"flag"})
  /\ flag' = [flag EXCEPT ![x] = r]
  /\ UNCHANGED <<row, text, parts, marks, active, hours>>

(***************************************************************************)
(* Services.                                                               *)
(***************************************************************************)

\* INSERT, and then one INSERT per variant, without a transaction.
CreateService(r, x) ==
  /\ Absent(x, "service")
  /\ Open(r, "create", x, {"text", "images"})
  /\ Insert(r, x)
  /\ held' = [held EXCEPT ![r].left = Parts]
  /\ Goto(r, "add")
  /\ UNCHANGED <<parts, marks, active, hours, page, ended>>

\* Name and currency default to what is read.
UpdateService(r, x, columns) ==
  /\ Present(x, "service")
  /\ BeginRead(r, "update", x, columns \cap {"text"}, "write", Merge(r, x, columns))

\* is_active and the variants stay; a service that is gone is not found again.
WriteService(r) ==
  /\ AtWrite(r, "service")
  /\ Overwrite(r, {"text"})
  /\ Finish(r, row[on[r]] = "present")
  /\ UNCHANGED <<marks, active, hours, page>>

\* GetByID: the service, and then its variants.
GetService(r, x) ==
  /\ Present(x, "service")
  /\ Open(r, "service", x, {})
  /\ page' = [page EXCEPT ![r] = {<<x, {}>>}]
  /\ Goto(r, "variants")
  /\ UNCHANGED <<rows, marks, active, hours, held, ended>>

ListVariants(r) ==
  /\ pc[r] = "variants"
  /\ page' = [page EXCEPT ![r] = {<<on[r], parts[on[r]]>>}]
  /\ Finish(r, TRUE)
  /\ UNCHANGED <<rows, marks, active, hours>>

(***************************************************************************)
(* Portfolio items, profiles, categories.                                  *)
(***************************************************************************)
CreateItem(r, x) ==
  /\ Absent(x, "item")
  /\ Single(r, "create", x, {"text", "flag"})
  /\ Insert(r, x)
  /\ UNCHANGED <<parts, marks, active, hours>>

\* Asset, service and caption default to what is read, is_featured does not.
UpdateItem(r, x, columns) ==
  /\ Present(x, "item")
  /\ BeginRead(r, "update", x, columns \cup {"flag"}, "write", Merge(r, x, columns \cup {"flag"}))

WriteItem(r) ==
  /\ AtWrite(r, "item")
  /\ Overwrite(r, {"text", "flag"})
  /\ Finish(r, row[on[r]] = "present")
  /\ UNCHANGED <<marks, active, hours, page>>

\* DELETE of a service or a portfolio item.
DeleteRow(r, x) ==
  /\ Present(x, "service") \/ Present(x, "item")
  /\ Single(r, "switch", x, {})
  /\ row' = [row EXCEPT ![x] = "gone"]
  /\ parts' = [parts EXCEPT ![x] = {}]
  /\ UNCHANGED <<text, flag, marks, active, hours>>

\* Create finds no profile of the user, and inserts one ...
CreateProfile(r, x) ==
  /\ Absent(x, "profile")
  /\ BeginRead(r, "create", x, {"text", "flag"}, "insert", NothingHeld)

\* ... unless the unique index on user_id has one by now.
InsertProfile(r) ==
  /\ pc[r] = "insert"
  /\ IF row[on[r]] = "absent"
     THEN Insert(r, on[r]) /\ Finish(r, TRUE)
     ELSE Finish(r, FALSE) /\ UNCHANGED <<row, text, flag>>
  /\ UNCHANGED <<parts, marks, active, hours, page>>

\* What the input leaves empty stays, but home_service_enabled is overwritten.
UpdateProfile(r, x, columns) ==
  /\ Present(x, "profile")
  /\ BeginRead(r, "update", x, columns \cup {"flag"}, "write", Merge(r, x, columns \cup {"flag"}))

WriteProfile(r) ==
  /\ AtWrite(r, "profile")
  /\ Overwrite(r, {"text", "flag"})
  /\ Finish(r, TRUE)
  /\ UNCHANGED <<marks, active, hours, page>>

\* An administrator's SetStatus: the column that no update of the owner writes.
SetProfessionalStatus(r) ==
  /\ Single(r, "switch", None, {})
  /\ active' = ~active
  /\ UNCHANGED <<rows, marks, hours>>

CreateCategory(r, x) ==
  /\ Absent(x, "category")
  /\ Single(r, "create", x, {"text"})
  /\ Insert(r, x)
  /\ UNCHANGED <<parts, marks, active, hours>>

UpdateCategory(r, x, columns) ==
  /\ Present(x, "category")
  /\ BeginRead(r, "update", x, columns \cap {"text"}, "write", Merge(r, x, columns))

WriteCategory(r) ==
  /\ AtWrite(r, "category")
  /\ Overwrite(r, {"text"})
  /\ Finish(r, row[on[r]] = "present")
  /\ UNCHANGED <<marks, active, hours, page>>

DeleteCategory(r, x) ==
  /\ Present(x, "category")
  /\ Single(r, "switch", x, {})
  /\ row' = [row EXCEPT ![x] = "gone"]
  /\ UNCHANGED <<text, flag, parts, marks, active, hours>>

(***************************************************************************)
(* Lists and the pages of discovery.  Filters, limits and the dates of a   *)
(* deal only take rows away: a list is all that it may show.               *)
(***************************************************************************)
Listed(kind) == {x \in Rows : Present(x, kind)}

ListCategories == Listed("category")
ListProfessionals == Listed("profile")
ListServices == Listed("service")
ListDeals == Listed("deal")
ListItems == Listed("item")
ListMine == Listed("post")  \* whether the professional is active or not
GetItem(x) == {x} \cap ListItems
PublicProfile(x) == {x} \cap ListProfessionals

Bare(shown) == {<<x, {}>> : x \in shown}

\* A list of one statement.
ReadList(r, shown) ==
  /\ shown # {}
  /\ Open(r, "list", None, {})
  /\ page' = [page EXCEPT ![r] = Bare(shown)]
  /\ ended' = ended \cup {r}
  /\ Goto(r, "done")
  /\ UNCHANGED <<rows, marks, active, hours, held>>

\* A page of several lists, each a statement of its own.
OpenPage(r, kind, shown, next) ==
  /\ Open(r, kind, None, {})
  /\ page' = [page EXCEPT ![r] = Bare(shown)]
  /\ Goto(r, next)
  /\ UNCHANGED <<rows, marks, active, hours, held, ended>>

Home(r) == OpenPage(r, "home", ListCategories, "professionals")
Search(r) == OpenPage(r, "search", ListProfessionals, "services")
CategoryBySlug(r, x) == Present(x, "category") /\ OpenPage(r, "category", {x}, "professionals")

ContinuePage(r, kind, shown, next) ==
  /\ pc[r] = kind
  /\ page' = [page EXCEPT ![r] = @ \cup Bare(shown)]
  /\ IF next = "done" THEN Finish(r, TRUE) ELSE GoOn(r, next)
  /\ UNCHANGED <<rows, marks, active, hours>>

ReadProfessionals(r) ==
  ContinuePage(r, "professionals", ListProfessionals, IF op[r] = "home" THEN "services" ELSE "done")
ReadServices(r) ==
  ContinuePage(r, "services", ListServices, IF op[r] = "home" THEN "deals" ELSE "done")
ReadDeals(r) == ContinuePage(r, "deals", ListDeals, "done")

(***************************************************************************)
(* Working hours.                                                          *)
(***************************************************************************)

\* ReplaceWindows: DELETE and INSERTs in a transaction.
SetWindows(r, plan) ==
  /\ Single(r, "hours", None, {})
  /\ windows' = plan
  /\ UNCHANGED <<rows, marks, active, exceptions>>

AddException(r, e) ==
  /\ Single(r, "hours", None, {})
  /\ exceptions' = exceptions \cup {e}
  /\ UNCHANGED <<rows, marks, active, windows>>

DeleteException(r, e) ==
  /\ e \in exceptions
  /\ Single(r, "hours", None, {})
  /\ exceptions' = exceptions \ {e}
  /\ UNCHANGED <<rows, marks, active, windows>>

\* The plan of the day of the week that is asked for; no window is ever inactive.
ListWindows == windows

\* An exception applies when its date equals the date asked for, as a string;
\* the driver parses a DATE, so what is read back is a timestamp and none does.
EffectiveWindows == ListWindows

Overlapping(busy, start, end) == \E i \in busy : i.start < end /\ start < i.end

\* Variant: the buffer may reach beyond the window.
FitsWithoutBuffer(w, m, duration) == m >= w.start /\ m + duration <= w.end

\* The loop of AvailableSlots leaves room for the buffer after the service.
Fits(w, m, duration) == m >= w.start /\ m + duration + Buffer <= w.end

AvailableSlots(duration, busy) ==
  {m \in 0..Day : \E w \in EffectiveWindows :
     /\ Fits(w, m, duration) /\ (m - w.start) % Step = 0
     /\ ~Overlapping(busy, m, m + duration + Buffer)}

MinutesOfDay(t) == t % Day

SlotAvailable(start, end, busy) ==
  /\ ~Overlapping(busy, start, end)
  /\ \E w \in EffectiveWindows : MinutesOfDay(start) >= w.start /\ MinutesOfDay(end) <= w.end

-----------------------------------------------------------------------------
Arrive(r) ==
  \/ \E x \in Rows :
       \/ CreatePost(r, x) \/ CreateDeal(r, x) \/ CreateService(r, x)
       \/ CreateItem(r, x) \/ CreateProfile(r, x) \/ CreateCategory(r, x)
       \/ \E images \in {{}, {"images"}} : UpdatePost(r, x, images)
       \/ \E columns \in SUBSET {"text", "flag"} :
            \/ UpdateDeal(r, x, columns) \/ UpdateService(r, x, columns) \/ UpdateItem(r, x, columns)
            \/ UpdateProfile(r, x, columns) \/ UpdateCategory(r, x, columns)
       \/ SetSponsored(r, x) \/ SetDealActive(r, x)
       \/ DeletePost(r, x) \/ DeleteRow(r, x) \/ DeleteCategory(r, x)
       \/ Like(r, x) \/ \E m \in {"liked", "saved"}, u \in Users : Unlike(r, m, u, x)
       \/ ReadPage(r, FeedPostByID(x)) \/ GetService(r, x) \/ CategoryBySlug(r, x)
       \/ ReadList(r, GetItem(x)) \/ ReadList(r, PublicProfile(x))
  \/ \E shown \in {ListCategories, ListProfessionals, ListServices, ListDeals, ListItems, ListMine} :
       ReadList(r, shown)
  \/ Home(r) \/ Search(r)
  \/ ReadPage(r, ListFeed) \/ \E u \in Users : ReadPage(r, ListLiked(u)) \/ ReadPage(r, ListSaved(u))
  \/ SetProfessionalStatus(r)
  \/ \E plan \in Plans : SetWindows(r, plan)
  \/ \E e \in Exceptions : AddException(r, e) \/ DeleteException(r, e)

Advance(r) ==
  \/ WritePost(r) \/ ClearImages(r) \/ AddPart(r) \/ InsertMark(r) \/ MediaForPosts(r)
  \/ WriteDeal(r) \/ WriteService(r) \/ WriteItem(r) \/ InsertProfile(r) \/ WriteProfile(r)
  \/ WriteCategory(r) \/ ListVariants(r)
  \/ ReadProfessionals(r) \/ ReadServices(r) \/ ReadDeals(r)
  \/ BreakOff(r)

StorefrontNext == \E r \in Requests : Arrive(r) \/ Advance(r)

StorefrontSpec == StorefrontInit /\ [][StorefrontNext]_storefront

(***************************************************************************)
(* Properties.                                                             *)
(***************************************************************************)
Together(r, s) == Begun(r) /\ Begun(s) /\ r # s /\ Concurrent(r, s)

Column(c, x) == IF c = "text" THEN text[x] ELSE flag[x]

\* A change that was accepted is undone only by an update that ran at the same
\* time and wrote back what it had read (deals/store.go:108-123,
\* posts/service.go:177-188): a deal that its owner deactivated comes back only
\* if somebody was editing it.
ChangesKept ==
  \A r \in ended : \A c \in gives[r] \cap {"text", "flag"} :
    row[on[r]] # "gone" /\ Column(c, on[r]) \in before[r]
      => \E s \in Requests : on[s] = on[r] /\ op[s] \in {"update", "sponsor"} /\ Together(r, s)

ImageWriters(x) == {r \in Requests : Begun(r) /\ on[r] = x /\ "images" \in gives[r]}

Deletes(s, x) == on[s] = x /\ op[s] = "switch" /\ gives[s] = {}

\* A page shows nothing that had been deleted before it was asked for.  A feed
\* shows a post with all images of its last update and no others, and a service
\* all its variants, unless these were being written while they were read, or an
\* earlier request broke off or raced with another (post.go:101-112,
\* services/store.go:57-64): neither reading nor writing them is a transaction.
PagesAreWhole ==
  \A r \in ended : \A p \in page[r] :
    LET writers == ImageWriters(p[1]) \ {w \in Requests : r \in before[w]} IN
    /\ \A s \in before[r] : ~Deletes(s, p[1])
    /\ /\ op[r] \in {"page", "service"} /\ row[p[1]] # "gone"
       /\ writers \subseteq before[r] /\ \A v, w \in writers : ~Together(v, w)
       => \E last \in writers :
            /\ \A w \in writers \ {last} : w \in before[last]
            /\ p[2] = {last} \X Positions

\* A slot that is offered is a slot that Create accepts, on the same bookings
\* and hours, for a service of that duration at the salon: the loop that offers
\* slots and the check that accepts them (service.go:507, 611) agree.
OfferedIsAccepted ==
  \A duration \in Durations, busy \in SUBSET Busy :
    \A m \in AvailableSlots(duration, busy) : SlotAvailable(m, m + duration + Buffer, busy)
=============================================================================
