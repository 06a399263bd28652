----------------------------- MODULE ListingPhotos -----------------------------
(******************************************************************************)
(* The photos staff add to a home (tools/image_storage.py and the photo       *)
(* routes of main.py), as Cloud Run runs it: a bucket holds the photos and    *)
(* the order staff chose, and each process of the service keeps, for a        *)
(* minute, the galleries it answers with (list_all_grouped).  What is made of *)
(* an answer later, such as the registry of server-rendered pages that        *)
(* seo_routes.py keeps for five minutes, is not part of this module.          *)
(*                                                                            *)
(* A process works on one staff request at a time, the routes never give up   *)
(* its thread in the middle of one photo; the pages that read galleries run   *)
(* in threads beside it.  Other processes run between any two calls to the    *)
(* bucket.                                                                    *)
(*                                                                            *)
(* Abstractions.  One home.  A photo is its number in the order of file       *)
(* names; the name is made from the contents, so that a photo sent again is   *)
(* the same photo.  One Tick is one minute, _GROUPED_TTL: what began before a *)
(* tick is in its last minute after it, and over after two.  A gallery and    *)
(* its time (_grouped_cache_at) are written in one step.                      *)
(*                                                                            *)
(* A definition named ...Slip is a plausible mistake in the one below it.     *)
(******************************************************************************)
EXTENDS Naturals, FiniteSets, Sequences, SequencesExt

CONSTANTS
    PhotoCount,
    Processes,  \* processes of the service
    Readers,    \* threads that list galleries, of any process
    MaxWanted,  \* bound on the length of an order staff ask for
    None

ASSUME PhotoCountNat == PhotoCount \in Nat
ASSUME MaxWantedNat == MaxWanted \in Nat
ASSUME NoneIsNoProcess == None \notin Processes

Photos == 1..PhotoCount

VARIABLES
    stored,   \* the photos in the bucket
    order,    \* _order.json
    client,   \* processes that have a storage client (_gcs_bucket)
    cache,    \* _grouped_cache, by process
    reader,   \* the threads
    staff,    \* the staff request of each process
    quiet,    \* ticks since the bucket last changed, two at most
    own       \* history: processes that answered a staff request since then,
              \* while none of their threads was listing

vars == <<stored, order, client, cache, reader, staff, quiet, own>>

Orders == {s \in BoundedSeq(Photos, PhotoCount) : IsInjective(s)}
\* blind: made without a storage client.
Gallery == [shown : Orders, age : 0..1, blind : BOOLEAN]
Reader == [process : Processes \cup {None}, step : {"list", "order", "answer"},
           found : SUBSET Photos, shown : Orders, age : 0..2]
Staff == [step : {"idle", "put", "check", "look", "delete", "prune", "clean", "write"},
          photos : SUBSET Photos, photo : Photos \cup {None},
          names : BoundedSeq(Photos, MaxWanted)]
IdleReader == [process |-> None, step |-> "list", found |-> {}, shown |-> <<>>, age |-> 0]
IdleStaff == [step |-> "idle", photos |-> {}, photo |-> None, names |-> <<>>]

TypeOK ==
    /\ stored \subseteq Photos
    /\ order \in Orders
    /\ client \subseteq Processes
    /\ cache \in [Processes -> Gallery \cup {None}]
    /\ reader \in [Readers -> Reader]
    /\ staff \in [Processes -> Staff]
    /\ quiet \in 0..2
    /\ own \subseteq Processes

Init ==
    /\ stored = {} /\ order = <<>> /\ client = {}
    /\ cache = [p \in Processes |-> None]
    /\ reader = [r \in Readers |-> IdleReader]
    /\ staff = [p \in Processes |-> IdleStaff]
    /\ quiet = 2
    /\ own = {}

--------------------------------------------------------------------------------

Rank(i, places) == Cardinality({j \in places : j <= i})

\* The names at some places, in the order they have.  A filter like SelectSeq,
\* by what it returns and not by recursion, so that theorems can be proved of it.
Picked(names, places) ==
    [n \in 1..Cardinality(places) |-> names[CHOOSE i \in places : Rank(i, places) = n]]

Only(names, photos) == Picked(names, {i \in DOMAIN names : names[i] \in photos})

\* _ordered: those staff have put in order, then the others by name.
Ordered(photos, names) ==
    Only(names, photos) \o Only([f \in Photos |-> f], photos \ ToSet(names))

Listing(p) == {r \in Readers : reader[r].process = p}
At(p, step) == staff[p].step = step
GoTo(p, step) == staff' = [staff EXCEPT ![p].step = step]
Ends(p) == staff' = [staff EXCEPT ![p] = IdleStaff]

\* Kept by every step that may change the bucket.
History(answered) ==
    LET same == stored' = stored /\ order' = order
    IN /\ quiet' = IF same THEN quiet ELSE 0
       /\ own' = (IF same THEN own ELSE {}) \cup {p \in answered : Listing(p) = {}}

\* The cache is left to run out.
InvalidatedSlip(p) == cache

\* _invalidate_grouped_cache, of the process that made the change only.
Invalidated(p) == [cache EXCEPT ![p] = None]

--------------------------------------------------------------------------------
(* Staff requests. One that finds no storage client changes nothing.          *)

Asks(p, request) ==
    /\ At(p, "idle")
    /\ staff' = [staff EXCEPT ![p] = request]
    /\ client' = client \cup {p}
    /\ UNCHANGED <<stored, order, cache, reader, quiet, own>>

AskUpload(p) ==
    \E photos \in SUBSET Photos \ {{}} :
        Asks(p, [IdleStaff EXCEPT !.step = "put", !.photos = photos])
AskDelete(p) ==
    \E f \in Photos : Asks(p, [IdleStaff EXCEPT !.step = "look", !.photo = f])
AskOrder(p) ==
    \E names \in BoundedSeq(Photos, MaxWanted) :
        Asks(p, [IdleStaff EXCEPT !.step = "clean", !.names = names])

\* One photo of the batch is reported as stored, and the next one is taken up.
Stores(p, f) ==
    LET left == staff[p].photos \ {f}
    IN /\ cache' = Invalidated(p)
       /\ IF left = {} THEN Ends(p)
          ELSE staff' = [staff EXCEPT ![p] = [IdleStaff EXCEPT !.step = "put",
                                                               !.photos = left]]
       /\ History({p})

\* store_photo: create the object unless it exists.  The answer may be lost.
Put(p) ==
    /\ At(p, "put")
    /\ UNCHANGED <<order, client, reader>>
    /\ \E f \in staff[p].photos :
           \/ f \notin stored /\ stored' = stored \cup {f} /\ Stores(p, f)
           \/ /\ stored' \in {stored, stored \cup {f}}
              /\ staff' = [staff EXCEPT ![p].step = "check", ![p].photo = f]
              /\ History({}) /\ UNCHANGED cache

\* It did not say so, is it there?  The first photo that is not, as far as one
\* can tell, ends the batch.
Check(p) ==
    /\ At(p, "check")
    /\ UNCHANGED <<stored, order, client, reader>>
    /\ \/ staff[p].photo \in stored /\ Stores(p, staff[p].photo)
       \/ Ends(p) /\ UNCHANGED <<cache, quiet, own>>

\* delete_photo
Look(p) ==
    /\ At(p, "look")
    /\ \/ staff[p].photo \in stored /\ GoTo(p, "delete")
       \/ Ends(p)
    /\ UNCHANGED <<stored, order, client, cache, reader, quiet, own>>

\* A failure, also of a deletion that was applied, leaves the cache as it is.
Delete(p) ==
    /\ At(p, "delete")
    /\ UNCHANGED <<order, client, reader>>
    /\ \/ /\ staff[p].photo \in stored
          /\ stored' = stored \ {staff[p].photo}
          /\ cache' = Invalidated(p)
          /\ GoTo(p, "prune")
          /\ History({p})
       \/ /\ stored' \in {stored, stored \ {staff[p].photo}}
          /\ Ends(p) /\ History({}) /\ UNCHANGED cache

\* The order is read here and written without the photo in the next step; a
\* failure of either is not reported.
Prune(p) ==
    /\ At(p, "prune")
    /\ \/ /\ staff[p].photo \in ToSet(order)
          /\ staff' = [staff EXCEPT ![p].step = "write", ![p].names = order]
       \/ Ends(p)
    /\ UNCHANGED <<stored, order, client, cache, reader, quiet, own>>

\* A name that was asked for twice is written twice.
CleanedSlip(names) == Only(names, stored)

\* set_photo_order drops what is not stored and what comes again.
Cleaned(names) ==
    Picked(names, {i \in DOMAIN names :
                       names[i] \in stored /\ \A j \in 1..(i - 1) : names[j] # names[i]})

Clean(p) ==
    /\ At(p, "clean")
    /\ \/ staff' = [staff EXCEPT ![p].step = "write",
                                 ![p].names = Cleaned(staff[p].names)]
       \/ Ends(p)
    /\ UNCHANGED <<stored, order, client, cache, reader, quiet, own>>

\* What comes after the photo is lost with it.
PrunedSlip(names, f) ==
    IF f \in ToSet(names)
    THEN SubSeq(names, 1, (CHOOSE i \in DOMAIN names : names[i] = f) - 1) ELSE names

Pruned(names, f) == Picked(names, {i \in DOMAIN names : names[i] # f})

\* _write_order, of the order a deletion has read or of a new one.
WriteOrder(p) ==
    /\ At(p, "write")
    /\ UNCHANGED <<stored, client, reader>>
    /\ LET f == staff[p].photo
           names == IF f = None THEN staff[p].names ELSE Pruned(staff[p].names, f)
       IN \/ order' = names /\ cache' = Invalidated(p) /\ History({p})
          \/ order' \in {order, names} /\ History({}) /\ UNCHANGED cache
    /\ Ends(p)

--------------------------------------------------------------------------------
(* list_all_grouped, in a thread of process p that finds nothing in the cache.*)

\* Without a client it finds no photos and keeps that like any other answer.
BeginListing(r, p) ==
    /\ reader[r].process = None /\ cache[p] = None
    /\ \/ /\ reader' = [reader EXCEPT ![r].process = p]
          /\ client' = client \cup {p}
          /\ UNCHANGED cache
       \/ /\ p \notin client
          /\ cache' = [cache EXCEPT ![p] = [shown |-> <<>>, age |-> 0, blind |-> TRUE]]
          /\ UNCHANGED <<reader, client>>
    /\ UNCHANGED <<stored, order, staff, quiet, own>>

ListPhotos(r) ==
    /\ reader[r].process # None /\ reader[r].step = "list"
    /\ \/ reader' = [reader EXCEPT ![r].step = "order", ![r].found = stored]
       \/ reader' = [reader EXCEPT ![r] = IdleReader]
    /\ UNCHANGED <<stored, order, client, cache, staff, quiet, own>>

\* The minute is counted from the end of the listing.
AgeSlip(r) == 0

\* The minute is counted from when the listing began.
Age(r) == reader[r].age

\* _ordered of what was found. A failure of this or of the listing ends it.
ReadOrder(r) ==
    /\ reader[r].step = "order"
    /\ \/ reader' = [reader EXCEPT ![r].step = "answer", ![r].found = {},
                                   ![r].shown = Ordered(reader[r].found, order)]
       \/ reader' = [reader EXCEPT ![r] = IdleReader]
    /\ UNCHANGED <<stored, order, client, cache, staff, quiet, own>>

\* The answer is kept and returned. One that is over already is never used again.
KeepGallery(r) ==
    /\ reader[r].step = "answer"
    /\ cache' = [cache EXCEPT ![reader[r].process] =
                     IF Age(r) = 2 THEN None
                     ELSE [shown |-> reader[r].shown, age |-> Age(r), blind |-> FALSE]]
    /\ reader' = [reader EXCEPT ![r] = IdleReader]
    /\ UNCHANGED <<stored, order, client, staff, quiet, own>>

--------------------------------------------------------------------------------
(* Time and restarts.                                                         *)

RunsOut(p) ==
    /\ cache[p] # None /\ cache[p].age = 1
    /\ cache' = [cache EXCEPT ![p] = None]
    /\ UNCHANGED <<stored, order, client, reader, staff, quiet, own>>

AtMostTwo(n) == IF n > 2 THEN 2 ELSE n

Tick ==
    /\ cache' = [p \in Processes |->
                    IF cache[p] = None \/ cache[p].age = 1 THEN None
                    ELSE [cache[p] EXCEPT !.age = 1]]
    /\ reader' = [r \in Readers |->
                    IF reader[r].process = None THEN reader[r]
                    ELSE [reader[r] EXCEPT !.age = AtMostTwo(@ + 1)]]
    /\ quiet' = AtMostTwo(quiet + 1)
    /\ UNCHANGED <<stored, order, client, staff, own>>

Restart(p) ==
    /\ client' = client \ {p}
    /\ cache' = Invalidated(p)
    /\ reader' = [r \in Readers |-> IF r \in Listing(p) THEN IdleReader ELSE reader[r]]
    /\ Ends(p)
    /\ UNCHANGED <<stored, order, quiet, own>>

Next ==
    \/ \E p \in Processes :
           \/ AskUpload(p) \/ AskDelete(p) \/ AskOrder(p)
           \/ Put(p) \/ Check(p)
           \/ Look(p) \/ Delete(p) \/ Prune(p)
           \/ Clean(p) \/ WriteOrder(p)
           \/ RunsOut(p) \/ Restart(p)
    \/ \E r \in Readers :
           \/ \E p \in Processes : BeginListing(r, p)
           \/ ListPhotos(r) \/ ReadOrder(r) \/ KeepGallery(r)
    \/ Tick

Spec == Init /\ [][Next]_vars

--------------------------------------------------------------------------------

\* What list_all_grouped should answer.
Current(gallery) == gallery.blind \/ gallery.shown = Ordered(stored, order)
Answers(r) == reader[r].step = "answer"

\* "The photos you add show up on the Inventory page of the website, usually
\* within a minute", as far as list_all_grouped, which that page asks, has to do
\* with it: once the bucket has been left alone for a minute, no process keeps an
\* older state of it to answer with, however long its listing took, whichever
\* process made the change and whatever failed; and no listing that began within
\* the last minute answers with one. A process without a storage client shows no
\* photos, and a listing that fails none; a listing of more than a minute may still
\* answer its own request with an older state.
ListedWithinAMinute ==
    quiet = 2 =>
        /\ \A p \in Processes : cache[p] # None => Current(cache[p])
        /\ \A r \in Readers : Answers(r) /\ reader[r].age < 2 =>
               reader[r].shown = Ordered(stored, order)

\* "Invalidate public reads immediately": the process that answered a staff
\* request finds its outcome in its cache, and lists it, from then on, until the
\* bucket changes again, unless one of its threads was already listing.
ListedAtOnce ==
    \A p \in own :
        /\ cache[p] # None => Current(cache[p])
        /\ \A r \in Listing(p) : Answers(r) => reader[r].shown = Ordered(stored, order)

Before(f, g, gallery) ==
    \E i, j \in DOMAIN gallery : i < j /\ gallery[i] = f /\ gallery[j] = g

\* Two photos that stay change places only by a new order, or by the deletion of
\* another one that had read the order before somebody else changed it: no
\* upload, deletion or failed clean-up rearranges what staff arranged. A photo
\* that comes back while its deletion is at work is not one that stays.
NothingRearranged ==
    [][order' # order \/ stored' # stored =>
           LET before == Ordered(stored, order)
               after == Ordered(stored', order')
           IN \A f, g \in stored \cap stored' :
                  Before(f, g, before) /\ Before(g, f, after) =>
                      \E p \in Processes :
                          /\ At(p, "write")
                          /\ staff[p].photo \in {None, f, g}
                             \/ staff[p].names # order]_vars
================================================================================
