-------------------------- MODULE ListingPhotos_proofs -------------------------
(******************************************************************************)
(* Theorems of ListingPhotos, for any number of photos, processes and         *)
(* threads.  What visitors are shown needs nothing of the orders and of the   *)
(* staff requests: what counts is when the bucket changed, and who answered.  *)
(* That no photo is rearranged, and the types, need what picking, joining and *)
(* pruning do to an order.                                                    *)
(******************************************************************************)
EXTENDS ListingPhotos, FiniteSetTheorems, SequenceTheorems, TLAPS

\* A thread, and a gallery, have the parts of theirs; what they show may be
\* anything.
ReadersAreReaders ==
    /\ reader = [r \in Readers |-> reader[r]]
    /\ \A r \in Readers :
           /\ reader[r] = [process |-> reader[r].process, step |-> reader[r].step,
                           found |-> reader[r].found, shown |-> reader[r].shown,
                           age |-> reader[r].age]
           /\ reader[r].process \in Processes \cup {None} /\ reader[r].age \in 0..2
           /\ reader[r].process = None => reader[r].step = "list" /\ reader[r].age = 0
GalleriesAreGalleries ==
    /\ cache = [p \in Processes |-> cache[p]]
    /\ \A p \in Processes : cache[p] # None =>
           /\ cache[p] = [shown |-> cache[p].shown, age |-> cache[p].age,
                          blind |-> cache[p].blind]
           /\ cache[p].age \in 0..1

\* A thread whose listing so far is of what is stored.
ListsWhatIsThere(r) ==
    /\ reader[r].step = "order" => reader[r].found = stored
    /\ Answers(r) => reader[r].shown = Ordered(stored, order)

\* A thread that lists what is no longer stored, and a gallery that shows an
\* older state, began before the bucket last changed.
LateListingsAreOld == \A r \in Readers : ~ListsWhatIsThere(r) => reader[r].age >= quiet
StaleGalleriesAreOld ==
    \A p \in Processes : cache[p] # None /\ ~Current(cache[p]) => cache[p].age >= quiet

\* The threads of a process that has answered list what is stored.
OwnListingsAreCurrent ==
    \A r \in Readers : reader[r].process \in own => ListsWhatIsThere(r)

OwnGalleriesAreCurrent == \A p \in own : cache[p] # None => Current(cache[p])

GalleryInv ==
    /\ ReadersAreReaders /\ GalleriesAreGalleries
    /\ quiet \in 0..2 /\ own \subseteq Processes
    /\ LateListingsAreOld /\ StaleGalleriesAreOld
    /\ OwnListingsAreCurrent /\ OwnGalleriesAreCurrent

--------------------------------------------------------------------------------
(* What steps do to bucket, galleries and threads, and that they keep it.     *)

\* A step that leaves bucket, galleries and threads alone.
LEMMA NothingShownChanges ==
    ASSUME GalleryInv, UNCHANGED <<stored, order, cache, reader, quiet, own>>
    PROVE  GalleryInv'
<1> USE DEF GalleryInv
<1>1. \A p \in Processes : Current(cache[p])' <=> Current(cache[p])
  BY DEF Current
<1> QED
  BY <1>1 DEF ReadersAreReaders, GalleriesAreGalleries, LateListingsAreOld, ListsWhatIsThere,
              Answers, StaleGalleriesAreOld, OwnListingsAreCurrent, OwnGalleriesAreCurrent

\* A request that is answered: the bucket may change, and the process of the
\* request forgets what it shows.
LEMMA AnsweringKeeps ==
    ASSUME GalleryInv, NEW p \in Processes, reader' = reader, cache' = Invalidated(p),
           History({p})
    PROVE  GalleryInv'
<1> USE DEF GalleryInv
<1>1. \A q \in Processes : cache'[q] = IF q = p THEN None ELSE cache[q]
  BY DEF Invalidated, GalleriesAreGalleries
<1>2. ReadersAreReaders' /\ GalleriesAreGalleries'
  BY <1>1 DEF ReadersAreReaders, GalleriesAreGalleries, Invalidated
<1>3. CASE stored' = stored /\ order' = order
  <2>1. quiet' = quiet /\ own' = own \cup {q \in {p} : Listing(q) = {}}
    BY <1>3 DEF History
  <2>2. \A q \in Processes : q # p => (Current(cache[q])' <=> Current(cache[q]))
    BY <1>1, <1>3 DEF Current
  <2>3. own' \subseteq Processes
    BY <2>1
  <2>4. LateListingsAreOld'
    BY <1>3, <2>1 DEF LateListingsAreOld, ListsWhatIsThere, Answers
  <2>5. StaleGalleriesAreOld' /\ OwnGalleriesAreCurrent'
    BY <1>1, <2>1, <2>2, <2>3 DEF StaleGalleriesAreOld, OwnGalleriesAreCurrent
  <2>6. OwnListingsAreCurrent'
    BY <1>3, <2>1 DEF OwnListingsAreCurrent, ListsWhatIsThere, Answers, Listing
  <2> QED
    BY <1>2, <2>1, <2>3, <2>4, <2>5, <2>6
<1>4. CASE ~(stored' = stored /\ order' = order)
  <2>1. quiet' = 0 /\ own' = {q \in {p} : Listing(q) = {}}
    BY <1>4 DEF History
  <2>2. own' \subseteq {p}
    BY <2>1
  <2>3. LateListingsAreOld' /\ StaleGalleriesAreOld'
    BY <1>2, <2>1 DEF LateListingsAreOld, StaleGalleriesAreOld, ReadersAreReaders,
                      GalleriesAreGalleries
  <2>4. OwnGalleriesAreCurrent'
    BY <1>1, <2>2 DEF OwnGalleriesAreCurrent
  <2>5. OwnListingsAreCurrent'
    BY <1>2, <2>2, <2>1, NoneIsNoProcess
    DEF OwnListingsAreCurrent, Listing
  <2> QED
    BY <1>2, <2>1, <2>2, <2>3, <2>4, <2>5
<1> QED
  BY <1>3, <1>4

\* A request that fails after the bucket may have changed.
LEMMA FailingKeeps ==
    ASSUME GalleryInv, UNCHANGED <<reader, cache>>, History({})
    PROVE  GalleryInv'
<1> USE DEF GalleryInv
<1>1. CASE stored' = stored /\ order' = order
  <2>1. quiet' = quiet /\ own' = own
    BY <1>1 DEF History
  <2> QED
    BY <1>1, <2>1, NothingShownChanges
<1>2. CASE ~(stored' = stored /\ order' = order)
  <2>1. quiet' = 0 /\ own' = {}
    BY <1>2 DEF History
  <2> QED
    BY <2>1 DEF ReadersAreReaders, GalleriesAreGalleries, LateListingsAreOld,
                StaleGalleriesAreOld, OwnListingsAreCurrent, OwnGalleriesAreCurrent
<1> QED
  BY <1>1, <1>2

\* A gallery is forgotten, or threads are, and nothing else happens.
LEMMA ForgettingKeeps ==
    ASSUME GalleryInv, UNCHANGED <<stored, order, quiet, own>>,
           cache' = [p \in Processes |-> cache'[p]],
           reader' = [r \in Readers |-> reader'[r]],
           \A p \in Processes : cache'[p] \in {None, cache[p]},
           \A r \in Readers : reader'[r] \in {IdleReader, reader[r]}
    PROVE  GalleryInv'
<1> USE DEF GalleryInv
<1>1. \A p \in Processes : cache'[p] # None =>
          cache'[p] = cache[p] /\ (Current(cache[p])' <=> Current(cache[p]))
  BY DEF Current
<1>2. /\ IdleReader.step = "list" /\ IdleReader.process = None /\ IdleReader.age = 0
      /\ IdleReader = [process |-> IdleReader.process, step |-> IdleReader.step,
                       found |-> IdleReader.found, shown |-> IdleReader.shown,
                       age |-> IdleReader.age]
  BY DEF IdleReader
<1>3. ReadersAreReaders' /\ GalleriesAreGalleries'
  BY <1>1, <1>2 DEF ReadersAreReaders, GalleriesAreGalleries
<1>4. LateListingsAreOld' /\ OwnListingsAreCurrent'
  BY <1>2 DEF LateListingsAreOld, OwnListingsAreCurrent, ListsWhatIsThere, Answers
<1>5. StaleGalleriesAreOld' /\ OwnGalleriesAreCurrent'
  BY <1>1 DEF StaleGalleriesAreOld, OwnGalleriesAreCurrent
<1> QED
  BY <1>3, <1>4, <1>5

\* What a step makes of a thread and of a gallery.
Begun(t, p) == [t EXCEPT !.process = p]
Listed(t, photos) == [t EXCEPT !.step = "order", !.found = photos]
Composed(t, photos) == [t EXCEPT !.step = "answer", !.found = {}, !.shown = photos]
Aged(t, age) == [t EXCEPT !.age = age]

\* Each leaves the other parts of the thread.
LEMMA ThreadsFit ==
    ASSUME NEW t, t = [process |-> t.process, step |-> t.step, found |-> t.found,
                       shown |-> t.shown, age |-> t.age],
           NEW x
    PROVE  /\ Begun(t, x) = [process |-> x, step |-> t.step, found |-> t.found,
                              shown |-> t.shown, age |-> t.age]
           /\ Listed(t, x) = [process |-> t.process, step |-> "order", found |-> x,
                               shown |-> t.shown, age |-> t.age]
           /\ Composed(t, x) = [process |-> t.process, step |-> "answer", found |-> {},
                                 shown |-> x, age |-> t.age]
           /\ Aged(t, x) = [process |-> t.process, step |-> t.step, found |-> t.found,
                             shown |-> t.shown, age |-> x]
<1>1. PICK p, s, f, h, a : t = [process |-> p, step |-> s, found |-> f, shown |-> h, age |-> a]
  OBVIOUS
<1>2. t.process = p /\ t.step = s /\ t.found = f /\ t.shown = h /\ t.age = a
  BY <1>1
<1>3. Begun(t, x) = [process |-> x, step |-> s, found |-> f, shown |-> h, age |-> a]
  BY <1>1 DEF Begun
<1>4. Listed(t, x) = [process |-> p, step |-> "order", found |-> x, shown |-> h, age |-> a]
  <2>1. PICK u : u = [t EXCEPT !.step = "order"]
    OBVIOUS
  <2>2. u = [process |-> p, step |-> "order", found |-> f, shown |-> h, age |-> a]
    BY <1>1, <2>1
  <2>3. [u EXCEPT !.found = x] =
            [process |-> p, step |-> "order", found |-> x, shown |-> h, age |-> a]
    BY <2>2
  <2>4. Listed(t, x) = [u EXCEPT !.found = x]
    BY <2>1 DEF Listed
  <2> QED
    BY <2>3, <2>4
<1>5. Composed(t, x) = [process |-> p, step |-> "answer", found |-> {}, shown |-> x, age |-> a]
  <2>1. PICK u : u = [t EXCEPT !.step = "answer"]
    OBVIOUS
  <2>2. u = [process |-> p, step |-> "answer", found |-> f, shown |-> h, age |-> a]
    BY <1>1, <2>1
  <2>3. PICK v : v = [u EXCEPT !.found = {}]
    OBVIOUS
  <2>4. v = [process |-> p, step |-> "answer", found |-> {}, shown |-> h, age |-> a]
    BY <2>2, <2>3
  <2>5. [v EXCEPT !.shown = x] =
            [process |-> p, step |-> "answer", found |-> {}, shown |-> x, age |-> a]
    BY <2>4
  <2>6. Composed(t, x) = [v EXCEPT !.shown = x]
    BY <2>1, <2>3 DEF Composed
  <2> QED
    BY <2>5, <2>6
<1>6. Aged(t, x) = [process |-> p, step |-> s, found |-> f, shown |-> h, age |-> x]
  BY <1>1 DEF Aged
<1> QED
  BY <1>2, <1>3, <1>4, <1>5, <1>6

\* A thread begins to list, or finds no storage client and no photos.
LEMMA BeginningKeeps ==
    ASSUME GalleryInv, NEW r \in Readers, NEW p \in Processes, BeginListing(r, p)
    PROVE  GalleryInv'
<1> USE DEF GalleryInv
<1>1. UNCHANGED <<stored, order, quiet, own>>
  BY DEF BeginListing
<1>2. CASE reader' = [reader EXCEPT ![r].process = p] /\ cache' = cache
  <2>1. PICK t : t = Begun(reader[r], p)
    OBVIOUS
  <2>2. /\ t = [process |-> t.process, step |-> t.step, found |-> t.found,
               shown |-> t.shown, age |-> t.age]
        /\ t.process = p /\ t.step = "list" /\ t.age = 0
    BY <2>1, ThreadsFit DEF BeginListing, ReadersAreReaders
  <2>3. reader' = [reader EXCEPT ![r] = t]
    BY <1>2, <2>1 DEF Begun
  <2>4. /\ reader' = [s \in Readers |-> reader'[s]]
        /\ \A s \in Readers : reader'[s] = IF s = r THEN t ELSE reader[s]
    BY <2>3 DEF ReadersAreReaders
  <2>5. ReadersAreReaders'
    BY <2>2, <2>4, NoneIsNoProcess DEF ReadersAreReaders
  <2>6. LateListingsAreOld' /\ OwnListingsAreCurrent'
    BY <1>1, <2>2, <2>4 DEF LateListingsAreOld, OwnListingsAreCurrent, ListsWhatIsThere, Answers
  <2>7. \A q \in Processes : Current(cache[q])' <=> Current(cache[q])
    BY <1>1, <1>2 DEF Current
  <2> QED
    BY <1>1, <1>2, <2>5, <2>6, <2>7
    DEF GalleriesAreGalleries, StaleGalleriesAreOld, OwnGalleriesAreCurrent
<1>3. CASE /\ cache' = [cache EXCEPT ![p] = [shown |-> <<>>, age |-> 0, blind |-> TRUE]]
           /\ reader' = reader
  <2>1. PICK g : g = [shown |-> <<>>, age |-> 0, blind |-> TRUE]
    OBVIOUS
  <2>2. /\ g = [shown |-> g.shown, age |-> g.age, blind |-> g.blind]
        /\ g.age = 0 /\ g.blind
    BY <2>1
  <2>3. /\ cache' = [q \in Processes |-> cache'[q]]
        /\ \A q \in Processes : cache'[q] = IF q = p THEN g ELSE cache[q]
    BY <1>3, <2>1 DEF GalleriesAreGalleries
  <2>4. GalleriesAreGalleries'
    BY <2>2, <2>3 DEF GalleriesAreGalleries
  <2>5. \A q \in Processes : q # p => (Current(cache[q])' <=> Current(cache[q]))
    BY <1>1, <2>3 DEF Current
  <2>6. Current(cache[p])'
    BY <2>2, <2>3 DEF Current
  <2>7. StaleGalleriesAreOld' /\ OwnGalleriesAreCurrent'
    BY <1>1, <2>3, <2>5, <2>6 DEF StaleGalleriesAreOld, OwnGalleriesAreCurrent
  <2> QED
    BY <1>1, <1>3, <2>4, <2>7
    DEF ReadersAreReaders, LateListingsAreOld, OwnListingsAreCurrent, ListsWhatIsThere, Answers
<1> QED
  BY <1>2, <1>3 DEF BeginListing

\* A thread lists what is stored.
LEMMA ListingKeeps ==
    ASSUME GalleryInv, NEW r \in Readers, reader[r].process # None,
           reader' = [reader EXCEPT ![r].step = "order", ![r].found = stored],
           UNCHANGED <<stored, order, cache, quiet, own>>
    PROVE  GalleryInv'
<1> USE DEF GalleryInv
<1>1. PICK t : t = Listed(reader[r], stored)
  OBVIOUS
<1>2. /\ t = [process |-> t.process, step |-> t.step, found |-> t.found,
               shown |-> t.shown, age |-> t.age]
      /\ t.process = reader[r].process /\ t.step = "order" /\ t.age = reader[r].age
      /\ t.found = stored
  BY <1>1, ThreadsFit DEF ReadersAreReaders
<1>3. reader' = [reader EXCEPT ![r] = t]
  BY <1>1 DEF Listed
<1>4. /\ reader' = [s \in Readers |-> reader'[s]]
      /\ \A s \in Readers : reader'[s] = IF s = r THEN t ELSE reader[s]
  BY <1>3 DEF ReadersAreReaders
<1>5. ReadersAreReaders'
  BY <1>2, <1>4 DEF ReadersAreReaders
<1>6. LateListingsAreOld' /\ OwnListingsAreCurrent'
  BY <1>2, <1>4 DEF LateListingsAreOld, OwnListingsAreCurrent, ListsWhatIsThere, Answers
<1>7. \A q \in Processes : Current(cache[q])' <=> Current(cache[q])
  BY DEF Current
<1> QED
  BY <1>5, <1>6, <1>7 DEF GalleriesAreGalleries, StaleGalleriesAreOld, OwnGalleriesAreCurrent

\* A thread reads the order: its gallery is current if it listed what is stored.
LEMMA ComposingKeeps ==
    ASSUME GalleryInv, NEW r \in Readers, reader[r].step = "order",
           reader' = [reader EXCEPT ![r].step = "answer", ![r].found = {},
                                    ![r].shown = Ordered(reader[r].found, order)],
           UNCHANGED <<stored, order, cache, quiet, own>>
    PROVE  GalleryInv'
<1> USE DEF GalleryInv
<1>1. PICK t : t = Composed(reader[r], Ordered(reader[r].found, order))
  OBVIOUS
<1>2. /\ t = [process |-> t.process, step |-> t.step, found |-> t.found,
               shown |-> t.shown, age |-> t.age]
      /\ t.process = reader[r].process /\ t.step = "answer" /\ t.age = reader[r].age
      /\ t.shown = Ordered(reader[r].found, order)
  <2>1. reader[r] = [process |-> reader[r].process, step |-> reader[r].step,
                     found |-> reader[r].found, shown |-> reader[r].shown,
                     age |-> reader[r].age]
    BY DEF ReadersAreReaders
  <2>2. t = [process |-> reader[r].process, step |-> "answer", found |-> {},
             shown |-> Ordered(reader[r].found, order), age |-> reader[r].age]
    BY <1>1, <2>1, ThreadsFit
  <2> QED
    BY <2>2
<1>3. reader' = [reader EXCEPT ![r] = t]
  BY <1>1 DEF Composed
<1>4. /\ reader' = [s \in Readers |-> reader'[s]]
      /\ \A s \in Readers : reader'[s] = IF s = r THEN t ELSE reader[s]
  BY <1>3 DEF ReadersAreReaders
<1>5. ReadersAreReaders'
  <2>1. reader[r].process # None
    BY DEF ReadersAreReaders
  <2> QED
    BY <1>2, <1>4, <2>1 DEF ReadersAreReaders
<1>6. ListsWhatIsThere(r) => t.shown = Ordered(stored, order)
  BY <1>2 DEF ListsWhatIsThere
<1>7. LateListingsAreOld' /\ OwnListingsAreCurrent'
  <2>1. \A s \in Readers : s # r => (ListsWhatIsThere(s)' <=> ListsWhatIsThere(s))
    BY <1>4 DEF ListsWhatIsThere, Answers
  <2>2. ListsWhatIsThere(r) => ListsWhatIsThere(r)'
    BY <1>2, <1>4, <1>6 DEF ListsWhatIsThere, Answers
  <2>3. \A s \in Readers : /\ reader'[s].process = reader[s].process
                           /\ reader'[s].age = reader[s].age
    BY <1>2, <1>4
  <2>4. \A s \in Readers : ListsWhatIsThere(s) => ListsWhatIsThere(s)'
    BY <2>1, <2>2
  <2>5. LateListingsAreOld'
    BY <2>3, <2>4 DEF LateListingsAreOld
  <2>6. OwnListingsAreCurrent'
    BY <2>3, <2>4 DEF OwnListingsAreCurrent
  <2> QED
    BY <2>5, <2>6
<1>8. \A q \in Processes : Current(cache[q])' <=> Current(cache[q])
  BY DEF Current
<1> QED
  BY <1>5, <1>7, <1>8 DEF GalleriesAreGalleries, StaleGalleriesAreOld, OwnGalleriesAreCurrent

\* A thread keeps the gallery it has made: current if it listed what is stored,
\* and otherwise as old as the listing.
LEMMA KeepingKeeps ==
    ASSUME GalleryInv, NEW r \in Readers, Answers(r), Age(r) # 2,
           cache' = [cache EXCEPT ![reader[r].process] =
                        [shown |-> reader[r].shown, age |-> Age(r), blind |-> FALSE]],
           reader' = [reader EXCEPT ![r] = IdleReader],
           UNCHANGED <<stored, order, quiet, own>>
    PROVE  GalleryInv'
<1> USE DEF GalleryInv
<1>1. PICK p \in Processes : p = reader[r].process
  BY DEF Answers, ReadersAreReaders
<1>2. PICK g : g = [shown |-> reader[r].shown, age |-> Age(r), blind |-> FALSE]
  OBVIOUS
<1>3. /\ g = [shown |-> g.shown, age |-> g.age, blind |-> g.blind]
      /\ g.age = reader[r].age /\ g.age \in 0..1 /\ g.shown = reader[r].shown
  BY <1>2 DEF Age, ReadersAreReaders
<1>4. /\ cache' = [q \in Processes |-> cache'[q]]
      /\ \A q \in Processes : cache'[q] = IF q = p THEN g ELSE cache[q]
  BY <1>1, <1>2 DEF GalleriesAreGalleries
<1>5. /\ reader' = [s \in Readers |-> reader'[s]]
      /\ \A s \in Readers : reader'[s] = IF s = r THEN IdleReader ELSE reader[s]
  BY DEF ReadersAreReaders
<1>6. /\ IdleReader.step = "list" /\ IdleReader.process = None /\ IdleReader.age = 0
      /\ IdleReader = [process |-> IdleReader.process, step |-> IdleReader.step,
                       found |-> IdleReader.found, shown |-> IdleReader.shown,
                       age |-> IdleReader.age]
  BY DEF IdleReader
<1>7. ReadersAreReaders' /\ GalleriesAreGalleries'
  <2>1. ReadersAreReaders'
    BY <1>5, <1>6 DEF ReadersAreReaders
  <2>2. GalleriesAreGalleries'
    BY <1>3, <1>4 DEF GalleriesAreGalleries
  <2> QED
    BY <2>1, <2>2
<1>8. LateListingsAreOld' /\ OwnListingsAreCurrent'
  BY <1>5, <1>6 DEF LateListingsAreOld, OwnListingsAreCurrent, ListsWhatIsThere, Answers
<1>9. \A q \in Processes : q # p => (Current(cache[q])' <=> Current(cache[q]))
  BY <1>4 DEF Current
<1>10. ListsWhatIsThere(r) => Current(cache[p])'
  BY <1>3, <1>4 DEF Current, ListsWhatIsThere
<1>11. ~ListsWhatIsThere(r) => g.age >= quiet /\ p \notin own
  BY <1>1, <1>3 DEF LateListingsAreOld, OwnListingsAreCurrent
<1>12. StaleGalleriesAreOld' /\ OwnGalleriesAreCurrent'
  BY <1>4, <1>9, <1>10, <1>11 DEF StaleGalleriesAreOld, OwnGalleriesAreCurrent
<1> QED
  BY <1>7, <1>8, <1>12

\* A minute passes for the bucket, the threads and the galleries alike.
LEMMA TickKeeps ==
    ASSUME GalleryInv, Tick
    PROVE  GalleryInv'
<1> USE DEF GalleryInv
<1>1. UNCHANGED <<stored, order, own>> /\ quiet' = AtMostTwo(quiet + 1)
  BY DEF Tick
<1>2. quiet' \in 0..2
  BY <1>1 DEF AtMostTwo
<1>3. ASSUME NEW r \in Readers
      PROVE  /\ reader'[r] = [process |-> reader'[r].process, step |-> reader'[r].step,
                              found |-> reader'[r].found, shown |-> reader'[r].shown,
                              age |-> reader'[r].age]
             /\ reader'[r].process = reader[r].process /\ reader'[r].step = reader[r].step
             /\ reader'[r].found = reader[r].found /\ reader'[r].shown = reader[r].shown
             /\ reader'[r].age = IF reader[r].process = None THEN reader[r].age
                                 ELSE AtMostTwo(reader[r].age + 1)
  <2>1. reader'[r] = IF reader[r].process = None THEN reader[r]
                     ELSE Aged(reader[r], AtMostTwo(reader[r].age + 1))
    BY DEF Tick, Aged
  <2>2. reader[r] = [process |-> reader[r].process, step |-> reader[r].step,
                     found |-> reader[r].found, shown |-> reader[r].shown,
                     age |-> reader[r].age]
    BY DEF ReadersAreReaders
  <2>3. reader'[r] = [process |-> reader[r].process, step |-> reader[r].step,
                      found |-> reader[r].found, shown |-> reader[r].shown,
                      age |-> IF reader[r].process = None THEN reader[r].age
                              ELSE AtMostTwo(reader[r].age + 1)]
    BY <2>1, <2>2, ThreadsFit
  <2> QED
    BY <2>3
<1>4. reader' = [r \in Readers |-> reader'[r]] /\ cache' = [p \in Processes |-> cache'[p]]
  BY DEF Tick
<1>5. ReadersAreReaders'
  BY <1>3, <1>4 DEF ReadersAreReaders, AtMostTwo
<1>6. \A r \in Readers : ListsWhatIsThere(r)' <=> ListsWhatIsThere(r)
  BY <1>1, <1>3 DEF ListsWhatIsThere, Answers
<1>7. LateListingsAreOld' /\ OwnListingsAreCurrent'
  <2>1. ASSUME NEW r \in Readers, ~ListsWhatIsThere(r)'
        PROVE  reader'[r].age >= quiet'
    <3>1. ~ListsWhatIsThere(r) /\ reader[r].step # "list"
      BY <1>6, <2>1 DEF ListsWhatIsThere, Answers
    <3>2. reader[r].process # None /\ reader[r].age \in 0..2 /\ reader[r].age >= quiet
      BY <3>1 DEF ReadersAreReaders, LateListingsAreOld
    <3>3. reader'[r].age = AtMostTwo(reader[r].age + 1)
      BY <1>3, <3>2
    <3> QED
      BY <1>1, <3>2, <3>3 DEF AtMostTwo
  <2>2. OwnListingsAreCurrent'
    BY <1>1, <1>3, <1>6 DEF OwnListingsAreCurrent
  <2> QED
    BY <2>1, <2>2 DEF LateListingsAreOld
<1>8. ASSUME NEW p \in Processes, cache'[p] # None
      PROVE  /\ cache[p] # None /\ cache[p].age = 0 /\ cache'[p].age = 1
             /\ cache'[p] = [shown |-> cache[p].shown, age |-> 1, blind |-> cache[p].blind]
             /\ Current(cache[p])' <=> Current(cache[p])
  <2>1. cache[p] # None /\ cache[p].age # 1 /\ cache'[p] = [cache[p] EXCEPT !.age = 1]
    BY <1>8 DEF Tick
  <2>2. /\ cache[p] = [shown |-> cache[p].shown, age |-> cache[p].age, blind |-> cache[p].blind]
        /\ cache[p].age = 0
    BY <2>1 DEF GalleriesAreGalleries
  <2>3. PICK s, b : cache[p] = [shown |-> s, age |-> 0, blind |-> b]
    BY <2>2
  <2>4. cache'[p] = [shown |-> s, age |-> 1, blind |-> b] /\ cache[p].shown = s /\ cache[p].blind = b
    BY <2>1, <2>3
  <2>5. cache'[p].shown = s /\ cache'[p].blind = b /\ cache'[p].age = 1
    BY <2>4
  <2>6. Current(cache[p])' <=> Current(cache[p])
    BY <1>1, <2>4, <2>5 DEF Current
  <2> QED
    BY <2>1, <2>2, <2>4, <2>5, <2>6
<1>9. GalleriesAreGalleries'
  BY <1>4, <1>8 DEF GalleriesAreGalleries
<1>10. StaleGalleriesAreOld' /\ OwnGalleriesAreCurrent'
  <2>1. ASSUME NEW p \in Processes, cache'[p] # None, ~Current(cache[p])'
        PROVE  cache'[p].age >= quiet'
    <3>1. cache[p] # None /\ cache[p].age = 0 /\ cache'[p].age = 1 /\ ~Current(cache[p])
      BY <1>8, <2>1
    <3>2. quiet = 0
      BY <3>1 DEF StaleGalleriesAreOld
    <3> QED
      BY <1>1, <3>1, <3>2 DEF AtMostTwo
  <2>2. OwnGalleriesAreCurrent'
    BY <1>1, <1>8 DEF OwnGalleriesAreCurrent
  <2> QED
    BY <2>1, <2>2 DEF StaleGalleriesAreOld
<1> QED
  BY <1>1, <1>2, <1>5, <1>7, <1>9, <1>10

--------------------------------------------------------------------------------
\* No thread lists and no gallery is shown at first, and every step keeps what
\* the invariant says of them.
LEMMA GalleryInvInit == Init => GalleryInv
<1> SUFFICES ASSUME Init PROVE GalleryInv
  OBVIOUS
<1>1. /\ IdleReader.step = "list" /\ IdleReader.process = None /\ IdleReader.age = 0
      /\ IdleReader = [process |-> IdleReader.process, step |-> IdleReader.step,
                       found |-> IdleReader.found, shown |-> IdleReader.shown,
                       age |-> IdleReader.age]
  BY DEF IdleReader
<1>2. ReadersAreReaders
  BY <1>1 DEF Init, ReadersAreReaders
<1>3. LateListingsAreOld /\ OwnListingsAreCurrent
  BY <1>1 DEF Init, LateListingsAreOld, OwnListingsAreCurrent, ListsWhatIsThere, Answers
<1>4. GalleriesAreGalleries /\ StaleGalleriesAreOld /\ OwnGalleriesAreCurrent
  BY DEF Init, GalleriesAreGalleries, StaleGalleriesAreOld, OwnGalleriesAreCurrent
<1> QED
  BY <1>2, <1>3, <1>4 DEF Init, GalleryInv

\* Every step keeps what the galleries, the threads and the clients say.
LEMMA GalleryInvStep == GalleryInv /\ [Next]_vars => GalleryInv'
<1> SUFFICES ASSUME GalleryInv, [Next]_vars
             PROVE  GalleryInv'
  OBVIOUS
<1>1. ASSUME NEW p \in Processes,
             \/ AskUpload(p) \/ AskDelete(p) \/ AskOrder(p) \/ Look(p) \/ Prune(p) \/ Clean(p)
      PROVE  GalleryInv'
  <2>1. UNCHANGED <<stored, order, cache, reader, quiet, own>>
    BY <1>1 DEF AskUpload, AskDelete, AskOrder, Asks, Look, Prune, Clean
  <2> QED
    BY <2>1, NothingShownChanges
<1>2. ASSUME NEW p \in Processes, Put(p)
      PROVE  GalleryInv'
  <2>1. reader' = reader
    BY <1>2 DEF Put
  <2>2. \/ cache' = Invalidated(p) /\ History({p})
        \/ cache' = cache /\ History({})
    BY <1>2 DEF Put, Stores
  <2> QED
    BY <2>1, <2>2, AnsweringKeeps, FailingKeeps
<1>3. ASSUME NEW p \in Processes, Check(p)
      PROVE  GalleryInv'
  <2>1. UNCHANGED <<stored, order, reader>>
    BY <1>3 DEF Check
  <2>2. \/ cache' = Invalidated(p) /\ History({p})
        \/ UNCHANGED <<cache, quiet, own>>
    BY <1>3 DEF Check, Stores
  <2> QED
    BY <2>1, <2>2, AnsweringKeeps, NothingShownChanges
<1>4. ASSUME NEW p \in Processes, Delete(p) \/ WriteOrder(p)
      PROVE  GalleryInv'
  <2>1. reader' = reader
    BY <1>4 DEF Delete, WriteOrder
  <2>2. \/ cache' = Invalidated(p) /\ History({p})
        \/ cache' = cache /\ History({})
    BY <1>4 DEF Delete, WriteOrder
  <2> QED
    BY <2>1, <2>2, AnsweringKeeps, FailingKeeps
<1>5. ASSUME NEW p \in Processes, RunsOut(p) \/ Restart(p)
      PROVE  GalleryInv'
  <2>1. /\ UNCHANGED <<stored, order, quiet, own>> /\ cache' = [cache EXCEPT ![p] = None]
        /\ \/ reader' = reader
           \/ reader' = [r \in Readers |-> IF r \in Listing(p) THEN IdleReader ELSE reader[r]]
    BY <1>5 DEF RunsOut, Restart, Invalidated
  <2>2. /\ cache' = [q \in Processes |-> cache'[q]]
        /\ \A q \in Processes : cache'[q] \in {None, cache[q]}
    BY <2>1 DEF GalleryInv, GalleriesAreGalleries
  <2>3. /\ reader' = [r \in Readers |-> reader'[r]]
        /\ \A r \in Readers : reader'[r] \in {IdleReader, reader[r]}
    BY <2>1 DEF GalleryInv, ReadersAreReaders
  <2> QED
    BY <2>1, <2>2, <2>3, ForgettingKeeps
<1>6. ASSUME NEW r \in Readers, ListPhotos(r)
      PROVE  GalleryInv'
  <2>1. CASE reader' = [reader EXCEPT ![r] = IdleReader]
    <3>1. UNCHANGED <<stored, order, quiet, own, cache>>
      BY <1>6 DEF ListPhotos
    <3>2. cache' = [q \in Processes |-> cache'[q]]
      BY <3>1 DEF GalleryInv, GalleriesAreGalleries
    <3>3. /\ reader' = [s \in Readers |-> reader'[s]]
          /\ \A s \in Readers : reader'[s] \in {IdleReader, reader[s]}
      BY <2>1 DEF GalleryInv, ReadersAreReaders
    <3> QED
      BY <3>1, <3>2, <3>3, ForgettingKeeps
  <2> QED
    BY <1>6, <2>1, ListingKeeps DEF ListPhotos
<1>7. ASSUME NEW r \in Readers, ReadOrder(r)
      PROVE  GalleryInv'
  <2>1. CASE reader' = [reader EXCEPT ![r] = IdleReader]
    <3>1. UNCHANGED <<stored, order, quiet, own, cache>>
      BY <1>7 DEF ReadOrder
    <3>2. cache' = [q \in Processes |-> cache'[q]]
      BY <3>1 DEF GalleryInv, GalleriesAreGalleries
    <3>3. /\ reader' = [s \in Readers |-> reader'[s]]
          /\ \A s \in Readers : reader'[s] \in {IdleReader, reader[s]}
      BY <2>1 DEF GalleryInv, ReadersAreReaders
    <3> QED
      BY <3>1, <3>2, <3>3, ForgettingKeeps
  <2> QED
    BY <1>7, <2>1, ComposingKeeps DEF ReadOrder
<1>8. ASSUME NEW r \in Readers, KeepGallery(r)
      PROVE  GalleryInv'
  <2>1. CASE Age(r) = 2
    <3>1. /\ UNCHANGED <<stored, order, quiet, own>>
          /\ reader' = [reader EXCEPT ![r] = IdleReader]
          /\ cache' = [cache EXCEPT ![reader[r].process] = None]
      BY <1>8, <2>1 DEF KeepGallery
    <3>2. /\ cache' = [q \in Processes |-> cache'[q]]
          /\ \A q \in Processes : cache'[q] \in {None, cache[q]}
      BY <3>1 DEF GalleryInv, GalleriesAreGalleries
    <3>3. /\ reader' = [s \in Readers |-> reader'[s]]
          /\ \A s \in Readers : reader'[s] \in {IdleReader, reader[s]}
      BY <3>1 DEF GalleryInv, ReadersAreReaders
    <3> QED
      BY <3>1, <3>2, <3>3, ForgettingKeeps
  <2>2. CASE Age(r) # 2
    BY <1>8, <2>2, KeepingKeeps DEF KeepGallery, Answers
  <2> QED
    BY <2>1, <2>2
<1>9. CASE UNCHANGED vars
  BY <1>9, NothingShownChanges DEF vars
<1> QED
  BY <1>1, <1>2, <1>3, <1>4, <1>5, <1>6, <1>7, <1>8, <1>9, BeginningKeeps, TickKeeps DEF Next

\* The invariant holds in every state.
LEMMA GalleryInvHolds == Spec => []GalleryInv
  BY GalleryInvInit, GalleryInvStep, PTL DEF Spec

--------------------------------------------------------------------------------
\* A minute after the bucket was last changed, by whichever process and however
\* the request ended, list_all_grouped keeps no older gallery in any process, and
\* answers with none from a listing that began within that minute.
THEOREM GalleriesCatchUp == Spec => []ListedWithinAMinute
<1>1. GalleryInv => ListedWithinAMinute
  BY DEF GalleryInv, ReadersAreReaders, GalleriesAreGalleries, LateListingsAreOld,
         StaleGalleriesAreOld, ListsWhatIsThere, ListedWithinAMinute
<1> QED
  BY <1>1, GalleryInvHolds, PTL

\* The process that answered a staff request keeps, and lists, its outcome from
\* then on, unless one of its threads was listing already.
THEOREM AnswersAreShown == Spec => []ListedAtOnce
<1>1. GalleryInv => ListedAtOnce
  BY DEF GalleryInv, OwnGalleriesAreCurrent, OwnListingsAreCurrent, ListsWhatIsThere, Listing,
         ListedAtOnce
<1> QED
  BY <1>1, GalleryInvHolds, PTL

--------------------------------------------------------------------------------
(* Picking from a sequence: what comes out, and in which order.               *)

\* The ranks of places count them, in their order.
LEMMA RanksCount ==
    ASSUME NEW places \in SUBSET Nat, IsFiniteSet(places), NEW i \in places
    PROVE  /\ Rank(i, places) \in 1..Cardinality(places)
           /\ \A j \in places : i < j => Rank(i, places) < Rank(j, places)
<1> DEFINE upTo(k) == {j \in places : j <= k}
<1>1. \A k \in places : /\ IsFiniteSet(upTo(k)) /\ Cardinality(upTo(k)) \in Nat
                        /\ Cardinality(upTo(k)) <= Cardinality(places)
                        /\ Rank(k, places) = Cardinality(upTo(k))
  BY FS_Subset, FS_CardinalityType DEF Rank
<1>2. Cardinality(places) \in Nat
  BY FS_CardinalityType
<1>3. Cardinality(upTo(i)) # 0
  <2>1. i \in upTo(i)
    OBVIOUS
  <2> QED
    BY <1>1, <2>1, FS_EmptySet
<1>4. ASSUME NEW j \in places, i < j
      PROVE  Cardinality(upTo(i)) < Cardinality(upTo(j))
  <2>1. upTo(i) \subseteq upTo(j) /\ j \in upTo(j) /\ j \notin upTo(i)
    <3>1. i \in Int /\ j \in Int /\ \A k \in places : k \in Int
      OBVIOUS
    <3>2. j \notin upTo(i) /\ j \in upTo(j)
      BY <1>4, <3>1
    <3>3. \A k \in places : k <= i => k <= j
      BY <1>4, <3>1
    <3> QED
      BY <3>2, <3>3
  <2>2. /\ Cardinality(upTo(i)) <= Cardinality(upTo(j))
        /\ Cardinality(upTo(j)) = Cardinality(upTo(i)) => upTo(j) = upTo(i)
    <3> HIDE DEF upTo
    <3> QED
      BY <1>1, <1>4, <2>1, FS_Subset
  <2> HIDE DEF upTo
  <2> QED
    BY <1>1, <2>1, <2>2
<1> QED
  <2> HIDE DEF upTo
  <2> QED
    BY <1>1, <1>2, <1>3, <1>4

\* The n-th of some places.
Nth(n, places) == CHOOSE i \in places : Rank(i, places) = n

\* There is one for each number up to how many there are, and they ascend.
LEMMA PlacesAscend ==
    ASSUME NEW places \in SUBSET Nat, IsFiniteSet(places)
    PROVE  /\ Cardinality(places) \in Nat
           /\ \A n \in 1..Cardinality(places) : Nth(n, places) \in places
           /\ \A i \in places : \E n \in 1..Cardinality(places) : Nth(n, places) = i
           /\ \A m, n \in 1..Cardinality(places) :
                  m < n <=> Nth(m, places) < Nth(n, places)
<1> DEFINE count == Cardinality(places)
           rank == [i \in places |-> Rank(i, places)]
<1>1. count \in Nat /\ IsFiniteSet(1..count) /\ Cardinality(1..count) = count
  BY FS_CardinalityType, FS_Interval
<1>2. \A i, j \in places : i < j => rank[i] < rank[j]
  BY RanksCount
<1>3. rank \in [places -> 1..count]
  BY RanksCount
<1>4. rank \in Injection(places, 1..count)
  <2>1. \A i, j \in places : rank[i] = rank[j] => i = j
    <3>1. \A i, j \in places : rank[i] \in Int /\ (i < j \/ j < i \/ i = j)
      BY <1>1, <1>3
    <3> HIDE DEF rank
    <3> QED
      BY <1>2, <3>1
  <2> HIDE DEF rank, count
  <2> QED
    BY <1>3, <2>1 DEF Injection, IsInjective
<1>5. rank \in Surjection(places, 1..count)
  <2> HIDE DEF rank
  <2> QED
    BY <1>1, <1>4, FS_Injection
<1>6. \A n \in 1..count : \E i \in places : rank[i] = n
  <2> HIDE DEF rank, count
  <2> QED
    BY <1>5 DEF Surjection
<1>7. \A n \in 1..count : Nth(n, places) \in places /\ rank[Nth(n, places)] = n
  BY <1>6 DEF Nth
<1>8. \A i \in places : rank[i] \in 1..count /\ Nth(rank[i], places) = i
  <2>1. \A i, j \in places : rank[i] = rank[j] => i = j
    <3> HIDE DEF rank, count
    <3> QED
      BY <1>4 DEF Injection, IsInjective
  <2> HIDE DEF rank, count
  <2> QED
    BY <1>3, <1>7, <2>1
<1>9. \A m, n \in 1..count : m < n <=> Nth(m, places) < Nth(n, places)
  <2> SUFFICES ASSUME NEW m \in 1..count, NEW n \in 1..count
               PROVE  m < n <=> Nth(m, places) < Nth(n, places)
    OBVIOUS
  <2>1. PICK i \in places, j \in places :
            i = Nth(m, places) /\ j = Nth(n, places) /\ rank[i] = m /\ rank[j] = n
    BY <1>7
  <2>2. i < j => m < n
    BY <1>2, <2>1
  <2>3. j < i => n < m
    BY <1>2, <2>1
  <2>4. i = j => m = n
    BY <2>1
  <2> HIDE DEF rank, count
  <2> QED
    BY <1>1, <2>1, <2>2, <2>3, <2>4
<1> QED
  <2> HIDE DEF rank
  <2> QED
    BY <1>1, <1>7, <1>8, <1>9

\* What is picked from a sequence: the names at the places, in their order.
LEMMA PickingKeepsOrder ==
    ASSUME NEW S, NEW names \in Seq(S), NEW places \in SUBSET (DOMAIN names)
    PROVE  /\ Picked(names, places) \in Seq(S)
           /\ Len(Picked(names, places)) <= Len(names)
           /\ ToSet(Picked(names, places)) = {names[i] : i \in places}
           /\ \A f, g : Before(f, g, Picked(names, places)) <=>
                  \E i, j \in places : i < j /\ names[i] = f /\ names[j] = g
           /\ (\A i, j \in places : names[i] = names[j] => i = j) =>
                  IsInjective(Picked(names, places))
<1> DEFINE count == Cardinality(places)
           picked == Picked(names, places)
           nth(n) == Nth(n, places)
<1>1. Len(names) \in Nat /\ DOMAIN names = 1..Len(names) /\ \A i \in DOMAIN names : names[i] \in S
  BY LenProperties
<1>2. places \in SUBSET Nat /\ IsFiniteSet(places) /\ count <= Len(names)
  <2>1. IsFiniteSet(1..Len(names)) /\ Cardinality(1..Len(names)) = Len(names)
    <3>1. Cardinality(1..Len(names)) = IF 1 > Len(names) THEN 0 ELSE Len(names) - 1 + 1
      BY <1>1, FS_Interval
    <3> QED
      BY <1>1, <3>1, FS_Interval
  <2>2. places \in SUBSET (1..Len(names))
    BY <1>1
  <2> QED
    BY <1>1, <2>1, <2>2, FS_Subset
<1>3. /\ count \in Nat
      /\ \A n \in 1..count : nth(n) \in places
      /\ \A i \in places : \E n \in 1..count : nth(n) = i
      /\ \A m, n \in 1..count : m < n <=> nth(m) < nth(n)
  BY <1>2, PlacesAscend
<1>4. picked = [n \in 1..count |-> names[nth(n)]]
  BY DEF Picked, Nth
<1> HIDE DEF picked, nth, count
<1>5. picked \in Seq(S) /\ DOMAIN picked = 1..count /\ Len(picked) = count
  <2>1. picked \in [1..count -> S]
    BY <1>1, <1>3, <1>4
  <2> QED
    BY <1>3, <2>1, SeqDef
<1>6. \A n \in 1..count : picked[n] = names[nth(n)]
  BY <1>4
<1>7. ToSet(picked) = {names[i] : i \in places}
  BY <1>3, <1>5, <1>6 DEF ToSet
<1>8. ASSUME NEW f, NEW g
      PROVE  Before(f, g, picked) <=> \E i, j \in places : i < j /\ names[i] = f /\ names[j] = g
  <2>1. ASSUME Before(f, g, picked)
        PROVE  \E i, j \in places : i < j /\ names[i] = f /\ names[j] = g
    <3>1. PICK m \in 1..count, n \in 1..count : m < n /\ picked[m] = f /\ picked[n] = g
      BY <1>5, <2>1 DEF Before
    <3>2. /\ nth(m) \in places /\ nth(n) \in places /\ nth(m) < nth(n)
          /\ names[nth(m)] = f /\ names[nth(n)] = g
      BY <1>3, <1>6, <3>1
    <3> QED
      BY <3>2
  <2>2. ASSUME NEW i \in places, NEW j \in places, i < j, names[i] = f, names[j] = g
        PROVE  Before(f, g, picked)
    <3>1. PICK m \in 1..count, n \in 1..count : nth(m) = i /\ nth(n) = j
      BY <1>3
    <3>2. m < n /\ picked[m] = f /\ picked[n] = g
      BY <1>3, <1>6, <2>2, <3>1
    <3> QED
      BY <1>5, <3>2 DEF Before
  <2> QED
    BY <2>1, <2>2
<1>9. ASSUME \A i, j \in places : names[i] = names[j] => i = j
      PROVE  IsInjective(picked)
  <2> SUFFICES ASSUME NEW m \in 1..count, NEW n \in 1..count, picked[m] = picked[n]
               PROVE  m = n
    BY <1>5 DEF IsInjective
  <2>1. nth(m) = nth(n) /\ nth(m) \in Nat
    BY <1>2, <1>3, <1>6, <1>9
  <2>2. ~(m < n) /\ ~(n < m)
    BY <1>3, <2>1
  <2> QED
    BY <1>3, <2>2
<1> QED
  BY <1>2, <1>5, <1>7, <1>8, <1>9 DEF picked

\* One sequence after another.
LEMMA ConcatKeepsOrder ==
    ASSUME NEW S, NEW s \in Seq(S), NEW t \in Seq(S)
    PROVE  /\ s \o t \in Seq(S)
           /\ ToSet(s \o t) = ToSet(s) \cup ToSet(t)
           /\ \A f, g : Before(f, g, s \o t) <=>
                  \/ Before(f, g, s) \/ Before(f, g, t)
                  \/ f \in ToSet(s) /\ g \in ToSet(t)
           /\ IsInjective(s) /\ IsInjective(t) /\ ToSet(s) \cap ToSet(t) = {} =>
                  IsInjective(s \o t)
<1> DEFINE both == s \o t
           shift(n) == Len(s) + n
<1>1. /\ Len(s) \in Nat /\ Len(t) \in Nat
      /\ DOMAIN s = 1..Len(s) /\ DOMAIN t = 1..Len(t)
  BY LenProperties
<1>2. /\ both \in Seq(S) /\ Len(both) = Len(s) + Len(t)
      /\ \A i \in 1..(Len(s) + Len(t)) :
             both[i] = IF i <= Len(s) THEN s[i] ELSE t[i - Len(s)]
  BY ConcatProperties
<1>3. DOMAIN both = 1..(Len(s) + Len(t))
  BY <1>2, LenProperties
<1> HIDE DEF both
<1>4. \A i \in DOMAIN s : i \in DOMAIN both /\ both[i] = s[i]
  BY <1>1, <1>2, <1>3
<1>5. \A i \in DOMAIN t : shift(i) \in DOMAIN both /\ both[shift(i)] = t[i]
  <2> SUFFICES ASSUME NEW i \in 1..Len(t)
               PROVE  shift(i) \in DOMAIN both /\ both[shift(i)] = t[i]
    BY <1>1
  <2>1. shift(i) \in 1..(Len(s) + Len(t)) /\ ~(shift(i) <= Len(s)) /\ shift(i) - Len(s) = i
    BY <1>1
  <2> HIDE DEF shift
  <2> QED
    BY <1>2, <1>3, <2>1
<1>6. \A i \in DOMAIN both : i \in DOMAIN s \/ \E n \in DOMAIN t : i = shift(n)
  <2> SUFFICES ASSUME NEW i \in 1..(Len(s) + Len(t)), i \notin 1..Len(s)
               PROVE  \E n \in DOMAIN t : i = shift(n)
    BY <1>1, <1>3
  <2>1. i - Len(s) \in DOMAIN t /\ i = shift(i - Len(s))
    BY <1>1
  <2> QED
    BY <2>1
<1>7. /\ \A i \in DOMAIN s, n \in DOMAIN t : i < shift(n) /\ ~(shift(n) < i)
      /\ \A m, n \in DOMAIN t : shift(m) < shift(n) <=> m < n
  BY <1>1
<1> HIDE DEF shift
<1>8. ToSet(both) = ToSet(s) \cup ToSet(t)
  BY <1>4, <1>5, <1>6 DEF ToSet
<1>9. ASSUME NEW f, NEW g
      PROVE  Before(f, g, both) <=> \/ Before(f, g, s) \/ Before(f, g, t)
                                    \/ f \in ToSet(s) /\ g \in ToSet(t)
  <2>1. CASE Before(f, g, both)
    <3>1. PICK i \in DOMAIN both, j \in DOMAIN both : i < j /\ both[i] = f /\ both[j] = g
      BY <2>1 DEF Before
    <3>2. CASE i \in DOMAIN s /\ j \in DOMAIN s
      BY <1>4, <3>1, <3>2 DEF Before
    <3>3. CASE i \in DOMAIN s /\ j \notin DOMAIN s
      <4>1. PICK n \in DOMAIN t : j = shift(n)
        BY <1>6, <3>3
      <4>2. s[i] = f /\ t[n] = g
        BY <1>4, <1>5, <3>1, <3>3, <4>1
      <4>3. f \in ToSet(s) /\ g \in ToSet(t)
        BY <3>3, <4>2 DEF ToSet
      <4> QED
        BY <2>1, <4>3
    <3>4. CASE i \notin DOMAIN s
      <4>1. PICK m \in DOMAIN t : i = shift(m)
        BY <1>6, <3>4
      <4>2. j \notin DOMAIN s
        BY <1>7, <3>1, <4>1
      <4>3. PICK n \in DOMAIN t : j = shift(n)
        BY <1>6, <4>2
      <4>4. m < n /\ t[m] = f /\ t[n] = g
        BY <1>5, <1>7, <3>1, <4>1, <4>3
      <4>5. Before(f, g, t)
        BY <4>4 DEF Before
      <4> QED
        BY <2>1, <4>5
    <3> QED
      BY <3>2, <3>3, <3>4
  <2>2. CASE Before(f, g, s)
    BY <1>4, <2>2 DEF Before
  <2>3. CASE Before(f, g, t)
    <3>1. PICK m \in DOMAIN t, n \in DOMAIN t : m < n /\ t[m] = f /\ t[n] = g
      BY <2>3 DEF Before
    <3>2. /\ shift(m) \in DOMAIN both /\ shift(n) \in DOMAIN both /\ shift(m) < shift(n)
          /\ both[shift(m)] = f /\ both[shift(n)] = g
      BY <1>5, <1>7, <3>1
    <3>3. Before(f, g, both)
      BY <3>2 DEF Before
    <3> QED
      BY <2>3, <3>3
  <2>4. CASE f \in ToSet(s) /\ g \in ToSet(t)
    <3>1. PICK i \in DOMAIN s, n \in DOMAIN t : s[i] = f /\ t[n] = g
      BY <2>4 DEF ToSet
    <3>2. /\ i \in DOMAIN both /\ shift(n) \in DOMAIN both /\ i < shift(n)
          /\ both[i] = f /\ both[shift(n)] = g
      BY <1>4, <1>5, <1>7, <3>1
    <3>3. Before(f, g, both)
      BY <3>2 DEF Before
    <3> QED
      BY <2>4, <3>3
  <2> QED
    BY <2>1, <2>2, <2>3, <2>4
<1>10. ASSUME IsInjective(s), IsInjective(t), ToSet(s) \cap ToSet(t) = {}
       PROVE  IsInjective(both)
  <2>1. ASSUME NEW i \in DOMAIN s, NEW n \in DOMAIN t
        PROVE  s[i] # t[n]
    BY <1>10 DEF ToSet
  <2> SUFFICES ASSUME NEW i \in DOMAIN both, NEW j \in DOMAIN both, both[i] = both[j]
               PROVE  i = j
    BY DEF IsInjective
  <2>2. CASE i \in DOMAIN s
    BY <1>4, <1>5, <1>6, <1>10, <2>1, <2>2 DEF IsInjective
  <2>3. CASE i \notin DOMAIN s
    <3>1. PICK m \in DOMAIN t : i = shift(m)
      BY <1>6, <2>3
    <3>2. j \notin DOMAIN s
      BY <1>4, <1>5, <2>1, <3>1
    <3>3. PICK n \in DOMAIN t : j = shift(n)
      BY <1>6, <3>2
    <3> QED
      BY <1>5, <1>10, <3>1, <3>3 DEF IsInjective
  <2> QED
    BY <2>2, <2>3
<1> QED
  BY <1>2, <1>8, <1>9, <1>10 DEF both

\* What comes before what, of photos that staff have arranged as names.
Precedes(f, g, names) ==
    \/ Before(f, g, names)
    \/ f \in ToSet(names) /\ g \notin ToSet(names)
    \/ f \notin ToSet(names) /\ g \notin ToSet(names) /\ f < g

\* The photos named in a sequence are left as they are.
LEMMA OnlyKeepsOrder ==
    ASSUME NEW names \in Seq(Photos), NEW photos \in SUBSET Photos
    PROVE  /\ Only(names, photos) \in Seq(Photos)
           /\ ToSet(Only(names, photos)) = ToSet(names) \cap photos
           /\ \A f, g \in photos : Before(f, g, Only(names, photos)) <=> Before(f, g, names)
           /\ IsInjective(names) => IsInjective(Only(names, photos))
<1> DEFINE places == {i \in DOMAIN names : names[i] \in photos}
<1>1. places \in SUBSET (DOMAIN names)
  OBVIOUS
<1>2. Only(names, photos) = Picked(names, places)
  BY DEF Only
<1>3. {names[i] : i \in places} = ToSet(names) \cap photos
  BY DEF ToSet
<1>4. \A f, g \in photos : Before(f, g, names) <=>
          \E i, j \in places : i < j /\ names[i] = f /\ names[j] = g
  BY DEF Before
<1>5. IsInjective(names) => \A i, j \in places : names[i] = names[j] => i = j
  BY DEF IsInjective
<1> HIDE DEF places
<1> QED
  BY <1>1, <1>2, <1>3, <1>4, <1>5, PickingKeepsOrder

\* What _ordered returns, of any photos and any order: each of the photos once,
\* those staff have arranged in their order, then the others by name.
THEOREM GalleriesInOrder ==
    ASSUME NEW names \in Seq(Photos), NEW photos \in SUBSET Photos
    PROVE  /\ Ordered(photos, names) \in Seq(Photos)
           /\ ToSet(Ordered(photos, names)) = photos
           /\ \A f, g \in photos : Before(f, g, Ordered(photos, names)) <=> Precedes(f, g, names)
           /\ IsInjective(names) => IsInjective(Ordered(photos, names))
<1> DEFINE byName == [f \in Photos |-> f]
           arranged == Only(names, photos)
           others == photos \ ToSet(names)
           rest == Only(byName, others)
<1>1. byName \in Seq(Photos)
  BY PhotoCountNat, SeqDef DEF Photos
<1>2. /\ ToSet(byName) = Photos /\ IsInjective(byName)
      /\ \A f, g \in Photos : Before(f, g, byName) <=> f < g
  BY DEF ToSet, IsInjective, Before
<1>3. others \in SUBSET Photos /\ others \cap ToSet(names) = {} /\ others \subseteq photos
  OBVIOUS
<1>4. Ordered(photos, names) = arranged \o rest
  BY DEF Ordered
<1> HIDE DEF byName, others
<1>5. /\ rest \in Seq(Photos) /\ ToSet(rest) = others /\ IsInjective(rest)
      /\ \A f, g \in others : Before(f, g, rest) <=> f < g
  <2>1. /\ rest \in Seq(Photos) /\ ToSet(rest) = ToSet(byName) \cap others
        /\ \A f, g \in others : Before(f, g, rest) <=> Before(f, g, byName)
        /\ IsInjective(rest)
    BY <1>1, <1>2, <1>3, OnlyKeepsOrder
  <2> QED
    BY <1>2, <1>3, <2>1
<1>6. /\ arranged \in Seq(Photos) /\ ToSet(arranged) = ToSet(names) \cap photos
      /\ \A f, g \in photos : Before(f, g, arranged) <=> Before(f, g, names)
      /\ IsInjective(names) => IsInjective(arranged)
  BY OnlyKeepsOrder
<1> HIDE DEF arranged, rest
<1>7. \A f, g, s : Before(f, g, s) => f \in ToSet(s) /\ g \in ToSet(s)
  BY DEF Before, ToSet
<1>8. ToSet(arranged) \cup ToSet(rest) = photos /\ ToSet(arranged) \cap ToSet(rest) = {}
  BY <1>5, <1>6 DEF others
<1>9. ASSUME NEW f \in photos, NEW g \in photos
      PROVE  Before(f, g, Ordered(photos, names)) <=> Precedes(f, g, names)
  <2>1. Before(f, g, Ordered(photos, names)) <=>
            \/ Before(f, g, arranged) \/ Before(f, g, rest)
            \/ f \in ToSet(arranged) /\ g \in ToSet(rest)
    BY <1>4, <1>5, <1>6, ConcatKeepsOrder
  <2>2. Before(f, g, arranged) <=> Before(f, g, names)
    BY <1>6
  <2>3. Before(f, g, rest) <=> f \in others /\ g \in others /\ f < g
    BY <1>5, <1>7
  <2> QED
    BY <1>5, <1>6, <2>1, <2>2, <2>3 DEF Precedes, others
<1>10. /\ arranged \o rest \in Seq(Photos)
       /\ ToSet(arranged \o rest) = ToSet(arranged) \cup ToSet(rest)
       /\ IsInjective(arranged) /\ IsInjective(rest)
          /\ ToSet(arranged) \cap ToSet(rest) = {} => IsInjective(arranged \o rest)
  BY <1>5, <1>6, ConcatKeepsOrder
<1> QED
  BY <1>4, <1>5, <1>6, <1>8, <1>9, <1>10

--------------------------------------------------------------------------------
(* The types, and what is known of the orders on their way.                   *)

\* What is about to be written names no photo twice, and an order is no longer
\* than what staff may ask for.
WritesAreOrders == \A p \in Processes : At(p, "write") => IsInjective(staff[p].names)
OrderIsAsked == order \in BoundedSeq(Photos, MaxWanted)

ArrangeInv == TypeOK /\ WritesAreOrders /\ OrderIsAsked

\* A sequence of a bounded length.
LEMMA BoundedIsShort ==
    ASSUME NEW S, NEW n \in Nat, NEW s
    PROVE  s \in BoundedSeq(S, n) <=> s \in Seq(S) /\ Len(s) <= n
<1>1. ASSUME s \in BoundedSeq(S, n)
      PROVE  s \in Seq(S) /\ Len(s) <= n
  <2>1. PICK m \in 0..n : s \in [1..m -> S]
    BY <1>1 DEF BoundedSeq, SeqOf
  <2>2. s \in Seq(S)
    BY <2>1, SeqDef
  <2>3. Len(s) = m
    BY <2>1, <2>2, LenProperties
  <2> QED
    BY <2>1, <2>2, <2>3
<1>2. ASSUME s \in Seq(S), Len(s) <= n
      PROVE  s \in BoundedSeq(S, n)
  <2>1. s \in [1..Len(s) -> S] /\ Len(s) \in 0..n
    BY <1>2, LenProperties
  <2> QED
    BY <2>1 DEF BoundedSeq, SeqOf
<1> QED
  BY <1>1, <1>2

\* To name nothing is short enough.
LEMMA NothingIsShort ==
    ASSUME NEW n \in Nat
    PROVE  <<>> \in BoundedSeq(Photos, n)
<1>1. <<>> \in Seq(Photos) /\ Len(<<>>) = 0
  BY EmptySeq
<1>2. Len(<<>>) <= n
  BY <1>1
<1> QED
  BY <1>1, <1>2, BoundedIsShort, Zenon

\* What names no photo twice is not longer than there are photos.
LEMMA OnceIsShort ==
    ASSUME NEW s
    PROVE  s \in Orders <=> s \in Seq(Photos) /\ IsInjective(s)
<1>1. ASSUME s \in Seq(Photos), IsInjective(s)
      PROVE  Len(s) <= PhotoCount
  <2>1. Len(s) \in Nat /\ s \in [1..Len(s) -> Photos] /\ DOMAIN s = 1..Len(s)
    BY <1>1, LenProperties
  <2>2. s \in Injection(1..Len(s), Photos)
    BY <1>1, <2>1 DEF Injection, IsInjective
  <2>3. /\ IsFiniteSet(Photos)
        /\ Cardinality(Photos) = IF 1 > PhotoCount THEN 0 ELSE PhotoCount - 1 + 1
    BY PhotoCountNat, FS_Interval DEF Photos
  <2>4. Cardinality(1..Len(s)) = IF 1 > Len(s) THEN 0 ELSE Len(s) - 1 + 1
    BY <2>1, FS_Interval
  <2>5. Cardinality(1..Len(s)) <= Cardinality(Photos)
    BY <2>2, <2>3, FS_Injection
  <2> QED
    BY <2>1, <2>3, <2>4, <2>5, PhotoCountNat
<1> QED
  BY <1>1, BoundedIsShort, PhotoCountNat DEF Orders

\* The galleries of photos that are there.
LEMMA GalleriesAreOrders ==
    ASSUME order \in Orders, NEW photos \in SUBSET Photos
    PROVE  Ordered(photos, order) \in Orders
  BY OnceIsShort, GalleriesInOrder

\* An order that is cleaned is no longer than it was, and names no photo twice.
LEMMA CleanedIsOrder ==
    ASSUME NEW names \in BoundedSeq(Photos, MaxWanted)
    PROVE  Cleaned(names) \in BoundedSeq(Photos, MaxWanted) /\ IsInjective(Cleaned(names))
<1> DEFINE places == {i \in DOMAIN names :
                          names[i] \in stored /\ \A j \in 1..(i - 1) : names[j] # names[i]}
<1>1. names \in Seq(Photos) /\ Len(names) <= MaxWanted
  BY BoundedIsShort, MaxWantedNat
<1>2. Len(names) \in Nat /\ DOMAIN names = 1..Len(names)
  BY <1>1, LenProperties
<1>3. \A i, j \in places : names[i] = names[j] => i = j
  <2> SUFFICES ASSUME NEW i \in places, NEW j \in places, names[i] = names[j], i # j
               PROVE  FALSE
    OBVIOUS
  <2>1. i \in Nat /\ j \in Nat /\ i >= 1 /\ j >= 1
    BY <1>2
  <2>2. i \in 1..(j - 1) \/ j \in 1..(i - 1)
    BY <2>1
  <2> QED
    BY <2>2
<1>4. Cleaned(names) = Picked(names, places) /\ places \in SUBSET (DOMAIN names)
  BY DEF Cleaned
<1> HIDE DEF places
<1>5. /\ Picked(names, places) \in Seq(Photos)
      /\ Len(Picked(names, places)) <= Len(names)
      /\ IsInjective(Picked(names, places))
  BY <1>1, <1>3, <1>4, PickingKeepsOrder
<1>6. Len(Picked(names, places)) \in Nat
  BY <1>5, LenProperties
<1> QED
  BY <1>1, <1>2, <1>4, <1>5, <1>6, BoundedIsShort, MaxWantedNat

\* An order without a photo: the others stay as they were.
LEMMA PrunedKeepsOrder ==
    ASSUME NEW names \in BoundedSeq(Photos, MaxWanted), NEW h
    PROVE  /\ Pruned(names, h) \in BoundedSeq(Photos, MaxWanted)
           /\ IsInjective(names) => IsInjective(Pruned(names, h))
           /\ ToSet(Pruned(names, h)) = ToSet(names) \ {h}
           /\ \A f, g : h \notin {f, g} =>
                  (Before(f, g, Pruned(names, h)) <=> Before(f, g, names))
<1> DEFINE places == {i \in DOMAIN names : names[i] # h}
<1>1. names \in Seq(Photos) /\ Len(names) <= MaxWanted
  BY BoundedIsShort, MaxWantedNat
<1>2. Len(names) \in Nat
  BY <1>1, LenProperties
<1>3. Pruned(names, h) = Picked(names, places) /\ places \in SUBSET (DOMAIN names)
  BY DEF Pruned
<1>4. \A f, g : h \notin {f, g} =>
          (Before(f, g, names) <=> \E i, j \in places : i < j /\ names[i] = f /\ names[j] = g)
  BY DEF Before
<1>5. {names[i] : i \in places} = ToSet(names) \ {h}
  BY DEF ToSet
<1>6. IsInjective(names) => \A i, j \in places : names[i] = names[j] => i = j
  BY DEF IsInjective
<1> HIDE DEF places
<1>7. /\ Picked(names, places) \in Seq(Photos)
      /\ Len(Picked(names, places)) <= Len(names)
      /\ ToSet(Picked(names, places)) = {names[i] : i \in places}
      /\ \A f, g : Before(f, g, Picked(names, places)) <=>
             \E i, j \in places : i < j /\ names[i] = f /\ names[j] = g
      /\ IsInjective(names) => IsInjective(Picked(names, places))
  BY <1>1, <1>3, <1>6, PickingKeepsOrder
<1>8. Len(Picked(names, places)) \in Nat
  BY <1>7, LenProperties
<1>9. Picked(names, places) \in BoundedSeq(Photos, MaxWanted)
  BY <1>1, <1>2, <1>7, <1>8, BoundedIsShort, MaxWantedNat
<1> QED
  BY <1>3, <1>4, <1>5, <1>7, <1>9

\* A staff request goes on, and is one; what it writes names no photo twice.
LEMMA StaffGoes ==
    ASSUME staff \in [Processes -> Staff], WritesAreOrders, NEW p \in Processes,
           NEW t \in Staff, t.step = "write" => IsInjective(t.names),
           staff' = [staff EXCEPT ![p] = t]
    PROVE  staff' \in [Processes -> Staff] /\ WritesAreOrders'
<1>1. \A q \in Processes : staff'[q] = IF q = p THEN t ELSE staff[q]
  OBVIOUS
<1>2. staff' \in [Processes -> Staff]
  OBVIOUS
<1> QED
  BY <1>1, <1>2 DEF WritesAreOrders, At

\* The requests that steps make of another one.
LEMMA RequestsAreStaff ==
    /\ IdleStaff \in Staff /\ IdleStaff.step = "idle"
    /\ \A photos \in SUBSET Photos :
           LET t == [IdleStaff EXCEPT !.step = "put", !.photos = photos]
           IN t \in Staff /\ t.step = "put"
    /\ \A f \in Photos :
           LET t == [IdleStaff EXCEPT !.step = "look", !.photo = f]
           IN t \in Staff /\ t.step = "look"
    /\ \A names \in BoundedSeq(Photos, MaxWanted) :
           LET t == [IdleStaff EXCEPT !.step = "clean", !.names = names]
           IN t \in Staff /\ t.step = "clean"
<1>1. <<>> \in BoundedSeq(Photos, MaxWanted)
  BY NothingIsShort, MaxWantedNat
<1> QED
  BY <1>1 DEF IdleStaff, Staff

\* The steps a request goes on to.
LEMMA RequestsGoOn ==
    ASSUME NEW t \in Staff
    PROVE  /\ \A step \in {"delete", "prune"} :
                  LET u == [t EXCEPT !.step = step] IN u \in Staff /\ u.step = step
           /\ \A f \in Photos :
                  LET u == [t EXCEPT !.step = "check", !.photo = f]
                  IN u \in Staff /\ u.step = "check"
           /\ \A names \in BoundedSeq(Photos, MaxWanted) :
                  LET u == [t EXCEPT !.step = "write", !.names = names]
                  IN u \in Staff /\ u.step = "write" /\ u.names = names
<1> USE DEF Staff
<1>1. \A step \in {"delete", "prune"} :
          LET u == [t EXCEPT !.step = step] IN u \in Staff /\ u.step = step
  OBVIOUS
<1>2. \A f \in Photos : LET u == [t EXCEPT !.step = "check", !.photo = f]
                        IN u \in Staff /\ u.step = "check"
  OBVIOUS
<1>3. \A names \in BoundedSeq(Photos, MaxWanted) :
          LET u == [t EXCEPT !.step = "write", !.names = names]
          IN u \in Staff /\ u.step = "write" /\ u.names = names
  OBVIOUS
<1> QED
  BY <1>1, <1>2, <1>3

\* A request that stores a photo, or one after which nothing is left.
LEMMA StoringGoesOn ==
    ASSUME staff \in [Processes -> Staff], WritesAreOrders, NEW p \in Processes, NEW f,
           Stores(p, f)
    PROVE  staff' \in [Processes -> Staff] /\ WritesAreOrders' /\ cache' = Invalidated(p)
<1>1. cache' = Invalidated(p)
  BY DEF Stores
<1>2. PICK left : left = staff[p].photos \ {f}
  OBVIOUS
<1>3. left \in SUBSET Photos
  BY <1>2 DEF Staff
<1>4. \/ staff' = [staff EXCEPT ![p] = IdleStaff]
      \/ staff' = [staff EXCEPT ![p] = [IdleStaff EXCEPT !.step = "put", !.photos = left]]
  BY <1>2 DEF Stores, Ends
<1>5. CASE staff' = [staff EXCEPT ![p] = IdleStaff]
  BY <1>1, <1>5, StaffGoes, RequestsAreStaff
<1>6. CASE staff' = [staff EXCEPT ![p] = [IdleStaff EXCEPT !.step = "put", !.photos = left]]
  <2>1. PICK t : t = [IdleStaff EXCEPT !.step = "put", !.photos = left]
    OBVIOUS
  <2>2. t \in Staff /\ t.step = "put"
    BY <1>3, <2>1, RequestsAreStaff
  <2> QED
    BY <1>1, <1>6, <2>1, <2>2, StaffGoes
<1> QED
  BY <1>4, <1>5, <1>6

\* The bucket's clock and history keep their types.
LEMMA HistoryKeepsTypes ==
    ASSUME quiet \in 0..2, own \subseteq Processes, NEW answered \in SUBSET Processes,
           History(answered)
    PROVE  quiet' \in 0..2 /\ own' \subseteq Processes
  BY DEF History

\* A gallery is forgotten.
LEMMA InvalidatedKeepsTypes ==
    ASSUME cache \in [Processes -> Gallery \cup {None}], NEW p \in Processes
    PROVE  Invalidated(p) \in [Processes -> Gallery \cup {None}]
  BY DEF Invalidated

\* Every step of a staff request keeps the types, and the orders on their way.
LEMMA StaffKeepsTypes ==
    ASSUME ArrangeInv, NEW p \in Processes,
           \/ AskUpload(p) \/ AskDelete(p) \/ AskOrder(p) \/ Put(p) \/ Check(p)
           \/ Look(p) \/ Delete(p) \/ Prune(p) \/ Clean(p) \/ WriteOrder(p)
    PROVE  ArrangeInv'
<1>t. /\ stored \subseteq Photos /\ order \in Orders /\ client \subseteq Processes
      /\ cache \in [Processes -> Gallery \cup {None}] /\ reader \in [Readers -> Reader]
      /\ staff \in [Processes -> Staff] /\ quiet \in 0..2 /\ own \subseteq Processes
      /\ WritesAreOrders /\ order \in BoundedSeq(Photos, MaxWanted)
  BY DEF ArrangeInv, TypeOK, OrderIsAsked
<1>s. staff[p] \in Staff
  BY <1>t
\* It is enough to look at what a step does with the bucket and the request.
<1>g. ASSUME stored' \subseteq Photos, order' \in Orders, order' \in BoundedSeq(Photos, MaxWanted),
             client' \subseteq Processes, cache' = cache \/ cache' = Invalidated(p), reader' = reader,
             UNCHANGED <<quiet, own>> \/ \E answered \in SUBSET Processes : History(answered),
             staff' \in [Processes -> Staff] /\ WritesAreOrders'
      PROVE  ArrangeInv'
  <2>1. cache' \in [Processes -> Gallery \cup {None}]
    BY <1>t, <1>g, InvalidatedKeepsTypes
  <2>2. quiet' \in 0..2 /\ own' \subseteq Processes
    BY <1>t, <1>g, HistoryKeepsTypes
  <2> QED
    BY <1>t, <1>g, <2>1, <2>2 DEF ArrangeInv, TypeOK, OrderIsAsked
<1>e. ASSUME Ends(p)
      PROVE  staff' \in [Processes -> Staff] /\ WritesAreOrders'
  BY <1>t, <1>e, StaffGoes, RequestsAreStaff DEF Ends
<1>1. ASSUME NEW t, Asks(p, t), t \in Staff, t.step # "write"
      PROVE  ArrangeInv'
  <2>1. staff' \in [Processes -> Staff] /\ WritesAreOrders'
    BY <1>t, <1>1, StaffGoes DEF Asks
  <2> QED
    BY <1>g, <1>t, <1>1, <2>1 DEF Asks
<1>2. CASE AskUpload(p)
  <2>1. PICK photos \in SUBSET Photos : Asks(p, [IdleStaff EXCEPT !.step = "put", !.photos = photos])
    BY <1>2 DEF AskUpload
  <2> QED
    BY <1>1, <2>1, RequestsAreStaff
<1>3. CASE AskDelete(p)
  <2>1. PICK f \in Photos : Asks(p, [IdleStaff EXCEPT !.step = "look", !.photo = f])
    BY <1>3 DEF AskDelete
  <2> QED
    BY <1>1, <2>1, RequestsAreStaff
<1>4. CASE AskOrder(p)
  <2>1. PICK names \in BoundedSeq(Photos, MaxWanted) :
            Asks(p, [IdleStaff EXCEPT !.step = "clean", !.names = names])
    BY <1>4 DEF AskOrder
  <2> QED
    BY <1>1, <2>1, RequestsAreStaff
<1>5. CASE Put(p)
  <2>1. PICK f \in staff[p].photos :
            \/ f \notin stored /\ stored' = stored \cup {f} /\ Stores(p, f)
            \/ /\ stored' \in {stored, stored \cup {f}}
               /\ staff' = [staff EXCEPT ![p].step = "check", ![p].photo = f]
               /\ History({}) /\ UNCHANGED cache
    BY <1>5 DEF Put
  <2>2. UNCHANGED <<order, client, reader>> /\ f \in Photos /\ {p} \in SUBSET Processes
    BY <1>5, <1>s DEF Put, Staff
  <2>3. CASE stored' = stored \cup {f} /\ Stores(p, f)
    <3>1. staff' \in [Processes -> Staff] /\ WritesAreOrders' /\ cache' = Invalidated(p)
      BY <1>t, <2>3, StoringGoesOn
    <3>2. History({p}) /\ stored' \subseteq Photos
      BY <1>t, <2>2, <2>3 DEF Stores
    <3> QED
      BY <1>g, <1>t, <2>2, <3>1, <3>2
  <2>4. CASE /\ stored' \in {stored, stored \cup {f}}
             /\ staff' = [staff EXCEPT ![p].step = "check", ![p].photo = f]
             /\ History({}) /\ UNCHANGED cache
    <3>1. PICK t : t = [staff[p] EXCEPT !.step = "check", !.photo = f]
      OBVIOUS
    <3>2. t \in Staff /\ t.step = "check"
      BY <1>s, <2>2, <3>1, RequestsGoOn
    <3>3. staff' = [staff EXCEPT ![p] = t]
      BY <2>4, <3>1
    <3>4. staff' \in [Processes -> Staff] /\ WritesAreOrders'
      BY <1>t, <3>2, <3>3, StaffGoes
    <3>5. stored' \subseteq Photos
      BY <1>t, <2>2, <2>4
    <3> QED
      BY <1>g, <1>t, <2>2, <2>4, <3>4, <3>5
  <2> QED
    BY <2>1, <2>3, <2>4
<1>6. CASE Check(p)
  <2>1. UNCHANGED <<stored, order, client, reader>> /\ {p} \in SUBSET Processes
    BY <1>6 DEF Check
  <2>2. CASE Stores(p, staff[p].photo)
    <3>1. staff' \in [Processes -> Staff] /\ WritesAreOrders' /\ cache' = Invalidated(p)
      BY <1>t, <2>2, StoringGoesOn
    <3>2. History({p})
      BY <2>2 DEF Stores
    <3> QED
      BY <1>g, <1>t, <2>1, <3>1, <3>2
  <2>3. CASE Ends(p) /\ UNCHANGED <<cache, quiet, own>>
    BY <1>e, <1>g, <1>t, <2>1, <2>3
  <2> QED
    BY <1>6, <2>2, <2>3 DEF Check
<1>7. CASE Look(p) \/ Prune(p) \/ Clean(p)
  <2>1. UNCHANGED <<stored, order, client, cache, reader, quiet, own>>
    BY <1>7 DEF Look, Prune, Clean
  <2>2. staff' \in [Processes -> Staff] /\ WritesAreOrders'
    <3>1. CASE Ends(p)
      BY <1>e, <3>1
    <3>2. CASE GoTo(p, "delete")
      <4>1. PICK t : t = [staff[p] EXCEPT !.step = "delete"]
        OBVIOUS
      <4>2. staff' = [staff EXCEPT ![p] = t]
        BY <3>2, <4>1 DEF GoTo
      <4> QED
        BY <1>s, <1>t, <4>1, <4>2, RequestsGoOn, StaffGoes
    <3>3. ASSUME NEW names \in BoundedSeq(Photos, MaxWanted), IsInjective(names),
                 staff' = [staff EXCEPT ![p].step = "write", ![p].names = names]
          PROVE  staff' \in [Processes -> Staff] /\ WritesAreOrders'
      <4>1. PICK t : t = [staff[p] EXCEPT !.step = "write", !.names = names]
        OBVIOUS
      <4>2. staff' = [staff EXCEPT ![p] = t]
        BY <3>3, <4>1
      <4>3. t \in Staff /\ t.names = names
        BY <1>s, <4>1, RequestsGoOn
      <4> QED
        BY <1>t, <3>3, <4>2, <4>3, StaffGoes
    <3>4. IsInjective(order)
      BY <1>t DEF Orders
    <3>5. /\ Cleaned(staff[p].names) \in BoundedSeq(Photos, MaxWanted)
          /\ IsInjective(Cleaned(staff[p].names))
      BY <1>s, CleanedIsOrder DEF Staff
    <3>6. \/ Ends(p) \/ GoTo(p, "delete")
          \/ staff' = [staff EXCEPT ![p].step = "write", ![p].names = order]
          \/ staff' = [staff EXCEPT ![p].step = "write", ![p].names = Cleaned(staff[p].names)]
      BY <1>7 DEF Look, Prune, Clean
    <3> QED
      BY <1>t, <3>1, <3>2, <3>3, <3>4, <3>5, <3>6
  <2> QED
    BY <1>g, <1>t, <2>1, <2>2
<1>8. CASE Delete(p)
  <2>1. UNCHANGED <<order, client, reader>> /\ {p} \in SUBSET Processes
    BY <1>8 DEF Delete
  <2>2. stored' \subseteq Photos /\ (History({p}) \/ History({}))
    BY <1>8, <1>t DEF Delete
  <2>3. cache' = cache \/ cache' = Invalidated(p)
    BY <1>8 DEF Delete
  <2>4. staff' \in [Processes -> Staff] /\ WritesAreOrders'
    <3>1. CASE GoTo(p, "prune")
      <4>1. PICK t : t = [staff[p] EXCEPT !.step = "prune"]
        OBVIOUS
      <4>2. staff' = [staff EXCEPT ![p] = t]
        BY <3>1, <4>1 DEF GoTo
      <4> QED
        BY <1>s, <1>t, <4>1, <4>2, RequestsGoOn, StaffGoes
    <3> QED
      BY <1>8, <1>e, <3>1 DEF Delete
  <2> QED
    BY <1>g, <1>t, <2>1, <2>2, <2>3, <2>4
<1>9. CASE WriteOrder(p)
  <2>1. UNCHANGED <<stored, client, reader>> /\ {p} \in SUBSET Processes
        /\ (cache' = cache \/ cache' = Invalidated(p)) /\ (History({p}) \/ History({}))
    BY <1>9 DEF WriteOrder
  <2>2. PICK names : names = IF staff[p].photo = None THEN staff[p].names
                             ELSE Pruned(staff[p].names, staff[p].photo)
    OBVIOUS
  <2>3. order' \in {order, names}
    BY <1>9, <2>2 DEF WriteOrder
  <2>4. staff[p].names \in BoundedSeq(Photos, MaxWanted) /\ IsInjective(staff[p].names)
    BY <1>9, <1>s, <1>t DEF WriteOrder, WritesAreOrders, Staff
  <2>5. names \in BoundedSeq(Photos, MaxWanted) /\ IsInjective(names)
    BY <2>2, <2>4, PrunedKeepsOrder
  <2>6. order' \in Orders /\ order' \in BoundedSeq(Photos, MaxWanted)
    BY <1>t, <2>3, <2>5, OnceIsShort, BoundedIsShort, MaxWantedNat
  <2>7. staff' \in [Processes -> Staff] /\ WritesAreOrders'
    BY <1>9, <1>e DEF WriteOrder
  <2> QED
    BY <1>g, <1>t, <2>1, <2>6, <2>7
<1> QED
  BY <1>2, <1>3, <1>4, <1>5, <1>6, <1>7, <1>8, <1>9

\* A thread goes on, and is one.
LEMMA ThreadsGoOn ==
    ASSUME NEW t \in Reader
    PROVE  /\ \A p \in Processes : [t EXCEPT !.process = p] \in Reader
           /\ \A photos \in SUBSET Photos :
                  [t EXCEPT !.step = "order", !.found = photos] \in Reader
           /\ \A photos \in Orders :
                  [t EXCEPT !.step = "answer", !.found = {}, !.shown = photos] \in Reader
           /\ \A age \in 0..2 : [t EXCEPT !.age = age] \in Reader
  BY DEF Reader

\* The thread that is not listing, and the gallery a process without a storage
\* client keeps, are of their kind.
LEMMA IdleAndBlindFit ==
    /\ IdleReader \in Reader
    /\ <<>> \in Orders
    /\ [shown |-> <<>>, age |-> 0, blind |-> TRUE] \in Gallery
<1>1. <<>> \in Seq(Photos) /\ IsInjective(<<>>)
  BY EmptySeq DEF IsInjective
<1>2. <<>> \in Orders
  BY <1>1, OnceIsShort
<1>3. IdleReader \in Reader
  BY <1>2 DEF IdleReader, Reader
<1> QED
  BY <1>2, <1>3 DEF Gallery

\* Steps of a thread, of time and of a restart leave the bucket and the orders
\* on their way alone, and keep the types of what they change.
LEMMA ShowingKeepsTypes ==
    ASSUME ArrangeInv, UNCHANGED <<stored, order, own>>,
           quiet' \in 0..2, client' \subseteq Processes,
           cache' \in [Processes -> Gallery \cup {None}],
           reader' \in [Readers -> Reader],
           staff' = staff \/ \E p \in Processes : Ends(p)
    PROVE  ArrangeInv'
<1>1. staff \in [Processes -> Staff] /\ WritesAreOrders
  BY DEF ArrangeInv, TypeOK
<1>2. staff' \in [Processes -> Staff] /\ WritesAreOrders'
  <2>1. CASE staff' = staff
    BY <1>1, <2>1 DEF WritesAreOrders, At
  <2>2. ASSUME NEW p \in Processes, Ends(p)
        PROVE  staff' \in [Processes -> Staff] /\ WritesAreOrders'
    BY <1>1, <2>2, StaffGoes, RequestsAreStaff DEF Ends
  <2> QED
    BY <2>1, <2>2
<1> QED
  BY <1>2 DEF ArrangeInv, TypeOK, OrderIsAsked

\* The rest of the steps.
LEMMA OtherStepsKeepTypes ==
    ASSUME GalleryInv, ArrangeInv,
           \/ \E r \in Readers :
                  \/ \E p \in Processes : BeginListing(r, p)
                  \/ ListPhotos(r) \/ ReadOrder(r) \/ KeepGallery(r)
           \/ \E p \in Processes : RunsOut(p) \/ Restart(p)
           \/ Tick \/ UNCHANGED vars
    PROVE  ArrangeInv'
<1>t. /\ stored \subseteq Photos /\ order \in Orders /\ client \subseteq Processes
      /\ cache \in [Processes -> Gallery \cup {None}] /\ reader \in [Readers -> Reader]
      /\ quiet \in 0..2
  BY DEF ArrangeInv, TypeOK
<1>1. ASSUME NEW r \in Readers, NEW p \in Processes, BeginListing(r, p)
      PROVE  ArrangeInv'
  <2>1. UNCHANGED <<stored, order, staff, quiet, own>>
    BY <1>1 DEF BeginListing
  <2>2. CASE /\ reader' = [reader EXCEPT ![r].process = p] /\ client' = client \cup {p}
             /\ UNCHANGED cache
    <3>1. PICK t : t = [reader[r] EXCEPT !.process = p]
      OBVIOUS
    <3>2. t \in Reader
      BY <1>t, <3>1, ThreadsGoOn
    <3>3. reader' = [reader EXCEPT ![r] = t]
      BY <2>2, <3>1
    <3>4. reader' \in [Readers -> Reader]
      BY <1>t, <3>2, <3>3
    <3> QED
      BY <1>t, <2>1, <2>2, <3>4, ShowingKeepsTypes
  <2>3. CASE /\ cache' = [cache EXCEPT ![p] = [shown |-> <<>>, age |-> 0, blind |-> TRUE]]
             /\ UNCHANGED <<reader, client>>
    <3>1. cache' \in [Processes -> Gallery \cup {None}]
      BY <1>t, <2>3, IdleAndBlindFit
    <3> QED
      BY <1>t, <2>1, <2>3, <3>1, ShowingKeepsTypes
  <2> QED
    BY <1>1, <2>2, <2>3 DEF BeginListing
<1>2. ASSUME NEW r \in Readers, ListPhotos(r)
      PROVE  ArrangeInv'
  <2>1. UNCHANGED <<stored, order, client, cache, staff, quiet, own>>
    BY <1>2 DEF ListPhotos
  <2>2. reader' \in [Readers -> Reader]
    <3>1. CASE reader' = [reader EXCEPT ![r].step = "order", ![r].found = stored]
      <4>1. PICK t : t = [reader[r] EXCEPT !.step = "order", !.found = stored]
        OBVIOUS
      <4>2. t \in Reader
        BY <1>t, <4>1, ThreadsGoOn
      <4>3. reader' = [reader EXCEPT ![r] = t]
        BY <3>1, <4>1
      <4> QED
        BY <1>t, <4>2, <4>3
    <3>2. CASE reader' = [reader EXCEPT ![r] = IdleReader]
      BY <1>t, <3>2, IdleAndBlindFit
    <3> QED
      BY <1>2, <3>1, <3>2 DEF ListPhotos
  <2> QED
    BY <1>t, <2>1, <2>2, ShowingKeepsTypes
<1>3. ASSUME NEW r \in Readers, ReadOrder(r)
      PROVE  ArrangeInv'
  <2>1. UNCHANGED <<stored, order, client, cache, staff, quiet, own>>
    BY <1>3 DEF ReadOrder
  <2>2. reader' \in [Readers -> Reader]
    <3>1. CASE reader' = [reader EXCEPT ![r].step = "answer", ![r].found = {},
                                        ![r].shown = Ordered(reader[r].found, order)]
      <4>1. PICK t : t = [reader[r] EXCEPT !.step = "answer", !.found = {},
                                           !.shown = Ordered(reader[r].found, order)]
        OBVIOUS
      <4>2. reader[r].found \in SUBSET Photos
        BY <1>t DEF Reader
      <4>3. Ordered(reader[r].found, order) \in Orders
        BY <1>t, <4>2, GalleriesAreOrders
      <4>4. t \in Reader
        BY <1>t, <4>1, <4>3, ThreadsGoOn
      <4>5. reader' = [reader EXCEPT ![r] = t]
        BY <3>1, <4>1
      <4> QED
        BY <1>t, <4>4, <4>5
    <3>2. CASE reader' = [reader EXCEPT ![r] = IdleReader]
      BY <1>t, <3>2, IdleAndBlindFit
    <3> QED
      BY <1>3, <3>1, <3>2 DEF ReadOrder
  <2> QED
    BY <1>t, <2>1, <2>2, ShowingKeepsTypes
<1>4. ASSUME NEW r \in Readers, KeepGallery(r)
      PROVE  ArrangeInv'
  <2>1. /\ UNCHANGED <<stored, order, client, staff, quiet, own>>
        /\ reader' = [reader EXCEPT ![r] = IdleReader]
        /\ reader[r].step = "answer"
    BY <1>4 DEF KeepGallery
  <2>2. reader' \in [Readers -> Reader]
    BY <1>t, <2>1, IdleAndBlindFit
  <2>3. PICK p \in Processes : p = reader[r].process
    BY <2>1 DEF GalleryInv, ReadersAreReaders
  <2>4. reader[r].shown \in Orders /\ reader[r].age \in 0..2
    BY <1>t DEF Reader
  <2>5. PICK g : g = IF Age(r) = 2 THEN None
                     ELSE [shown |-> reader[r].shown, age |-> Age(r), blind |-> FALSE]
    OBVIOUS
  <2>6. g \in Gallery \cup {None}
    BY <2>4, <2>5 DEF Age, Gallery
  <2>7. cache' = [cache EXCEPT ![p] = g]
    BY <1>4, <2>3, <2>5 DEF KeepGallery
  <2>8. cache' \in [Processes -> Gallery \cup {None}]
    BY <1>t, <2>6, <2>7
  <2> QED
    BY <1>t, <2>1, <2>2, <2>8, ShowingKeepsTypes
<1>5. ASSUME NEW p \in Processes, RunsOut(p)
      PROVE  ArrangeInv'
  <2>1. UNCHANGED <<stored, order, client, reader, staff, quiet, own>> /\ cache' = Invalidated(p)
    BY <1>5 DEF RunsOut, Invalidated
  <2>2. cache' \in [Processes -> Gallery \cup {None}]
    BY <1>t, <2>1, InvalidatedKeepsTypes
  <2> QED
    BY <1>t, <2>1, <2>2, ShowingKeepsTypes
<1>6. ASSUME NEW p \in Processes, Restart(p)
      PROVE  ArrangeInv'
  <2>1. /\ UNCHANGED <<stored, order, quiet, own>> /\ Ends(p)
        /\ client' = client \ {p} /\ cache' = Invalidated(p)
    BY <1>6 DEF Restart
  <2>2. cache' \in [Processes -> Gallery \cup {None}]
    BY <1>t, <2>1, InvalidatedKeepsTypes
  <2>3. reader' \in [Readers -> Reader]
    BY <1>6, <1>t, IdleAndBlindFit DEF Restart
  <2> QED
    BY <1>t, <2>1, <2>2, <2>3, ShowingKeepsTypes
<1>7. CASE Tick
  <2>1. UNCHANGED <<stored, order, client, staff, own>> /\ quiet' = AtMostTwo(quiet + 1)
    BY <1>7 DEF Tick
  <2>2. quiet' \in 0..2
    BY <1>t, <2>1 DEF AtMostTwo
  <2>3. cache' \in [Processes -> Gallery \cup {None}]
    <3>1. ASSUME NEW p \in Processes, cache[p] # None
          PROVE  [cache[p] EXCEPT !.age = 1] \in Gallery
      BY <1>t, <3>1 DEF Gallery
    <3>2. \A p \in Processes : (IF cache[p] = None \/ cache[p].age = 1 THEN None
                                ELSE [cache[p] EXCEPT !.age = 1]) \in Gallery \cup {None}
      BY <3>1
    <3> QED
      BY <1>7, <3>2 DEF Tick
  <2>4. reader' \in [Readers -> Reader]
    <3>1. ASSUME NEW r \in Readers
          PROVE  [reader[r] EXCEPT !.age = AtMostTwo(@ + 1)] \in Reader
      <4>1. reader[r] \in Reader /\ AtMostTwo(reader[r].age + 1) \in 0..2
        BY <1>t DEF Reader, AtMostTwo
      <4> QED
        BY <4>1, ThreadsGoOn
    <3>2. \A r \in Readers : (IF reader[r].process = None THEN reader[r]
                              ELSE [reader[r] EXCEPT !.age = AtMostTwo(@ + 1)]) \in Reader
      BY <1>t, <3>1
    <3> QED
      BY <1>7, <3>2 DEF Tick
  <2> QED
    BY <1>t, <2>1, <2>2, <2>3, <2>4, ShowingKeepsTypes
<1>8. CASE UNCHANGED vars
  <2>1. UNCHANGED <<stored, order, client, cache, reader, staff, quiet, own>>
    BY <1>8 DEF vars
  <2> QED
    BY <1>t, <2>1, ShowingKeepsTypes
<1> QED
  BY <1>1, <1>2, <1>3, <1>4, <1>5, <1>6, <1>7, <1>8

\* The types, and the orders, at first and from then on.
LEMMA ArrangeInvInit == Init => ArrangeInv
<1> SUFFICES ASSUME Init PROVE ArrangeInv
  OBVIOUS
<1>1. staff \in [Processes -> Staff] /\ WritesAreOrders
  BY RequestsAreStaff DEF Init, WritesAreOrders, At
<1>2. order \in Orders /\ order \in BoundedSeq(Photos, MaxWanted)
  BY IdleAndBlindFit, NothingIsShort, MaxWantedNat DEF Init
<1>3. reader \in [Readers -> Reader] /\ cache \in [Processes -> Gallery \cup {None}]
  BY IdleAndBlindFit DEF Init
<1> QED
  BY <1>1, <1>2, <1>3 DEF Init, ArrangeInv, TypeOK, OrderIsAsked

\* Every step keeps them.
LEMMA ArrangeInvStep == GalleryInv /\ ArrangeInv /\ [Next]_vars => ArrangeInv'
<1> SUFFICES ASSUME GalleryInv, ArrangeInv, [Next]_vars
             PROVE  ArrangeInv'
  OBVIOUS
<1> QED
  BY StaffKeepsTypes, OtherStepsKeepTypes DEF Next

\* They hold in every state.
LEMMA ArrangeInvHolds == Spec => []ArrangeInv
  BY ArrangeInvInit, ArrangeInvStep, GalleryInvHolds, PTL DEF Spec

\* Whatever staff ask for and however their requests interleave, every photo
\* that is stored, ordered or shown is one there is, and no order or gallery
\* names a photo twice.
THEOREM TypeCorrect == Spec => []TypeOK
<1>1. ArrangeInv => TypeOK
  BY DEF ArrangeInv
<1> QED
  BY <1>1, ArrangeInvHolds, PTL

--------------------------------------------------------------------------------
(* Who may rearrange.                                                         *)

\* Of two photos, only one precedes the other.
LEMMA PrecedesOneWay ==
    ASSUME NEW names \in Seq(Photos), IsInjective(names), NEW f \in Photos, NEW g \in Photos,
           Precedes(f, g, names), Precedes(g, f, names)
    PROVE  FALSE
<1>1. DOMAIN names = 1..Len(names) /\ Len(names) \in Nat
  BY LenProperties
<1>2. \A x, y : Before(x, y, names) => x \in ToSet(names) /\ y \in ToSet(names)
  BY DEF Before, ToSet
<1>3. ~(Before(f, g, names) /\ Before(g, f, names))
  <2> SUFFICES ASSUME NEW i \in DOMAIN names, NEW j \in DOMAIN names, i < j,
                      names[i] = f, names[j] = g,
                      NEW k \in DOMAIN names, NEW l \in DOMAIN names, k < l,
                      names[k] = g, names[l] = f
               PROVE  FALSE
    BY DEF Before
  <2>1. i = l /\ j = k
    BY DEF IsInjective
  <2> QED
    BY <1>1, <2>1
<1>4. ~(f < g /\ g < f)
  BY PhotoCountNat DEF Photos
<1> QED
  BY <1>2, <1>3, <1>4 DEF Precedes

\* An order without a photo arranges the others as it did.
LEMMA PrunedPrecedes ==
    ASSUME NEW names \in BoundedSeq(Photos, MaxWanted), NEW f, NEW g, NEW h, h \notin {f, g}
    PROVE  Precedes(f, g, Pruned(names, h)) <=> Precedes(f, g, names)
<1>1. Before(f, g, Pruned(names, h)) <=> Before(f, g, names)
  BY PrunedKeepsOrder
<1>2. f \in ToSet(Pruned(names, h)) <=> f \in ToSet(names)
  BY PrunedKeepsOrder
<1>3. g \in ToSet(Pruned(names, h)) <=> g \in ToSet(names)
  BY PrunedKeepsOrder
<1> QED
  BY <1>1, <1>2, <1>3 DEF Precedes

\* The order changes only when one is written.
LEMMA OnlyWritesOrder ==
    ASSUME [Next]_vars, order' # order
    PROVE  \E p \in Processes : WriteOrder(p)
<1>1. ASSUME NEW p \in Processes,
             \/ AskUpload(p) \/ AskDelete(p) \/ AskOrder(p) \/ Put(p) \/ Check(p) \/ Look(p)
             \/ Delete(p) \/ Prune(p) \/ Clean(p) \/ RunsOut(p) \/ Restart(p)
      PROVE  FALSE
  BY <1>1 DEF AskUpload, AskDelete, AskOrder, Asks, Put, Check, Look, Delete, Prune, Clean,
              RunsOut, Restart
<1>2. ASSUME NEW r \in Readers,
             \/ \E p \in Processes : BeginListing(r, p)
             \/ ListPhotos(r) \/ ReadOrder(r) \/ KeepGallery(r)
      PROVE  FALSE
  BY <1>2 DEF BeginListing, ListPhotos, ReadOrder, KeepGallery
<1>3. ~Tick /\ ~UNCHANGED vars
  BY DEF Tick, vars
<1> QED
  BY <1>1, <1>2, <1>3 DEF Next

\* A new order, or one that was read before it changed, or the deletion of one
\* of the two photos: nothing else makes two photos change places.
LEMMA StepsRearrange ==
    ASSUME ArrangeInv, ArrangeInv', [Next]_vars, NEW f \in stored \cap stored',
           NEW g \in stored \cap stored',
           Before(f, g, Ordered(stored, order)), Before(g, f, Ordered(stored', order'))
    PROVE  \E p \in Processes :
               At(p, "write") /\ (staff[p].photo \in {None, f, g} \/ staff[p].names # order)
<1>1. /\ stored \in SUBSET Photos /\ order \in Seq(Photos) /\ IsInjective(order)
      /\ order \in BoundedSeq(Photos, MaxWanted)
  BY OnceIsShort DEF ArrangeInv, TypeOK, OrderIsAsked
<1>2. stored' \in SUBSET Photos /\ order' \in Seq(Photos)
  BY OnceIsShort DEF ArrangeInv, TypeOK
<1>3. Precedes(f, g, order)
  BY <1>1, GalleriesInOrder
<1>4. Precedes(g, f, order')
  BY <1>2, GalleriesInOrder
<1>5. order' # order
  BY <1>1, <1>3, <1>4, PrecedesOneWay
<1>6. PICK p \in Processes : WriteOrder(p)
  BY <1>5, OnlyWritesOrder
<1>7. CASE staff[p].photo \notin {None, f, g} /\ staff[p].names = order
  <2>1. order' = Pruned(order, staff[p].photo)
    BY <1>5, <1>6, <1>7 DEF WriteOrder
  <2>2. Precedes(g, f, order)
    BY <1>1, <1>4, <1>7, <2>1, PrunedPrecedes
  <2> QED
    BY <1>1, <1>3, <2>2, PrecedesOneWay
<1> QED
  BY <1>6, <1>7 DEF WriteOrder

\* Two photos that stay change places only by a new order, or by a deletion
\* that had read the order before somebody else changed it.
THEOREM OthersStayInPlace == Spec => NothingRearranged
<1> DEFINE Rearranges ==
        order' # order \/ stored' # stored =>
           LET before == Ordered(stored, order)
               after == Ordered(stored', order')
           IN \A f, g \in stored \cap stored' :
                  Before(f, g, before) /\ Before(g, f, after) =>
                      \E p \in Processes :
                          /\ At(p, "write")
                          /\ staff[p].photo \in {None, f, g}
                             \/ staff[p].names # order
<1>1. ArrangeInv /\ ArrangeInv' /\ [Next]_vars => [Rearranges]_vars
  BY StepsRearrange
<1>2. Spec => [][Rearranges]_vars
  BY <1>1, ArrangeInvHolds, PTL DEF Spec
<1> QED
  BY <1>2 DEF NothingRearranged
================================================================================
