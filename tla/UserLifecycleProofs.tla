------------------------- MODULE UserLifecycleProofs --------------------------
(***************************************************************************)
(* Proofs about UserLifecycle, for any number of calls, devices and        *)
(* concurrent removals.                                                    *)
(***************************************************************************)
EXTENDS UserLifecycle, TLAPS

\* Only face calls upload.
TypeInv == TypeOK /\ \A e \in Event : call[e] = "upload" => e \in Face

\* The steps of an unlock call keep the types.
LEMMA CallTypes ==
    ASSUME TypeInv, NEW e \in Event, Match(e) \/ Upload(e) \/ Add(e)
    PROVE  TypeInv'
  <1> USE DEF TypeInv, TypeOK, documents, removal, Event
  <1>1. CASE Match(e)
    <2>1. call' = [call EXCEPT ![e] = IF e \in Face THEN "upload" ELSE "add"]
      BY <1>1 DEF Match
    <2>2. call' \in [Event -> {"none", "upload", "add", "done"}]
      BY <2>1
    <2>3. QED
      BY <1>1, <2>2 DEF Match
  <1>2. CASE Upload(e)
    <2>1. e \in Face
      BY <1>2, KindAssumption DEF Upload
    <2>2. QED
      BY <1>2, <2>1 DEF Upload
  <1>3. CASE Add(e)
    BY <1>3 DEF Add
  <1>4. QED
    BY <1>1, <1>2, <1>3

\* So do enrolment and the registration of devices,
LEMMA RegisterTypes ==
    ASSUME TypeInv, Register \/ \E d \in Device : RegisterDevice(d)
    PROVE  TypeInv'
  BY DEF TypeInv, TypeOK, documents, removal, Event, Register, RegisterDevice

\* and every step of a removal, its failures included.
LEMMA RemovalTypes ==
    ASSUME TypeInv, NEW r \in Remover, Remove(r)
    PROVE  TypeInv'
  <1> USE DEF TypeInv, TypeOK, documents, removal, Goto, Stored, Event
  <1>1. CASE Begin(r)
    BY <1>1 DEF Begin
  <1>2. CASE ListDevices(r)
    BY <1>2 DEF ListDevices
  <1>3. ASSUME NEW d \in Device, DeleteDevice(r, d) PROVE TypeInv'
    BY <1>3 DEF DeleteDevice
  <1>4. CASE ListLogs(r)
    BY <1>4 DEF ListLogs
  <1>5. ASSUME NEW e \in Event, DeleteImage(r, e) PROVE TypeInv'
    BY <1>5 DEF DeleteImage, Take
  <1>6. ASSUME NEW e \in Event, FailImage(r, e) PROVE TypeInv'
    BY <1>6 DEF FailImage, Take
  <1>7. ASSUME NEW e \in Event, NoImage(r, e) PROVE TypeInv'
    BY <1>7 DEF NoImage, Take
  <1>8. CASE Mark(r)
    BY <1>8 DEF Mark
  <1>9. CASE Drop(r)
    BY <1>9 DEF Drop
  <1>10. CASE EndLogs(r)
    BY <1>10 DEF EndLogs
  <1>11. CASE DeleteUser(r)
    BY <1>11 DEF DeleteUser
  <1>12. CASE Fail(r)
    BY <1>12 DEF Fail
  <1>13. QED
    BY <1>1, <1>2, <1>3, <1>4, <1>5, <1>6, <1>7, <1>8, <1>9, <1>10, <1>11, <1>12
    DEF Remove, Proceed, Faulty

\* Every variable keeps its type.
THEOREM TypeCorrect == Spec => []TypeOK
  <1>1. TypeInv /\ [Next]_vars => TypeInv'
    <2>1. ASSUME TypeInv, Next PROVE TypeInv'
      BY <2>1, CallTypes, RegisterTypes, RemovalTypes DEF Next
    <2>2. ASSUME TypeInv, UNCHANGED vars PROVE TypeInv'
      BY <2>2 DEF TypeInv, TypeOK, vars, documents, removal, Event
    <2>3. QED
      BY <2>1, <2>2
  <1>2. Init => TypeInv
    BY DEF Init, TypeInv, TypeOK, Event
  <1>3. TypeInv => TypeOK
    BY DEF TypeInv
  <1>4. QED
    BY <1>1, <1>2, <1>3, PTL DEF Spec

-----------------------------------------------------------------------------
(* What a removal holds in its hands.                                      *)

\* An entry exists only after its call has uploaded, and a removal works on
\* entries that existed; it drops one only when its image is away.
EntryInv ==
    /\ \A e \in Event : entry[e] # "none" => call[e] = "done"
    /\ \A e \in Face : entry[e] = "gone" => e \notin images
    /\ \A r \in Remover, e \in Event : e \in todo[r] => entry[e] # "none"
    /\ \A r \in Remover : at[r] \in {"mark", "drop"} =>
          hand[r] \in Event /\ entry[hand[r]] # "none"
    /\ \A r \in Remover : at[r] = "drop" => hand[r] \notin images

LEMMA EntryStep == TypeOK /\ EntryInv /\ [Next]_vars => EntryInv'
  <1> SUFFICES ASSUME TypeOK, EntryInv, [Next]_vars PROVE EntryInv'
    OBVIOUS
  <1>0. /\ entry \in [Event -> {"none", "present", "pending", "gone"}]
        /\ call \in [Event -> {"none", "upload", "add", "done"}]
        /\ at \in [Remover -> {"idle", "devices", "device", "logs", "mark", "drop", "user",
                               "ok", "error"}]
        /\ todo \in [Remover -> SUBSET (Event \cup Device)]
        /\ hand \in [Remover -> Event \cup {Nobody}]
        /\ Face \subseteq Event /\ images \subseteq Face
    BY DEF TypeOK, Event
  <1>00. Device \cap Event = {}
    BY KindAssumption DEF Event
  <1> USE DEF EntryInv, documents, removal, Goto, Stored
  <1>1. ASSUME NEW e \in Event, Match(e) \/ Upload(e) \/ Add(e) PROVE EntryInv'
    <2>1. CASE Match(e)
      BY <1>0, <2>1 DEF Match
    <2>2. CASE Upload(e)
      BY <1>0, <2>2 DEF Upload
    <2>3. CASE Add(e)
      BY <1>0, <2>3 DEF Add
    <2>4. QED
      BY <1>1, <2>1, <2>2, <2>3
  <1>2. CASE Register
    BY <1>2 DEF Register
  <1>3. ASSUME NEW d \in Device, RegisterDevice(d) PROVE EntryInv'
    BY <1>3 DEF RegisterDevice
  <1>4. ASSUME NEW r \in Remover, Remove(r) PROVE EntryInv'
    <2>1. CASE Begin(r)
      BY <1>0, <2>1 DEF Begin
    <2>2. CASE ListDevices(r)
      BY <1>0, <1>00, <2>2 DEF ListDevices, TypeOK
    <2>3. ASSUME NEW d \in Device, DeleteDevice(r, d) PROVE EntryInv'
      BY <1>0, <2>3 DEF DeleteDevice
    <2>4. CASE ListLogs(r)
      BY <1>0, <2>4 DEF ListLogs
    <2>5. ASSUME NEW e \in Event, DeleteImage(r, e) PROVE EntryInv'
      BY <1>0, <2>5 DEF DeleteImage, Take
    <2>6. ASSUME NEW e \in Event, FailImage(r, e) PROVE EntryInv'
      BY <1>0, <2>6 DEF FailImage, Take
    <2>7. ASSUME NEW e \in Event, NoImage(r, e) PROVE EntryInv'
      <3>1. e \notin Face
        BY <2>7, KindAssumption DEF NoImage
      <3>2. QED
        BY <1>0, <2>7, <3>1 DEF NoImage, Take
    <2>8. CASE Mark(r)
      BY <1>0, <2>8 DEF Mark
    <2>9. CASE Drop(r)
      BY <1>0, <2>9 DEF Drop
    <2>10. CASE EndLogs(r)
      BY <1>0, <2>10 DEF EndLogs
    <2>11. CASE DeleteUser(r)
      BY <1>0, <2>11 DEF DeleteUser
    <2>12. CASE Fail(r)
      BY <1>0, <2>12 DEF Fail
    <2>13. QED
      BY <1>4, <2>1, <2>2, <2>3, <2>4, <2>5, <2>6, <2>7, <2>8, <2>9, <2>10, <2>11, <2>12
      DEF Remove, Proceed, Faulty
  <1>5. CASE UNCHANGED vars
    BY <1>5 DEF vars
  <1>6. QED
    BY <1>1, <1>2, <1>3, <1>4, <1>5 DEF Next

LEMMA EntryInvariant == Spec => []EntryInv
  <1>1. Init => EntryInv
    BY DEF Init, EntryInv, Event
  <1>2. QED
    BY <1>1, EntryStep, TypeCorrect, PTL DEF Spec

\* No image loses its log entry, whatever fails and however many removals run.
THEOREM ImagesKeepTheirEntry == Spec => []EntryOutlivesImage
  <1>1. EntryInv => EntryOutlivesImage
    BY DEF EntryInv, EntryOutlivesImage
  <1>2. QED
    BY <1>1, EntryInvariant, PTL

\* A deleted entry stays deleted: the deletion mark is an update.
THEOREM DeletedStayDeleted == Spec => NeverRecreated
  <1>1. TypeOK /\ EntryInv /\ [Next]_vars =>
          [\A e \in Event : entry[e] = "gone" => entry'[e] = "gone"]_vars
    <2> SUFFICES ASSUME TypeOK, EntryInv, Next, NEW e \in Event, entry[e] = "gone"
                 PROVE  entry'[e] = "gone"
      OBVIOUS
    <2>1. entry \in [Event -> {"none", "present", "pending", "gone"}] /\ call[e] = "done"
      BY DEF TypeOK, EntryInv
    <2>2. ASSUME NEW f \in Event, Add(f) PROVE entry'[e] = "gone"
      BY <2>1, <2>2 DEF Add
    <2>3. ASSUME NEW f \in Event, Match(f) \/ Upload(f) PROVE entry'[e] = "gone"
      BY <2>3 DEF Match, Upload, documents
    <2>4. ASSUME NEW r \in Remover, Mark(r) \/ Drop(r) PROVE entry'[e] = "gone"
      <3>1. hand[r] \in Event
        BY <2>4 DEF Mark, Drop, EntryInv
      <3>2. QED
        BY <2>1, <2>4, <3>1 DEF Mark, Drop, Stored
    <2>5. ASSUME NEW r \in Remover, Remove(r), ~ Mark(r), ~ Drop(r) PROVE entry'[e] = "gone"
      BY <2>5 DEF Remove, Proceed, Faulty, Begin, ListDevices, DeleteDevice, ListLogs, DeleteImage, FailImage,
                  NoImage, EndLogs, DeleteUser, Fail, documents
    <2>6. CASE Register \/ \E d \in Device : RegisterDevice(d)
      BY <2>6 DEF Register, RegisterDevice
    <2>7. QED
      BY <2>2, <2>3, <2>4, <2>5, <2>6 DEF Next
  <1>2. QED
    BY <1>1, EntryInvariant, TypeCorrect, PTL DEF Spec, NeverRecreated

-----------------------------------------------------------------------------
(* The user goes last.                                                     *)

\* What a removal found is deleted or still on its list, or a failure will
\* keep it from the user.
CascadeInv ==
    \A r \in Remover :
        /\ \A e \in Event : e \in found[r] => call[e] = "done"
        /\ at[r] = "device" => found[r] \cap devices \subseteq todo[r]
        /\ at[r] \in {"logs", "mark", "drop", "user"} => found[r] \cap devices = {}
        /\ at[r] = "mark" => failures[r]
        /\ at[r] = "logs" => failures[r] \/ found[r] \cap Stored \subseteq todo[r]
        /\ at[r] = "drop" => failures[r] \/ found[r] \cap Stored \subseteq todo[r] \cup {hand[r]}
        /\ at[r] = "user" => found[r] \cap Stored = {}

LEMMA CascadeStep == TypeOK /\ EntryInv /\ CascadeInv /\ [Next]_vars => CascadeInv'
  <1> SUFFICES ASSUME TypeOK, EntryInv, CascadeInv, [Next]_vars PROVE CascadeInv'
    OBVIOUS
  <1>0. /\ entry \in [Event -> {"none", "present", "pending", "gone"}]
        /\ call \in [Event -> {"none", "upload", "add", "done"}]
        /\ at \in [Remover -> {"idle", "devices", "device", "logs", "mark", "drop", "user",
                               "ok", "error"}]
        /\ todo \in [Remover -> SUBSET (Event \cup Device)]
        /\ hand \in [Remover -> Event \cup {Nobody}]
        /\ failures \in [Remover -> BOOLEAN]
        /\ found \in [Remover -> SUBSET (Event \cup Device)]
        /\ devices \subseteq Device
    BY DEF TypeOK
  <1>00. Device \cap Event = {}
    BY KindAssumption DEF Event
  <1>01. \A e \in Event : entry[e] # "none" => call[e] = "done"
    BY DEF EntryInv
  <1> USE DEF CascadeInv, documents, removal, Goto, Stored
  <1>1. ASSUME NEW e \in Event, Match(e) \/ Upload(e) PROVE CascadeInv'
    BY <1>0, <1>1 DEF Match, Upload
  <1>2. ASSUME NEW e \in Event, Add(e) PROVE CascadeInv'
    <2>1. \A r \in Remover : e \notin found[r]
      BY <1>2 DEF Add
    <2>2. \A f \in Event : f # e => entry'[f] = entry[f]
      BY <1>0, <1>2 DEF Add
    <2>3. QED
      BY <1>0, <1>2, <2>1, <2>2 DEF Add
  <1>3. CASE Register
    BY <1>3 DEF Register
  <1>4. ASSUME NEW d \in Device, RegisterDevice(d) PROVE CascadeInv'
    BY <1>0, <1>4 DEF RegisterDevice
  <1>5. ASSUME NEW r \in Remover, Remove(r) PROVE CascadeInv'
    <2>1. CASE Begin(r)
      BY <1>0, <1>00, <1>01, <2>1 DEF Begin
    <2>2. CASE ListDevices(r)
      BY <1>0, <2>2 DEF ListDevices
    <2>3. ASSUME NEW d \in Device, DeleteDevice(r, d) PROVE CascadeInv'
      BY <1>0, <2>3 DEF DeleteDevice
    <2>4. CASE ListLogs(r)
      BY <1>0, <2>4 DEF ListLogs
    <2>5. ASSUME NEW e \in Event, DeleteImage(r, e) PROVE CascadeInv'
      BY <1>0, <2>5 DEF DeleteImage, Take
    <2>6. ASSUME NEW e \in Event, FailImage(r, e) PROVE CascadeInv'
      BY <1>0, <2>6 DEF FailImage, Take
    <2>7. ASSUME NEW e \in Event, NoImage(r, e) PROVE CascadeInv'
      BY <1>0, <2>7 DEF NoImage, Take
    <2>8. CASE Mark(r)
      BY <1>0, <2>8 DEF Mark
    <2>9. CASE Drop(r)
      BY <1>0, <2>9 DEF Drop
    <2>10. CASE EndLogs(r)
      BY <1>0, <2>10 DEF EndLogs
    <2>11. CASE DeleteUser(r)
      BY <1>0, <2>11 DEF DeleteUser
    <2>12. CASE Fail(r)
      BY <1>0, <2>12 DEF Fail
    <2>13. QED
      BY <1>5, <2>1, <2>2, <2>3, <2>4, <2>5, <2>6, <2>7, <2>8, <2>9, <2>10, <2>11, <2>12
      DEF Remove, Proceed, Faulty
  <1>6. CASE UNCHANGED vars
    BY <1>6 DEF vars
  <1>7. QED
    BY <1>1, <1>2, <1>3, <1>4, <1>5, <1>6 DEF Next

\* A removal comes to the user only when every device and entry it found is
\* deleted, however many removals and calls run at once.
THEOREM UserGoesLast == Spec => []UserLast
  <1>1. Init => CascadeInv
    BY DEF Init, CascadeInv
  <1>2. TypeOK /\ CascadeInv => UserLast
    BY DEF CascadeInv, UserLast
  <1>3. QED
    BY <1>1, <1>2, CascadeStep, EntryInvariant, TypeCorrect, PTL DEF Spec

\* ImagesErased does not hold of the code.  The images a successful removal
\* leaves behind are those that never had a log entry, because _log_event
\* failed after the upload, and no others.
ErasedUnlessUnlogged ==
    \A r \in Remover : at[r] = "user" =>
        \A e \in found[r] \cap images : entry[e] = "none"

\* Only a failed _log_event keeps an image from being erased.
THEOREM LoggedAreErased == Spec => []ErasedUnlessUnlogged
  <1>1. TypeOK /\ EntryOutlivesImage /\ UserLast => ErasedUnlessUnlogged
    <2> SUFFICES ASSUME TypeOK, EntryOutlivesImage, UserLast, NEW r \in Remover,
                        at[r] = "user", NEW e \in found[r] \cap images
                 PROVE  entry[e] = "none"
      BY DEF ErasedUnlessUnlogged
    <2>1. e \in Face /\ e \in Event
      BY DEF TypeOK, Event
    <2>2. entry[e] \notin {"present", "pending"}
      BY <2>1 DEF UserLast, Stored
    <2>3. entry[e] # "gone"
      BY <2>1 DEF EntryOutlivesImage
    <2>4. QED
      BY <2>1, <2>2, <2>3 DEF TypeOK
  <1>2. QED
    BY <1>1, TypeCorrect, ImagesKeepTheirEntry, UserGoesLast, PTL
=============================================================================
