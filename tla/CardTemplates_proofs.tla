------------------------ MODULE CardTemplates_proofs ------------------------
(***************************************************************************)
(* Proofs about CardTemplates, for any number of templates, images, passes *)
(* and pages, with its inductive invariant IInv, and about EventPasses,    *)
(* for any number of payments, callers and pages, with PassesIInv, and     *)
(* about Badges, for any number of QR codes, templates and requests, with  *)
(* BadgesIInv. One lemma per action, with one step per conjunct.           *)
(***************************************************************************)
EXTENDS CardTemplates, EventPasses, Badges, FiniteSetTheorems, TLAPS

-----------------------------------------------------------------------------
(* The capacity of the library *)

\* Nothing new on its way and nothing new listed: the bound stands.
LEMMA BoundKept ==
  ASSUME ConstantsOK, IInv, library' \subseteq library, Uploading' \subseteq Uploading
  PROVE  LibraryBounded'
<1>1. IsFiniteSet(library) /\ IsFiniteSet(Uploading)
  BY FS_Subset DEF ConstantsOK, IInv, TypeOK, Uploading
<1>2. Cardinality(library') <= Cardinality(library) /\ Cardinality(library) \in Nat /\ Cardinality(library') \in Nat
  BY <1>1, FS_Subset, FS_CardinalityType
<1>3. Cardinality(Uploading') <= Cardinality(Uploading) /\ Cardinality(Uploading) \in Nat /\ Cardinality(Uploading') \in Nat
  BY <1>1, FS_Subset, FS_CardinalityType
<1>4. Cardinality(Admin) \in Nat
  BY FS_CardinalityType DEF ConstantsOK
<1> QED  BY <1>2, <1>3, <1>4 DEF IInv, LibraryBounded, ConstantsOK

\* One more on its way, while the library is not full.
LEMMA UploadBounded ==
  ASSUME ConstantsOK, IInv, NEW a \in Admin, Upload(a)
  PROVE  LibraryBounded'
<1>1. IsFiniteSet(library) /\ Uploading' \subseteq Admin /\ library' = library
  BY FS_Subset DEF ConstantsOK, IInv, TypeOK, Uploading, Upload, assetVars
<1>2. Cardinality(Uploading') <= Cardinality(Admin) /\ Cardinality(Uploading') \in Nat /\ Cardinality(Admin) \in Nat
  BY <1>1, FS_Subset, FS_CardinalityType DEF ConstantsOK
<1>3. Cardinality(library) + 1 <= MaxAssets /\ Cardinality(library) \in Nat
  BY <1>1, FS_CardinalityType DEF Upload, ConstantsOK
<1> QED  BY <1>1, <1>2, <1>3 DEF LibraryBounded, ConstantsOK

\* One more listed, one less on its way.
LEMMA RegisterBounded ==
  ASSUME ConstantsOK, IInv, NEW a \in Admin, Register(a)
  PROVE  LibraryBounded'
<1>1. IsFiniteSet(library) /\ IsFiniteSet(Uploading)
  BY FS_Subset DEF ConstantsOK, IInv, TypeOK, Uploading
<1>2. library' = library \cup {request[a].image} /\ a \in Uploading
  BY DEF Register, Waiting, Uploading
<1>3. Uploading' \subseteq Uploading \ {a}
  BY DEF IInv, TypeOK, Register, Edit, Uploading, Waiting, Idle, Answer, Wait
<1>4. Cardinality(library') \in {Cardinality(library), Cardinality(library) + 1} /\ Cardinality(library) \in Nat
  BY <1>1, <1>2, FS_AddElement, FS_CardinalityType
<1>5. IsFiniteSet(Uploading \ {a}) /\ Cardinality(Uploading \ {a}) = Cardinality(Uploading) - 1 /\ Cardinality(Uploading) \in Nat
  BY <1>1, <1>2, FS_RemoveElement, FS_CardinalityType
<1>6. Cardinality(Uploading') <= Cardinality(Uploading) - 1 /\ Cardinality(Uploading') \in Nat
  BY <1>3, <1>5, FS_Subset, FS_CardinalityType
<1>7. Cardinality(Admin) \in Nat
  BY FS_CardinalityType DEF ConstantsOK
<1> QED  BY <1>4, <1>5, <1>6, <1>7 DEF IInv, LibraryBounded, ConstantsOK

-----------------------------------------------------------------------------
(* Each action keeps the invariant *)

\* A page asks for an upload while there is room.
LEMMA UploadKeeps ==
  ASSUME ConstantsOK, IInv, NEW a \in Admin, Upload(a)
  PROVE  IInv'
<1>1. TypeOK'
  BY DEF IInv, ConstantsOK, Upload, TypeOK, Requests, Cards, NoCard, Statuses, Snapshots, NewRow, Idle, Waiting, Editing, Wait, Answer, rowVars, defaultVars, assetVars
<1>2. LibraryBacked'
  BY DEF IInv, ConstantsOK, Upload, TypeOK, LibraryBacked, PendingUnknown, Known, StepsInFlight, InFlight, Idle, Waiting, Editing, Wait, Answer, rowVars, defaultVars, assetVars
<1>3. KnownDrawn'
  BY DEF IInv, ConstantsOK, Upload, TypeOK, KnownDrawn, Known, StepsInFlight, InFlight, NewRow, Idle, Waiting, Editing, Wait, Answer, rowVars, defaultVars, assetVars
<1>4. PendingUnknown'
  BY DEF IInv, ConstantsOK, Upload, TypeOK, KnownDrawn, Known, PendingUnknown, StepsInFlight, InFlight, NewRow, Idle, Waiting, Editing, Wait, Answer, rowVars, defaultVars, assetVars
<1>5. StepsInFlight'
  BY DEF IInv, ConstantsOK, Upload, TypeOK, KnownDrawn, Known, PendingUnknown, StepsInFlight, InFlight, NewRow, Snapshots, Live, Published, Statuses, Referenced, Transitions, Idle, Waiting, Editing, Wait, Answer, rowVars, defaultVars, assetVars
<1>6. LibraryBounded'
  BY UploadBounded
<1>7. DraftsStayInside'
  BY DEF IInv, ConstantsOK, Upload, TypeOK, DraftsStayInside, StepsInFlight, InFlight, Snapshots, Published, Live, NewRow, Cards, NoCard, Idle, Waiting, Editing, Wait, Answer, rowVars, defaultVars, assetVars
<1>8. NewUnflagged'
  BY DEF IInv, ConstantsOK, Upload, TypeOK, NewUnflagged, StepsInFlight, InFlight, NewRow, Statuses, Idle, Waiting, Editing, Wait, Answer, rowVars, defaultVars, assetVars
<1>9. FlagAgrees'
  BY DEF IInv, ConstantsOK, Upload, TypeOK, FlagAgrees, NewUnflagged, Live, NewRow, DraftsStayInside, Idle, Waiting, Editing, Wait, Answer, rowVars, defaultVars, assetVars
<1> QED  BY <1>1, <1>2, <1>3, <1>4, <1>5, <1>6, <1>7, <1>8, <1>9 DEF IInv

\* The file gets a name nobody knows.
LEMMA StoreFileKeeps ==
  ASSUME ConstantsOK, IInv, NEW a \in Admin, StoreFile(a)
  PROVE  IInv'
<1>1. TypeOK'
  BY DEF IInv, ConstantsOK, StoreFile, TypeOK, Requests, Cards, NoCard, Statuses, Snapshots, NewRow, Idle, Waiting, Editing, Wait, Answer, rowVars, defaultVars, assetVars
<1>2. LibraryBacked'
  BY DEF IInv, ConstantsOK, StoreFile, TypeOK, LibraryBacked, PendingUnknown, Known, StepsInFlight, InFlight, Idle, Waiting, Editing, Wait, Answer, rowVars, defaultVars, assetVars
<1>3. KnownDrawn'
  BY DEF IInv, ConstantsOK, StoreFile, TypeOK, KnownDrawn, Known, StepsInFlight, InFlight, NewRow, Idle, Waiting, Editing, Wait, Answer, rowVars, defaultVars, assetVars
<1>4. PendingUnknown'
  BY DEF IInv, ConstantsOK, StoreFile, TypeOK, KnownDrawn, Known, PendingUnknown, StepsInFlight, InFlight, NewRow, Idle, Waiting, Editing, Wait, Answer, rowVars, defaultVars, assetVars
<1>5. StepsInFlight'
  BY DEF IInv, ConstantsOK, StoreFile, TypeOK, KnownDrawn, Known, PendingUnknown, StepsInFlight, InFlight, NewRow, Snapshots, Live, Published, Statuses, Referenced, Transitions, Idle, Waiting, Editing, Wait, Answer, rowVars, defaultVars, assetVars
<1>6. LibraryBounded'
  <2>1. library' \subseteq library
    BY DEF StoreFile, assetVars
  <2>2. Uploading' \subseteq Uploading
    BY DEF IInv, TypeOK, Uploading, StoreFile, Idle, Waiting, Editing, Wait, Answer
  <2> QED  BY <2>1, <2>2, BoundKept
<1>7. DraftsStayInside'
  BY DEF IInv, ConstantsOK, StoreFile, TypeOK, DraftsStayInside, StepsInFlight, InFlight, Snapshots, Published, Live, NewRow, Cards, NoCard, Idle, Waiting, Editing, Wait, Answer, rowVars, defaultVars, assetVars
<1>8. NewUnflagged'
  BY DEF IInv, ConstantsOK, StoreFile, TypeOK, NewUnflagged, StepsInFlight, InFlight, NewRow, Statuses, Idle, Waiting, Editing, Wait, Answer, rowVars, defaultVars, assetVars
<1>9. FlagAgrees'
  BY DEF IInv, ConstantsOK, StoreFile, TypeOK, FlagAgrees, NewUnflagged, Live, NewRow, DraftsStayInside, Idle, Waiting, Editing, Wait, Answer, rowVars, defaultVars, assetVars
<1> QED  BY <1>1, <1>2, <1>3, <1>4, <1>5, <1>6, <1>7, <1>8, <1>9 DEF IInv

\* The image, so far known to its upload alone, is listed.
LEMMA RegisterKeeps ==
  ASSUME ConstantsOK, IInv, NEW a \in Admin, Register(a)
  PROVE  IInv'
<1>1. TypeOK'
  BY DEF IInv, ConstantsOK, Register, Edit, TypeOK, Requests, Cards, NoCard, Statuses, Snapshots, NewRow, Idle, Waiting, Editing, Wait, Answer, rowVars, defaultVars, assetVars
<1>2. LibraryBacked'
  BY DEF IInv, ConstantsOK, Register, Edit, TypeOK, LibraryBacked, PendingUnknown, Known, StepsInFlight, InFlight, Idle, Waiting, Editing, Wait, Answer, rowVars, defaultVars, assetVars
<1>3. KnownDrawn'
  BY DEF IInv, ConstantsOK, Register, Edit, TypeOK, KnownDrawn, Known, StepsInFlight, InFlight, NewRow, Idle, Waiting, Editing, Wait, Answer, rowVars, defaultVars, assetVars
<1>4. PendingUnknown'
  BY DEF IInv, ConstantsOK, Register, Edit, TypeOK, KnownDrawn, Known, PendingUnknown, StepsInFlight, InFlight, NewRow, Idle, Waiting, Editing, Wait, Answer, rowVars, defaultVars, assetVars
<1>5. StepsInFlight'
  BY DEF IInv, ConstantsOK, Register, Edit, TypeOK, KnownDrawn, Known, PendingUnknown, StepsInFlight, InFlight, NewRow, Snapshots, Live, Published, Statuses, Referenced, Transitions, Idle, Waiting, Editing, Wait, Answer, rowVars, defaultVars, assetVars
<1>6. LibraryBounded'
  BY RegisterBounded
<1>7. DraftsStayInside'
  BY DEF IInv, ConstantsOK, Register, Edit, TypeOK, DraftsStayInside, StepsInFlight, InFlight, Snapshots, Published, Live, NewRow, Cards, NoCard, Idle, Waiting, Editing, Wait, Answer, rowVars, defaultVars, assetVars
<1>8. NewUnflagged'
  BY DEF IInv, ConstantsOK, Register, Edit, TypeOK, NewUnflagged, StepsInFlight, InFlight, NewRow, Statuses, Idle, Waiting, Editing, Wait, Answer, rowVars, defaultVars, assetVars
<1>9. FlagAgrees'
  BY DEF IInv, ConstantsOK, Register, Edit, TypeOK, FlagAgrees, NewUnflagged, Live, NewRow, DraftsStayInside, Idle, Waiting, Editing, Wait, Answer, rowVars, defaultVars, assetVars
<1> QED  BY <1>1, <1>2, <1>3, <1>4, <1>5, <1>6, <1>7, <1>8, <1>9 DEF IInv

\* An unused image is about to leave the library.
LEMMA RemoveAssetKeeps ==
  ASSUME ConstantsOK, IInv, NEW a \in Admin, NEW i \in Image, RemoveAsset(a, i)
  PROVE  IInv'
<1>1. TypeOK'
  BY DEF IInv, ConstantsOK, RemoveAsset, TypeOK, Requests, Cards, NoCard, Statuses, Snapshots, NewRow, Idle, Waiting, Editing, Wait, Answer, rowVars, defaultVars, assetVars
<1>2. LibraryBacked'
  BY DEF IInv, ConstantsOK, RemoveAsset, TypeOK, LibraryBacked, PendingUnknown, Known, StepsInFlight, InFlight, Idle, Waiting, Editing, Wait, Answer, rowVars, defaultVars, assetVars
<1>3. KnownDrawn'
  BY DEF IInv, ConstantsOK, RemoveAsset, TypeOK, KnownDrawn, Known, StepsInFlight, InFlight, NewRow, Idle, Waiting, Editing, Wait, Answer, rowVars, defaultVars, assetVars
<1>4. PendingUnknown'
  BY DEF IInv, ConstantsOK, RemoveAsset, TypeOK, KnownDrawn, Known, PendingUnknown, StepsInFlight, InFlight, NewRow, Idle, Waiting, Editing, Wait, Answer, rowVars, defaultVars, assetVars
<1>5. StepsInFlight'
  BY DEF IInv, ConstantsOK, RemoveAsset, TypeOK, KnownDrawn, Known, PendingUnknown, StepsInFlight, InFlight, NewRow, Snapshots, Live, Published, Statuses, Referenced, Transitions, Idle, Waiting, Editing, Wait, Answer, rowVars, defaultVars, assetVars
<1>6. LibraryBounded'
  <2>1. library' \subseteq library
    BY DEF RemoveAsset, assetVars
  <2>2. Uploading' \subseteq Uploading
    BY DEF IInv, TypeOK, Uploading, RemoveAsset, Idle, Waiting, Editing, Wait, Answer
  <2> QED  BY <2>1, <2>2, BoundKept
<1>7. DraftsStayInside'
  BY DEF IInv, ConstantsOK, RemoveAsset, TypeOK, DraftsStayInside, StepsInFlight, InFlight, Snapshots, Published, Live, NewRow, Cards, NoCard, Idle, Waiting, Editing, Wait, Answer, rowVars, defaultVars, assetVars
<1>8. NewUnflagged'
  BY DEF IInv, ConstantsOK, RemoveAsset, TypeOK, NewUnflagged, StepsInFlight, InFlight, NewRow, Statuses, Idle, Waiting, Editing, Wait, Answer, rowVars, defaultVars, assetVars
<1>9. FlagAgrees'
  BY DEF IInv, ConstantsOK, RemoveAsset, TypeOK, FlagAgrees, NewUnflagged, Live, NewRow, DraftsStayInside, Idle, Waiting, Editing, Wait, Answer, rowVars, defaultVars, assetVars
<1> QED  BY <1>1, <1>2, <1>3, <1>4, <1>5, <1>6, <1>7, <1>8, <1>9 DEF IInv

\* The row goes; only who removed it removes the file.
LEMMA RemoveRowKeeps ==
  ASSUME ConstantsOK, IInv, NEW a \in Admin, RemoveRow(a)
  PROVE  IInv'
<1>1. TypeOK'
  BY DEF IInv, ConstantsOK, RemoveRow, TypeOK, Requests, Cards, NoCard, Statuses, Snapshots, NewRow, Idle, Waiting, Editing, Wait, Answer, rowVars, defaultVars, assetVars
<1>2. LibraryBacked'
  BY DEF IInv, ConstantsOK, RemoveRow, TypeOK, LibraryBacked, PendingUnknown, Known, StepsInFlight, InFlight, Idle, Waiting, Editing, Wait, Answer, rowVars, defaultVars, assetVars
<1>3. KnownDrawn'
  BY DEF IInv, ConstantsOK, RemoveRow, TypeOK, KnownDrawn, Known, StepsInFlight, InFlight, NewRow, Idle, Waiting, Editing, Wait, Answer, rowVars, defaultVars, assetVars
<1>4. PendingUnknown'
  BY DEF IInv, ConstantsOK, RemoveRow, TypeOK, KnownDrawn, Known, PendingUnknown, StepsInFlight, InFlight, NewRow, Idle, Waiting, Editing, Wait, Answer, rowVars, defaultVars, assetVars
<1>5. StepsInFlight'
  BY DEF IInv, ConstantsOK, RemoveRow, TypeOK, KnownDrawn, Known, PendingUnknown, StepsInFlight, InFlight, NewRow, Snapshots, Live, Published, Statuses, Referenced, Transitions, Idle, Waiting, Editing, Wait, Answer, rowVars, defaultVars, assetVars
<1>6. LibraryBounded'
  <2>1. library' \subseteq library
    BY DEF RemoveRow, assetVars
  <2>2. Uploading' \subseteq Uploading
    BY DEF IInv, TypeOK, Uploading, RemoveRow, Idle, Waiting, Editing, Wait, Answer
  <2> QED  BY <2>1, <2>2, BoundKept
<1>7. DraftsStayInside'
  BY DEF IInv, ConstantsOK, RemoveRow, TypeOK, DraftsStayInside, StepsInFlight, InFlight, Snapshots, Published, Live, NewRow, Cards, NoCard, Idle, Waiting, Editing, Wait, Answer, rowVars, defaultVars, assetVars
<1>8. NewUnflagged'
  BY DEF IInv, ConstantsOK, RemoveRow, TypeOK, NewUnflagged, StepsInFlight, InFlight, NewRow, Statuses, Idle, Waiting, Editing, Wait, Answer, rowVars, defaultVars, assetVars
<1>9. FlagAgrees'
  BY DEF IInv, ConstantsOK, RemoveRow, TypeOK, FlagAgrees, NewUnflagged, Live, NewRow, DraftsStayInside, Idle, Waiting, Editing, Wait, Answer, rowVars, defaultVars, assetVars
<1> QED  BY <1>1, <1>2, <1>3, <1>4, <1>5, <1>6, <1>7, <1>8, <1>9 DEF IInv

\* A file goes that is not listed any more.
LEMMA UnlinkKeeps ==
  ASSUME ConstantsOK, IInv, NEW a \in Admin, Unlink(a)
  PROVE  IInv'
<1>1. TypeOK'
  BY DEF IInv, ConstantsOK, Unlink, TypeOK, Requests, Cards, NoCard, Statuses, Snapshots, NewRow, Idle, Waiting, Editing, Wait, Answer, rowVars, defaultVars, assetVars
<1>2. LibraryBacked'
  BY DEF IInv, ConstantsOK, Unlink, TypeOK, LibraryBacked, PendingUnknown, Known, StepsInFlight, InFlight, Idle, Waiting, Editing, Wait, Answer, rowVars, defaultVars, assetVars
<1>3. KnownDrawn'
  BY DEF IInv, ConstantsOK, Unlink, TypeOK, KnownDrawn, Known, StepsInFlight, InFlight, NewRow, Idle, Waiting, Editing, Wait, Answer, rowVars, defaultVars, assetVars
<1>4. PendingUnknown'
  BY DEF IInv, ConstantsOK, Unlink, TypeOK, KnownDrawn, Known, PendingUnknown, StepsInFlight, InFlight, NewRow, Idle, Waiting, Editing, Wait, Answer, rowVars, defaultVars, assetVars
<1>5. StepsInFlight'
  BY DEF IInv, ConstantsOK, Unlink, TypeOK, KnownDrawn, Known, PendingUnknown, StepsInFlight, InFlight, NewRow, Snapshots, Live, Published, Statuses, Referenced, Transitions, Idle, Waiting, Editing, Wait, Answer, rowVars, defaultVars, assetVars
<1>6. LibraryBounded'
  <2>1. library' \subseteq library
    BY DEF Unlink, assetVars
  <2>2. Uploading' \subseteq Uploading
    BY DEF IInv, TypeOK, Uploading, Unlink, Idle, Waiting, Editing, Wait, Answer
  <2> QED  BY <2>1, <2>2, BoundKept
<1>7. DraftsStayInside'
  BY DEF IInv, ConstantsOK, Unlink, TypeOK, DraftsStayInside, StepsInFlight, InFlight, Snapshots, Published, Live, NewRow, Cards, NoCard, Idle, Waiting, Editing, Wait, Answer, rowVars, defaultVars, assetVars
<1>8. NewUnflagged'
  BY DEF IInv, ConstantsOK, Unlink, TypeOK, NewUnflagged, StepsInFlight, InFlight, NewRow, Statuses, Idle, Waiting, Editing, Wait, Answer, rowVars, defaultVars, assetVars
<1>9. FlagAgrees'
  BY DEF IInv, ConstantsOK, Unlink, TypeOK, FlagAgrees, NewUnflagged, Live, NewRow, DraftsStayInside, Idle, Waiting, Editing, Wait, Answer, rowVars, defaultVars, assetVars
<1> QED  BY <1>1, <1>2, <1>3, <1>4, <1>5, <1>6, <1>7, <1>8, <1>9 DEF IInv

\* An image of the library is chosen.
LEMMA PickImageKeeps ==
  ASSUME ConstantsOK, IInv, NEW a \in Admin, PickImage(a)
  PROVE  IInv'
<1>1. TypeOK'
  BY DEF IInv, ConstantsOK, PickImage, Edit, TypeOK, Requests, Cards, NoCard, Statuses, Snapshots, NewRow, Idle, Waiting, Editing, Wait, Answer, rowVars, defaultVars, assetVars
<1>2. LibraryBacked'
  BY DEF IInv, ConstantsOK, PickImage, Edit, TypeOK, LibraryBacked, PendingUnknown, Known, StepsInFlight, InFlight, Idle, Waiting, Editing, Wait, Answer, rowVars, defaultVars, assetVars
<1>3. KnownDrawn'
  BY DEF IInv, ConstantsOK, PickImage, Edit, TypeOK, KnownDrawn, Known, StepsInFlight, InFlight, NewRow, Idle, Waiting, Editing, Wait, Answer, rowVars, defaultVars, assetVars
<1>4. PendingUnknown'
  BY DEF IInv, ConstantsOK, PickImage, Edit, TypeOK, KnownDrawn, Known, PendingUnknown, StepsInFlight, InFlight, NewRow, Idle, Waiting, Editing, Wait, Answer, rowVars, defaultVars, assetVars
<1>5. StepsInFlight'
  BY DEF IInv, ConstantsOK, PickImage, Edit, TypeOK, KnownDrawn, Known, PendingUnknown, StepsInFlight, InFlight, NewRow, Snapshots, Live, Published, Statuses, Referenced, Transitions, Idle, Waiting, Editing, Wait, Answer, rowVars, defaultVars, assetVars
<1>6. LibraryBounded'
  <2>1. library' \subseteq library
    BY DEF PickImage, Edit, assetVars
  <2>2. Uploading' \subseteq Uploading
    BY DEF IInv, TypeOK, Uploading, PickImage, Edit, Idle, Waiting, Editing, Wait, Answer
  <2> QED  BY <2>1, <2>2, BoundKept
<1>7. DraftsStayInside'
  BY DEF IInv, ConstantsOK, PickImage, Edit, TypeOK, DraftsStayInside, StepsInFlight, InFlight, Snapshots, Published, Live, NewRow, Cards, NoCard, Idle, Waiting, Editing, Wait, Answer, rowVars, defaultVars, assetVars
<1>8. NewUnflagged'
  BY DEF IInv, ConstantsOK, PickImage, Edit, TypeOK, NewUnflagged, StepsInFlight, InFlight, NewRow, Statuses, Idle, Waiting, Editing, Wait, Answer, rowVars, defaultVars, assetVars
<1>9. FlagAgrees'
  BY DEF IInv, ConstantsOK, PickImage, Edit, TypeOK, FlagAgrees, NewUnflagged, Live, NewRow, DraftsStayInside, Idle, Waiting, Editing, Wait, Answer, rowVars, defaultVars, assetVars
<1> QED  BY <1>1, <1>2, <1>3, <1>4, <1>5, <1>6, <1>7, <1>8, <1>9 DEF IInv

\* The editor shows a template.
LEMMA OpenEditKeeps ==
  ASSUME ConstantsOK, IInv, NEW a \in Admin, NEW t \in Template, OpenEdit(a, t)
  PROVE  IInv'
<1>1. TypeOK'
  BY DEF IInv, ConstantsOK, OpenEdit, TypeOK, Requests, Cards, NoCard, Statuses, Snapshots, NewRow, Idle, Waiting, Editing, Wait, Answer, rowVars, defaultVars, assetVars
<1>2. LibraryBacked'
  BY DEF IInv, ConstantsOK, OpenEdit, TypeOK, LibraryBacked, PendingUnknown, Known, StepsInFlight, InFlight, Idle, Waiting, Editing, Wait, Answer, rowVars, defaultVars, assetVars
<1>3. KnownDrawn'
  BY DEF IInv, ConstantsOK, OpenEdit, TypeOK, KnownDrawn, Known, StepsInFlight, InFlight, NewRow, Idle, Waiting, Editing, Wait, Answer, rowVars, defaultVars, assetVars
<1>4. PendingUnknown'
  BY DEF IInv, ConstantsOK, OpenEdit, TypeOK, KnownDrawn, Known, PendingUnknown, StepsInFlight, InFlight, NewRow, Idle, Waiting, Editing, Wait, Answer, rowVars, defaultVars, assetVars
<1>5. StepsInFlight'
  BY DEF IInv, ConstantsOK, OpenEdit, TypeOK, KnownDrawn, Known, PendingUnknown, StepsInFlight, InFlight, NewRow, Snapshots, Live, Published, Statuses, Referenced, Transitions, Idle, Waiting, Editing, Wait, Answer, rowVars, defaultVars, assetVars
<1>6. LibraryBounded'
  <2>1. library' \subseteq library
    BY DEF OpenEdit, assetVars
  <2>2. Uploading' \subseteq Uploading
    BY DEF IInv, TypeOK, Uploading, OpenEdit, Idle, Waiting, Editing, Wait, Answer
  <2> QED  BY <2>1, <2>2, BoundKept
<1>7. DraftsStayInside'
  BY DEF IInv, ConstantsOK, OpenEdit, TypeOK, DraftsStayInside, StepsInFlight, InFlight, Snapshots, Published, Live, NewRow, Cards, NoCard, Idle, Waiting, Editing, Wait, Answer, rowVars, defaultVars, assetVars
<1>8. NewUnflagged'
  BY DEF IInv, ConstantsOK, OpenEdit, TypeOK, NewUnflagged, StepsInFlight, InFlight, NewRow, Statuses, Idle, Waiting, Editing, Wait, Answer, rowVars, defaultVars, assetVars
<1>9. FlagAgrees'
  BY DEF IInv, ConstantsOK, OpenEdit, TypeOK, FlagAgrees, NewUnflagged, Live, NewRow, DraftsStayInside, Idle, Waiting, Editing, Wait, Answer, rowVars, defaultVars, assetVars
<1> QED  BY <1>1, <1>2, <1>3, <1>4, <1>5, <1>6, <1>7, <1>8, <1>9 DEF IInv

\* A new draft shows the image chosen.
LEMMA CreateKeeps ==
  ASSUME ConstantsOK, IInv, NEW a \in Admin, NEW t \in Template, Create(a, t)
  PROVE  IInv'
<1>1. TypeOK'
  BY DEF IInv, ConstantsOK, Create, SetImage, TypeOK, Requests, Cards, NoCard, Statuses, Snapshots, NewRow, Idle, Waiting, Editing, Wait, Answer, rowVars, defaultVars, assetVars
<1>2. LibraryBacked'
  BY DEF IInv, ConstantsOK, Create, SetImage, TypeOK, LibraryBacked, PendingUnknown, Known, StepsInFlight, InFlight, Idle, Waiting, Editing, Wait, Answer, rowVars, defaultVars, assetVars
<1>3. KnownDrawn'
  BY DEF IInv, ConstantsOK, Create, SetImage, TypeOK, KnownDrawn, Known, StepsInFlight, InFlight, NewRow, Idle, Waiting, Editing, Wait, Answer, rowVars, defaultVars, assetVars
<1>4. PendingUnknown'
  BY DEF IInv, ConstantsOK, Create, SetImage, TypeOK, KnownDrawn, Known, PendingUnknown, StepsInFlight, InFlight, NewRow, Idle, Waiting, Editing, Wait, Answer, rowVars, defaultVars, assetVars
<1>5. StepsInFlight'
  BY DEF IInv, ConstantsOK, Create, SetImage, TypeOK, KnownDrawn, Known, PendingUnknown, StepsInFlight, InFlight, NewRow, Snapshots, Live, Published, Statuses, Referenced, Transitions, Idle, Waiting, Editing, Wait, Answer, rowVars, defaultVars, assetVars
<1>6. LibraryBounded'
  <2>1. library' \subseteq library
    BY DEF Create, SetImage, assetVars
  <2>2. Uploading' \subseteq Uploading
    BY DEF IInv, TypeOK, Uploading, Create, SetImage, Idle, Waiting, Editing, Wait, Answer
  <2> QED  BY <2>1, <2>2, BoundKept
<1>7. DraftsStayInside'
  BY DEF IInv, ConstantsOK, Create, SetImage, TypeOK, DraftsStayInside, StepsInFlight, InFlight, Snapshots, Published, Live, NewRow, Cards, NoCard, Idle, Waiting, Editing, Wait, Answer, rowVars, defaultVars, assetVars
<1>8. NewUnflagged'
  BY DEF IInv, ConstantsOK, Create, SetImage, TypeOK, NewUnflagged, StepsInFlight, InFlight, NewRow, Statuses, Idle, Waiting, Editing, Wait, Answer, rowVars, defaultVars, assetVars
<1>9. FlagAgrees'
  BY DEF IInv, ConstantsOK, Create, SetImage, TypeOK, FlagAgrees, NewUnflagged, Live, NewRow, DraftsStayInside, Idle, Waiting, Editing, Wait, Answer, rowVars, defaultVars, assetVars
<1> QED  BY <1>1, <1>2, <1>3, <1>4, <1>5, <1>6, <1>7, <1>8, <1>9 DEF IInv

\* A template is modified in place.
LEMMA UpdateKeeps ==
  ASSUME ConstantsOK, IInv, NEW a \in Admin, NEW t \in Template, Update(a, t)
  PROVE  IInv'
<1>1. TypeOK'
  BY DEF IInv, ConstantsOK, Update, SetImage, TypeOK, Requests, Cards, NoCard, Statuses, Snapshots, NewRow, Idle, Waiting, Editing, Wait, Answer, rowVars, defaultVars, assetVars
<1>2. LibraryBacked'
  BY DEF IInv, ConstantsOK, Update, SetImage, TypeOK, LibraryBacked, PendingUnknown, Known, StepsInFlight, InFlight, Idle, Waiting, Editing, Wait, Answer, rowVars, defaultVars, assetVars
<1>3. KnownDrawn'
  BY DEF IInv, ConstantsOK, Update, SetImage, TypeOK, KnownDrawn, Known, StepsInFlight, InFlight, NewRow, Idle, Waiting, Editing, Wait, Answer, rowVars, defaultVars, assetVars
<1>4. PendingUnknown'
  BY DEF IInv, ConstantsOK, Update, SetImage, TypeOK, KnownDrawn, Known, PendingUnknown, StepsInFlight, InFlight, NewRow, Idle, Waiting, Editing, Wait, Answer, rowVars, defaultVars, assetVars
<1>5. StepsInFlight'
  BY DEF IInv, ConstantsOK, Update, SetImage, TypeOK, KnownDrawn, Known, PendingUnknown, StepsInFlight, InFlight, NewRow, Snapshots, Live, Published, Statuses, Referenced, Transitions, Idle, Waiting, Editing, Wait, Answer, rowVars, defaultVars, assetVars
<1>6. LibraryBounded'
  <2>1. library' \subseteq library
    BY DEF Update, SetImage, assetVars
  <2>2. Uploading' \subseteq Uploading
    BY DEF IInv, TypeOK, Uploading, Update, SetImage, Idle, Waiting, Editing, Wait, Answer
  <2> QED  BY <2>1, <2>2, BoundKept
<1>7. DraftsStayInside'
  BY DEF IInv, ConstantsOK, Update, SetImage, TypeOK, DraftsStayInside, StepsInFlight, InFlight, Snapshots, Published, Live, NewRow, Cards, NoCard, Idle, Waiting, Editing, Wait, Answer, rowVars, defaultVars, assetVars
<1>8. NewUnflagged'
  BY DEF IInv, ConstantsOK, Update, SetImage, TypeOK, NewUnflagged, StepsInFlight, InFlight, NewRow, Statuses, Idle, Waiting, Editing, Wait, Answer, rowVars, defaultVars, assetVars
<1>9. FlagAgrees'
  BY DEF IInv, ConstantsOK, Update, SetImage, TypeOK, FlagAgrees, NewUnflagged, Live, NewRow, DraftsStayInside, Idle, Waiting, Editing, Wait, Answer, rowVars, defaultVars, assetVars
<1> QED  BY <1>1, <1>2, <1>3, <1>4, <1>5, <1>6, <1>7, <1>8, <1>9 DEF IInv

\* A transition is read.
LEMMA SetStatusKeeps ==
  ASSUME ConstantsOK, IInv, NEW a \in Admin, NEW t \in Template, NEW s \in Statuses, SetStatus(a, t, s)
  PROVE  IInv'
<1>1. TypeOK'
  BY DEF IInv, ConstantsOK, SetStatus, TypeOK, Requests, Cards, NoCard, Statuses, Snapshots, NewRow, Idle, Waiting, Editing, Wait, Answer, rowVars, defaultVars, assetVars
<1>2. LibraryBacked'
  BY DEF IInv, ConstantsOK, SetStatus, TypeOK, LibraryBacked, PendingUnknown, Known, StepsInFlight, InFlight, Idle, Waiting, Editing, Wait, Answer, rowVars, defaultVars, assetVars
<1>3. KnownDrawn'
  BY DEF IInv, ConstantsOK, SetStatus, TypeOK, KnownDrawn, Known, StepsInFlight, InFlight, NewRow, Idle, Waiting, Editing, Wait, Answer, rowVars, defaultVars, assetVars
<1>4. PendingUnknown'
  BY DEF IInv, ConstantsOK, SetStatus, TypeOK, KnownDrawn, Known, PendingUnknown, StepsInFlight, InFlight, NewRow, Idle, Waiting, Editing, Wait, Answer, rowVars, defaultVars, assetVars
<1>5. StepsInFlight'
  BY DEF IInv, ConstantsOK, SetStatus, TypeOK, KnownDrawn, Known, PendingUnknown, StepsInFlight, InFlight, NewRow, Snapshots, Live, Published, Statuses, Referenced, Transitions, Idle, Waiting, Editing, Wait, Answer, rowVars, defaultVars, assetVars
<1>6. LibraryBounded'
  <2>1. library' \subseteq library
    BY DEF SetStatus, assetVars
  <2>2. Uploading' \subseteq Uploading
    BY DEF IInv, TypeOK, Uploading, SetStatus, Idle, Waiting, Editing, Wait, Answer
  <2> QED  BY <2>1, <2>2, BoundKept
<1>7. DraftsStayInside'
  BY DEF IInv, ConstantsOK, SetStatus, TypeOK, DraftsStayInside, StepsInFlight, InFlight, Snapshots, Published, Live, NewRow, Cards, NoCard, Idle, Waiting, Editing, Wait, Answer, rowVars, defaultVars, assetVars
<1>8. NewUnflagged'
  BY DEF IInv, ConstantsOK, SetStatus, TypeOK, NewUnflagged, StepsInFlight, InFlight, NewRow, Statuses, Idle, Waiting, Editing, Wait, Answer, rowVars, defaultVars, assetVars
<1>9. FlagAgrees'
  BY DEF IInv, ConstantsOK, SetStatus, TypeOK, FlagAgrees, NewUnflagged, Live, NewRow, DraftsStayInside, Idle, Waiting, Editing, Wait, Answer, rowVars, defaultVars, assetVars
<1> QED  BY <1>1, <1>2, <1>3, <1>4, <1>5, <1>6, <1>7, <1>8, <1>9 DEF IInv

\* And written, over whatever the status has become.
LEMMA StatusWritesKeeps ==
  ASSUME ConstantsOK, IInv, NEW a \in Admin, StatusWrites(a)
  PROVE  IInv'
<1>a. request[a].template \in Template /\ request[a].status \in {"PUBLISHED", "ARCHIVED"}
  BY DEF IInv, TypeOK, StepsInFlight, InFlight, StatusWrites, Waiting, Idle, Requests, Statuses
<1>1. TypeOK'
  BY <1>a DEF IInv, ConstantsOK, StatusWrites, TypeOK, Requests, Cards, NoCard, Statuses, Snapshots, NewRow, Idle, Waiting, Editing, Wait, Answer, rowVars, defaultVars, assetVars
<1>2. LibraryBacked'
  BY <1>a DEF IInv, ConstantsOK, StatusWrites, TypeOK, LibraryBacked, PendingUnknown, Known, StepsInFlight, InFlight, Idle, Waiting, Editing, Wait, Answer, rowVars, defaultVars, assetVars
<1>3. KnownDrawn'
  BY <1>a DEF IInv, ConstantsOK, StatusWrites, TypeOK, KnownDrawn, Known, StepsInFlight, InFlight, NewRow, Idle, Waiting, Editing, Wait, Answer, rowVars, defaultVars, assetVars
<1>4. PendingUnknown'
  BY <1>a DEF IInv, ConstantsOK, StatusWrites, TypeOK, KnownDrawn, Known, PendingUnknown, StepsInFlight, InFlight, NewRow, Idle, Waiting, Editing, Wait, Answer, rowVars, defaultVars, assetVars
<1>5. StepsInFlight'
  BY <1>a DEF IInv, ConstantsOK, StatusWrites, TypeOK, KnownDrawn, Known, PendingUnknown, StepsInFlight, InFlight, NewRow, Snapshots, Live, Published, Statuses, Referenced, Transitions, Idle, Waiting, Editing, Wait, Answer, rowVars, defaultVars, assetVars
<1>6. LibraryBounded'
  <2>1. library' \subseteq library
    BY DEF StatusWrites, assetVars
  <2>2. Uploading' \subseteq Uploading
    BY DEF IInv, TypeOK, Uploading, StatusWrites, Idle, Waiting, Editing, Wait, Answer
  <2> QED  BY <2>1, <2>2, BoundKept
<1>7. DraftsStayInside'
  BY <1>a DEF IInv, ConstantsOK, StatusWrites, TypeOK, DraftsStayInside, StepsInFlight, InFlight, Snapshots, Published, Live, NewRow, Cards, NoCard, Idle, Waiting, Editing, Wait, Answer, rowVars, defaultVars, assetVars
<1>8. NewUnflagged'
  BY <1>a DEF IInv, ConstantsOK, StatusWrites, TypeOK, NewUnflagged, StepsInFlight, InFlight, NewRow, Statuses, Idle, Waiting, Editing, Wait, Answer, rowVars, defaultVars, assetVars
<1>9. FlagAgrees'
  BY <1>a DEF IInv, ConstantsOK, StatusWrites, TypeOK, FlagAgrees, NewUnflagged, Live, NewRow, DraftsStayInside, Idle, Waiting, Editing, Wait, Answer, rowVars, defaultVars, assetVars
<1> QED  BY <1>1, <1>2, <1>3, <1>4, <1>5, <1>6, <1>7, <1>8, <1>9 DEF IInv

\* The references of the image are counted.
LEMMA DeleteTemplateKeeps ==
  ASSUME ConstantsOK, IInv, NEW a \in Admin, NEW t \in Template, DeleteTemplate(a, t)
  PROVE  IInv'
<1>1. TypeOK'
  BY DEF IInv, ConstantsOK, DeleteTemplate, TypeOK, Requests, Cards, NoCard, Statuses, Snapshots, NewRow, Idle, Waiting, Editing, Wait, Answer, rowVars, defaultVars, assetVars
<1>2. LibraryBacked'
  BY DEF IInv, ConstantsOK, DeleteTemplate, TypeOK, LibraryBacked, PendingUnknown, Known, StepsInFlight, InFlight, Idle, Waiting, Editing, Wait, Answer, rowVars, defaultVars, assetVars
<1>3. KnownDrawn'
  BY DEF IInv, ConstantsOK, DeleteTemplate, TypeOK, KnownDrawn, Known, StepsInFlight, InFlight, NewRow, Idle, Waiting, Editing, Wait, Answer, rowVars, defaultVars, assetVars
<1>4. PendingUnknown'
  BY DEF IInv, ConstantsOK, DeleteTemplate, TypeOK, KnownDrawn, Known, PendingUnknown, StepsInFlight, InFlight, NewRow, Idle, Waiting, Editing, Wait, Answer, rowVars, defaultVars, assetVars
<1>5. StepsInFlight'
  BY DEF IInv, ConstantsOK, DeleteTemplate, TypeOK, KnownDrawn, Known, PendingUnknown, StepsInFlight, InFlight, NewRow, Snapshots, Live, Published, Statuses, Referenced, Transitions, Idle, Waiting, Editing, Wait, Answer, rowVars, defaultVars, assetVars
<1>6. LibraryBounded'
  <2>1. library' \subseteq library
    BY DEF DeleteTemplate, assetVars
  <2>2. Uploading' \subseteq Uploading
    BY DEF IInv, TypeOK, Uploading, DeleteTemplate, Idle, Waiting, Editing, Wait, Answer
  <2> QED  BY <2>1, <2>2, BoundKept
<1>7. DraftsStayInside'
  BY DEF IInv, ConstantsOK, DeleteTemplate, TypeOK, DraftsStayInside, StepsInFlight, InFlight, Snapshots, Published, Live, NewRow, Cards, NoCard, Idle, Waiting, Editing, Wait, Answer, rowVars, defaultVars, assetVars
<1>8. NewUnflagged'
  BY DEF IInv, ConstantsOK, DeleteTemplate, TypeOK, NewUnflagged, StepsInFlight, InFlight, NewRow, Statuses, Idle, Waiting, Editing, Wait, Answer, rowVars, defaultVars, assetVars
<1>9. FlagAgrees'
  BY DEF IInv, ConstantsOK, DeleteTemplate, TypeOK, FlagAgrees, NewUnflagged, Live, NewRow, DraftsStayInside, Idle, Waiting, Editing, Wait, Answer, rowVars, defaultVars, assetVars
<1> QED  BY <1>1, <1>2, <1>3, <1>4, <1>5, <1>6, <1>7, <1>8, <1>9 DEF IInv

\* The template goes, and the default with it.
LEMMA DeleteWritesKeeps ==
  ASSUME ConstantsOK, IInv, NEW a \in Admin, DeleteWrites(a)
  PROVE  IInv'
<1>1. TypeOK'
  BY DEF IInv, ConstantsOK, DeleteWrites, TypeOK, Requests, Cards, NoCard, Statuses, Snapshots, NewRow, Idle, Waiting, Editing, Wait, Answer, rowVars, defaultVars, assetVars
<1>2. LibraryBacked'
  BY DEF IInv, ConstantsOK, DeleteWrites, TypeOK, LibraryBacked, PendingUnknown, Known, StepsInFlight, InFlight, Idle, Waiting, Editing, Wait, Answer, rowVars, defaultVars, assetVars
<1>3. KnownDrawn'
  BY DEF IInv, ConstantsOK, DeleteWrites, TypeOK, KnownDrawn, Known, StepsInFlight, InFlight, NewRow, Idle, Waiting, Editing, Wait, Answer, rowVars, defaultVars, assetVars
<1>4. PendingUnknown'
  BY DEF IInv, ConstantsOK, DeleteWrites, TypeOK, KnownDrawn, Known, PendingUnknown, StepsInFlight, InFlight, NewRow, Idle, Waiting, Editing, Wait, Answer, rowVars, defaultVars, assetVars
<1>5. StepsInFlight'
  BY DEF IInv, ConstantsOK, DeleteWrites, TypeOK, KnownDrawn, Known, PendingUnknown, StepsInFlight, InFlight, NewRow, Snapshots, Live, Published, Statuses, Referenced, Transitions, Idle, Waiting, Editing, Wait, Answer, rowVars, defaultVars, assetVars
<1>6. LibraryBounded'
  <2>1. library' \subseteq library
    BY DEF DeleteWrites, assetVars
  <2>2. Uploading' \subseteq Uploading
    BY DEF IInv, TypeOK, Uploading, DeleteWrites, Idle, Waiting, Editing, Wait, Answer
  <2> QED  BY <2>1, <2>2, BoundKept
<1>7. DraftsStayInside'
  BY DEF IInv, ConstantsOK, DeleteWrites, TypeOK, DraftsStayInside, StepsInFlight, InFlight, Snapshots, Published, Live, NewRow, Cards, NoCard, Idle, Waiting, Editing, Wait, Answer, rowVars, defaultVars, assetVars
<1>8. NewUnflagged'
  BY DEF IInv, ConstantsOK, DeleteWrites, TypeOK, NewUnflagged, StepsInFlight, InFlight, NewRow, Statuses, Idle, Waiting, Editing, Wait, Answer, rowVars, defaultVars, assetVars
<1>9. FlagAgrees'
  BY DEF IInv, ConstantsOK, DeleteWrites, TypeOK, FlagAgrees, NewUnflagged, Live, NewRow, DraftsStayInside, Idle, Waiting, Editing, Wait, Answer, rowVars, defaultVars, assetVars
<1> QED  BY <1>1, <1>2, <1>3, <1>4, <1>5, <1>6, <1>7, <1>8, <1>9 DEF IInv

\* A template is read.
LEMMA DuplicateKeeps ==
  ASSUME ConstantsOK, IInv, NEW a \in Admin, NEW t \in Template, Duplicate(a, t)
  PROVE  IInv'
<1>1. TypeOK'
  BY DEF IInv, ConstantsOK, Duplicate, TypeOK, Requests, Cards, NoCard, Statuses, Snapshots, NewRow, Idle, Waiting, Editing, Wait, Answer, rowVars, defaultVars, assetVars
<1>2. LibraryBacked'
  BY DEF IInv, ConstantsOK, Duplicate, TypeOK, LibraryBacked, PendingUnknown, Known, StepsInFlight, InFlight, Idle, Waiting, Editing, Wait, Answer, rowVars, defaultVars, assetVars
<1>3. KnownDrawn'
  BY DEF IInv, ConstantsOK, Duplicate, TypeOK, KnownDrawn, Known, StepsInFlight, InFlight, NewRow, Idle, Waiting, Editing, Wait, Answer, rowVars, defaultVars, assetVars
<1>4. PendingUnknown'
  BY DEF IInv, ConstantsOK, Duplicate, TypeOK, KnownDrawn, Known, PendingUnknown, StepsInFlight, InFlight, NewRow, Idle, Waiting, Editing, Wait, Answer, rowVars, defaultVars, assetVars
<1>5. StepsInFlight'
  BY DEF IInv, ConstantsOK, Duplicate, TypeOK, KnownDrawn, Known, PendingUnknown, StepsInFlight, InFlight, NewRow, Snapshots, Live, Published, Statuses, Referenced, Transitions, Idle, Waiting, Editing, Wait, Answer, rowVars, defaultVars, assetVars
<1>6. LibraryBounded'
  <2>1. library' \subseteq library
    BY DEF Duplicate, assetVars
  <2>2. Uploading' \subseteq Uploading
    BY DEF IInv, TypeOK, Uploading, Duplicate, Idle, Waiting, Editing, Wait, Answer
  <2> QED  BY <2>1, <2>2, BoundKept
<1>7. DraftsStayInside'
  BY DEF IInv, ConstantsOK, Duplicate, TypeOK, DraftsStayInside, StepsInFlight, InFlight, Snapshots, Published, Live, NewRow, Cards, NoCard, Idle, Waiting, Editing, Wait, Answer, rowVars, defaultVars, assetVars
<1>8. NewUnflagged'
  BY DEF IInv, ConstantsOK, Duplicate, TypeOK, NewUnflagged, StepsInFlight, InFlight, NewRow, Statuses, Idle, Waiting, Editing, Wait, Answer, rowVars, defaultVars, assetVars
<1>9. FlagAgrees'
  BY DEF IInv, ConstantsOK, Duplicate, TypeOK, FlagAgrees, NewUnflagged, Live, NewRow, DraftsStayInside, Idle, Waiting, Editing, Wait, Answer, rowVars, defaultVars, assetVars
<1> QED  BY <1>1, <1>2, <1>3, <1>4, <1>5, <1>6, <1>7, <1>8, <1>9 DEF IInv

\* And its copy written, as a draft.
LEMMA DuplicateWritesKeeps ==
  ASSUME ConstantsOK, IInv, NEW a \in Admin, NEW t \in Template, DuplicateWrites(a, t)
  PROVE  IInv'
<1>1. TypeOK'
  BY DEF IInv, ConstantsOK, DuplicateWrites, SetImage, TypeOK, Requests, Cards, NoCard, Statuses, Snapshots, NewRow, Idle, Waiting, Editing, Wait, Answer, rowVars, defaultVars, assetVars
<1>2. LibraryBacked'
  BY DEF IInv, ConstantsOK, DuplicateWrites, SetImage, TypeOK, LibraryBacked, PendingUnknown, Known, StepsInFlight, InFlight, Idle, Waiting, Editing, Wait, Answer, rowVars, defaultVars, assetVars
<1>3. KnownDrawn'
  BY DEF IInv, ConstantsOK, DuplicateWrites, SetImage, TypeOK, KnownDrawn, Known, StepsInFlight, InFlight, NewRow, Idle, Waiting, Editing, Wait, Answer, rowVars, defaultVars, assetVars
<1>4. PendingUnknown'
  BY DEF IInv, ConstantsOK, DuplicateWrites, SetImage, TypeOK, KnownDrawn, Known, PendingUnknown, StepsInFlight, InFlight, NewRow, Idle, Waiting, Editing, Wait, Answer, rowVars, defaultVars, assetVars
<1>5. StepsInFlight'
  BY DEF IInv, ConstantsOK, DuplicateWrites, SetImage, TypeOK, KnownDrawn, Known, PendingUnknown, StepsInFlight, InFlight, NewRow, Snapshots, Live, Published, Statuses, Referenced, Transitions, Idle, Waiting, Editing, Wait, Answer, rowVars, defaultVars, assetVars
<1>6. LibraryBounded'
  <2>1. library' \subseteq library
    BY DEF DuplicateWrites, SetImage, assetVars
  <2>2. Uploading' \subseteq Uploading
    BY DEF IInv, TypeOK, Uploading, DuplicateWrites, SetImage, Idle, Waiting, Editing, Wait, Answer
  <2> QED  BY <2>1, <2>2, BoundKept
<1>7. DraftsStayInside'
  BY DEF IInv, ConstantsOK, DuplicateWrites, SetImage, TypeOK, DraftsStayInside, StepsInFlight, InFlight, Snapshots, Published, Live, NewRow, Cards, NoCard, Idle, Waiting, Editing, Wait, Answer, rowVars, defaultVars, assetVars
<1>8. NewUnflagged'
  BY DEF IInv, ConstantsOK, DuplicateWrites, SetImage, TypeOK, NewUnflagged, StepsInFlight, InFlight, NewRow, Statuses, Idle, Waiting, Editing, Wait, Answer, rowVars, defaultVars, assetVars
<1>9. FlagAgrees'
  BY DEF IInv, ConstantsOK, DuplicateWrites, SetImage, TypeOK, FlagAgrees, NewUnflagged, Live, NewRow, DraftsStayInside, Idle, Waiting, Editing, Wait, Answer, rowVars, defaultVars, assetVars
<1> QED  BY <1>1, <1>2, <1>3, <1>4, <1>5, <1>6, <1>7, <1>8, <1>9 DEF IInv

\* A published template is read.
LEMMA SetDefaultKeeps ==
  ASSUME ConstantsOK, IInv, NEW a \in Admin, NEW t \in Template, SetDefault(a, t)
  PROVE  IInv'
<1>1. TypeOK'
  BY DEF IInv, ConstantsOK, SetDefault, TypeOK, Requests, Cards, NoCard, Statuses, Snapshots, NewRow, Idle, Waiting, Editing, Wait, Answer, rowVars, defaultVars, assetVars
<1>2. LibraryBacked'
  BY DEF IInv, ConstantsOK, SetDefault, TypeOK, LibraryBacked, PendingUnknown, Known, StepsInFlight, InFlight, Idle, Waiting, Editing, Wait, Answer, rowVars, defaultVars, assetVars
<1>3. KnownDrawn'
  BY DEF IInv, ConstantsOK, SetDefault, TypeOK, KnownDrawn, Known, StepsInFlight, InFlight, NewRow, Idle, Waiting, Editing, Wait, Answer, rowVars, defaultVars, assetVars
<1>4. PendingUnknown'
  BY DEF IInv, ConstantsOK, SetDefault, TypeOK, KnownDrawn, Known, PendingUnknown, StepsInFlight, InFlight, NewRow, Idle, Waiting, Editing, Wait, Answer, rowVars, defaultVars, assetVars
<1>5. StepsInFlight'
  BY DEF IInv, ConstantsOK, SetDefault, TypeOK, KnownDrawn, Known, PendingUnknown, StepsInFlight, InFlight, NewRow, Snapshots, Live, Published, Statuses, Referenced, Transitions, Idle, Waiting, Editing, Wait, Answer, rowVars, defaultVars, assetVars
<1>6. LibraryBounded'
  <2>1. library' \subseteq library
    BY DEF SetDefault, assetVars
  <2>2. Uploading' \subseteq Uploading
    BY DEF IInv, TypeOK, Uploading, SetDefault, Idle, Waiting, Editing, Wait, Answer
  <2> QED  BY <2>1, <2>2, BoundKept
<1>7. DraftsStayInside'
  BY DEF IInv, ConstantsOK, SetDefault, TypeOK, DraftsStayInside, StepsInFlight, InFlight, Snapshots, Published, Live, NewRow, Cards, NoCard, Idle, Waiting, Editing, Wait, Answer, rowVars, defaultVars, assetVars
<1>8. NewUnflagged'
  BY DEF IInv, ConstantsOK, SetDefault, TypeOK, NewUnflagged, StepsInFlight, InFlight, NewRow, Statuses, Idle, Waiting, Editing, Wait, Answer, rowVars, defaultVars, assetVars
<1>9. FlagAgrees'
  BY DEF IInv, ConstantsOK, SetDefault, TypeOK, FlagAgrees, NewUnflagged, Live, NewRow, DraftsStayInside, Idle, Waiting, Editing, Wait, Answer, rowVars, defaultVars, assetVars
<1> QED  BY <1>1, <1>2, <1>3, <1>4, <1>5, <1>6, <1>7, <1>8, <1>9 DEF IInv

\* And made the default, whatever has become of it.
LEMMA DefaultWritesKeeps ==
  ASSUME ConstantsOK, IInv, NEW a \in Admin, DefaultWrites(a)
  PROVE  IInv'
<1>1. TypeOK'
  BY DEF IInv, ConstantsOK, DefaultWrites, TypeOK, Requests, Cards, NoCard, Statuses, Snapshots, NewRow, Idle, Waiting, Editing, Wait, Answer, rowVars, defaultVars, assetVars
<1>2. LibraryBacked'
  BY DEF IInv, ConstantsOK, DefaultWrites, TypeOK, LibraryBacked, PendingUnknown, Known, StepsInFlight, InFlight, Idle, Waiting, Editing, Wait, Answer, rowVars, defaultVars, assetVars
<1>3. KnownDrawn'
  BY DEF IInv, ConstantsOK, DefaultWrites, TypeOK, KnownDrawn, Known, StepsInFlight, InFlight, NewRow, Idle, Waiting, Editing, Wait, Answer, rowVars, defaultVars, assetVars
<1>4. PendingUnknown'
  BY DEF IInv, ConstantsOK, DefaultWrites, TypeOK, KnownDrawn, Known, PendingUnknown, StepsInFlight, InFlight, NewRow, Idle, Waiting, Editing, Wait, Answer, rowVars, defaultVars, assetVars
<1>5. StepsInFlight'
  BY DEF IInv, ConstantsOK, DefaultWrites, TypeOK, KnownDrawn, Known, PendingUnknown, StepsInFlight, InFlight, NewRow, Snapshots, Live, Published, Statuses, Referenced, Transitions, Idle, Waiting, Editing, Wait, Answer, rowVars, defaultVars, assetVars
<1>6. LibraryBounded'
  <2>1. library' \subseteq library
    BY DEF DefaultWrites, assetVars
  <2>2. Uploading' \subseteq Uploading
    BY DEF IInv, TypeOK, Uploading, DefaultWrites, Idle, Waiting, Editing, Wait, Answer
  <2> QED  BY <2>1, <2>2, BoundKept
<1>7. DraftsStayInside'
  BY DEF IInv, ConstantsOK, DefaultWrites, TypeOK, DraftsStayInside, StepsInFlight, InFlight, Snapshots, Published, Live, NewRow, Cards, NoCard, Idle, Waiting, Editing, Wait, Answer, rowVars, defaultVars, assetVars
<1>8. NewUnflagged'
  BY DEF IInv, ConstantsOK, DefaultWrites, TypeOK, NewUnflagged, StepsInFlight, InFlight, NewRow, Statuses, Idle, Waiting, Editing, Wait, Answer, rowVars, defaultVars, assetVars
<1>9. FlagAgrees'
  BY DEF IInv, ConstantsOK, DefaultWrites, TypeOK, FlagAgrees, NewUnflagged, Live, NewRow, DraftsStayInside, Idle, Waiting, Editing, Wait, Answer, rowVars, defaultVars, assetVars
<1> QED  BY <1>1, <1>2, <1>3, <1>4, <1>5, <1>6, <1>7, <1>8, <1>9 DEF IInv

\* No template is the default.
LEMMA ClearDefaultKeeps ==
  ASSUME ConstantsOK, IInv, NEW a \in Admin, ClearDefault(a)
  PROVE  IInv'
<1>1. TypeOK'
  BY DEF IInv, ConstantsOK, ClearDefault, TypeOK, Requests, Cards, NoCard, Statuses, Snapshots, NewRow, Idle, Waiting, Editing, Wait, Answer, rowVars, defaultVars, assetVars
<1>2. LibraryBacked'
  BY DEF IInv, ConstantsOK, ClearDefault, TypeOK, LibraryBacked, PendingUnknown, Known, StepsInFlight, InFlight, Idle, Waiting, Editing, Wait, Answer, rowVars, defaultVars, assetVars
<1>3. KnownDrawn'
  BY DEF IInv, ConstantsOK, ClearDefault, TypeOK, KnownDrawn, Known, StepsInFlight, InFlight, NewRow, Idle, Waiting, Editing, Wait, Answer, rowVars, defaultVars, assetVars
<1>4. PendingUnknown'
  BY DEF IInv, ConstantsOK, ClearDefault, TypeOK, KnownDrawn, Known, PendingUnknown, StepsInFlight, InFlight, NewRow, Idle, Waiting, Editing, Wait, Answer, rowVars, defaultVars, assetVars
<1>5. StepsInFlight'
  BY DEF IInv, ConstantsOK, ClearDefault, TypeOK, KnownDrawn, Known, PendingUnknown, StepsInFlight, InFlight, NewRow, Snapshots, Live, Published, Statuses, Referenced, Transitions, Idle, Waiting, Editing, Wait, Answer, rowVars, defaultVars, assetVars
<1>6. LibraryBounded'
  <2>1. library' \subseteq library
    BY DEF ClearDefault, assetVars
  <2>2. Uploading' \subseteq Uploading
    BY DEF IInv, TypeOK, Uploading, ClearDefault, Idle, Waiting, Editing, Wait, Answer
  <2> QED  BY <2>1, <2>2, BoundKept
<1>7. DraftsStayInside'
  BY DEF IInv, ConstantsOK, ClearDefault, TypeOK, DraftsStayInside, StepsInFlight, InFlight, Snapshots, Published, Live, NewRow, Cards, NoCard, Idle, Waiting, Editing, Wait, Answer, rowVars, defaultVars, assetVars
<1>8. NewUnflagged'
  BY DEF IInv, ConstantsOK, ClearDefault, TypeOK, NewUnflagged, StepsInFlight, InFlight, NewRow, Statuses, Idle, Waiting, Editing, Wait, Answer, rowVars, defaultVars, assetVars
<1>9. FlagAgrees'
  BY DEF IInv, ConstantsOK, ClearDefault, TypeOK, FlagAgrees, NewUnflagged, Live, NewRow, DraftsStayInside, Idle, Waiting, Editing, Wait, Answer, rowVars, defaultVars, assetVars
<1> QED  BY <1>1, <1>2, <1>3, <1>4, <1>5, <1>6, <1>7, <1>8, <1>9 DEF IInv

\* A template is frozen for a new pass.
LEMMA IssuePassKeeps ==
  ASSUME ConstantsOK, IInv, NEW a \in Admin, IssuePass(a)
  PROVE  IInv'
<1>a. \A s \in Snapshots : s.template \in Template => status[s.template] = "PUBLISHED"
  BY DEF Snapshots, NoCard, Published, ConstantsOK
<1>b. PICK s \in Snapshots : request' = [request EXCEPT ![a] = [op |-> "ISSUE", snapshot |-> s]]
  BY DEF IssuePass, Wait
<1>1. TypeOK'
  BY DEF IInv, ConstantsOK, IssuePass, TypeOK, Requests, Cards, NoCard, Statuses, Snapshots, NewRow, Idle, Waiting, Editing, Wait, Answer, rowVars, defaultVars, assetVars
<1>2. LibraryBacked'
  BY DEF IInv, ConstantsOK, IssuePass, TypeOK, LibraryBacked, PendingUnknown, Known, StepsInFlight, InFlight, Idle, Waiting, Editing, Wait, Answer, rowVars, defaultVars, assetVars
<1>3. KnownDrawn'
  BY DEF IInv, ConstantsOK, IssuePass, TypeOK, KnownDrawn, Known, StepsInFlight, InFlight, NewRow, Idle, Waiting, Editing, Wait, Answer, rowVars, defaultVars, assetVars
<1>4. PendingUnknown'
  BY DEF IInv, ConstantsOK, IssuePass, TypeOK, KnownDrawn, Known, PendingUnknown, StepsInFlight, InFlight, NewRow, Idle, Waiting, Editing, Wait, Answer, rowVars, defaultVars, assetVars
<1>5. StepsInFlight'
  BY <1>a, <1>b DEF IInv, ConstantsOK, IssuePass, TypeOK, StepsInFlight, InFlight, Idle, rowVars, defaultVars, assetVars
<1>6. LibraryBounded'
  <2>1. library' \subseteq library
    BY DEF IssuePass, assetVars
  <2>2. Uploading' \subseteq Uploading
    BY DEF IInv, TypeOK, Uploading, IssuePass, Idle, Waiting, Editing, Wait, Answer
  <2> QED  BY <2>1, <2>2, BoundKept
<1>7. DraftsStayInside'
  BY DEF IInv, ConstantsOK, IssuePass, TypeOK, DraftsStayInside, StepsInFlight, InFlight, Snapshots, Published, Live, NewRow, Cards, NoCard, Idle, Waiting, Editing, Wait, Answer, rowVars, defaultVars, assetVars
<1>8. NewUnflagged'
  BY DEF IInv, ConstantsOK, IssuePass, TypeOK, NewUnflagged, StepsInFlight, InFlight, NewRow, Statuses, Idle, Waiting, Editing, Wait, Answer, rowVars, defaultVars, assetVars
<1>9. FlagAgrees'
  BY DEF IInv, ConstantsOK, IssuePass, TypeOK, FlagAgrees, NewUnflagged, Live, NewRow, DraftsStayInside, Idle, Waiting, Editing, Wait, Answer, rowVars, defaultVars, assetVars
<1> QED  BY <1>1, <1>2, <1>3, <1>4, <1>5, <1>6, <1>7, <1>8, <1>9 DEF IInv

\* The pass is stored with it.
LEMMA PassWritesKeeps ==
  ASSUME ConstantsOK, IInv, NEW a \in Admin, NEW c \in Card, PassWrites(a, c)
  PROVE  IInv'
<1>1. TypeOK'
  BY DEF IInv, ConstantsOK, PassWrites, TypeOK, Requests, Cards, NoCard, Statuses, Snapshots, NewRow, Idle, Waiting, Editing, Wait, Answer, rowVars, defaultVars, assetVars
<1>2. LibraryBacked'
  BY DEF IInv, ConstantsOK, PassWrites, TypeOK, LibraryBacked, PendingUnknown, Known, StepsInFlight, InFlight, Idle, Waiting, Editing, Wait, Answer, rowVars, defaultVars, assetVars
<1>3. KnownDrawn'
  BY DEF IInv, ConstantsOK, PassWrites, TypeOK, KnownDrawn, Known, StepsInFlight, InFlight, NewRow, Idle, Waiting, Editing, Wait, Answer, rowVars, defaultVars, assetVars
<1>4. PendingUnknown'
  BY DEF IInv, ConstantsOK, PassWrites, TypeOK, KnownDrawn, Known, PendingUnknown, StepsInFlight, InFlight, NewRow, Idle, Waiting, Editing, Wait, Answer, rowVars, defaultVars, assetVars
<1>5. StepsInFlight'
  BY DEF IInv, ConstantsOK, PassWrites, TypeOK, KnownDrawn, Known, PendingUnknown, StepsInFlight, InFlight, NewRow, Snapshots, Live, Published, Statuses, Referenced, Transitions, Idle, Waiting, Editing, Wait, Answer, rowVars, defaultVars, assetVars
<1>6. LibraryBounded'
  <2>1. library' \subseteq library
    BY DEF PassWrites, assetVars
  <2>2. Uploading' \subseteq Uploading
    BY DEF IInv, TypeOK, Uploading, PassWrites, Idle, Waiting, Editing, Wait, Answer
  <2> QED  BY <2>1, <2>2, BoundKept
<1>7. DraftsStayInside'
  BY DEF IInv, ConstantsOK, PassWrites, TypeOK, DraftsStayInside, StepsInFlight, InFlight, Snapshots, Published, Live, NewRow, Cards, NoCard, Idle, Waiting, Editing, Wait, Answer, rowVars, defaultVars, assetVars
<1>8. NewUnflagged'
  BY DEF IInv, ConstantsOK, PassWrites, TypeOK, NewUnflagged, StepsInFlight, InFlight, NewRow, Statuses, Idle, Waiting, Editing, Wait, Answer, rowVars, defaultVars, assetVars
<1>9. FlagAgrees'
  BY DEF IInv, ConstantsOK, PassWrites, TypeOK, FlagAgrees, NewUnflagged, Live, NewRow, DraftsStayInside, Idle, Waiting, Editing, Wait, Answer, rowVars, defaultVars, assetVars
<1> QED  BY <1>1, <1>2, <1>3, <1>4, <1>5, <1>6, <1>7, <1>8, <1>9 DEF IInv

\* A template is frozen for a pass already there.
LEMMA RedrawCardKeeps ==
  ASSUME ConstantsOK, IInv, NEW a \in Admin, NEW c \in Card, RedrawCard(a, c)
  PROVE  IInv'
<1>a. \A s \in Snapshots : s.template \in Template => status[s.template] = "PUBLISHED"
  BY DEF Snapshots, NoCard, Published, ConstantsOK
<1>b. PICK s \in Snapshots : request' = [request EXCEPT ![a] = [op |-> "REDRAW", card |-> c, snapshot |-> s]]
  BY DEF RedrawCard, Wait
<1>1. TypeOK'
  BY DEF IInv, ConstantsOK, RedrawCard, TypeOK, Requests, Cards, NoCard, Statuses, Snapshots, NewRow, Idle, Waiting, Editing, Wait, Answer, rowVars, defaultVars, assetVars
<1>2. LibraryBacked'
  BY DEF IInv, ConstantsOK, RedrawCard, TypeOK, LibraryBacked, PendingUnknown, Known, StepsInFlight, InFlight, Idle, Waiting, Editing, Wait, Answer, rowVars, defaultVars, assetVars
<1>3. KnownDrawn'
  BY DEF IInv, ConstantsOK, RedrawCard, TypeOK, KnownDrawn, Known, StepsInFlight, InFlight, NewRow, Idle, Waiting, Editing, Wait, Answer, rowVars, defaultVars, assetVars
<1>4. PendingUnknown'
  BY DEF IInv, ConstantsOK, RedrawCard, TypeOK, KnownDrawn, Known, PendingUnknown, StepsInFlight, InFlight, NewRow, Idle, Waiting, Editing, Wait, Answer, rowVars, defaultVars, assetVars
<1>5. StepsInFlight'
  BY <1>a, <1>b DEF IInv, ConstantsOK, RedrawCard, TypeOK, StepsInFlight, InFlight, Idle, rowVars, defaultVars, assetVars
<1>6. LibraryBounded'
  <2>1. library' \subseteq library
    BY DEF RedrawCard, assetVars
  <2>2. Uploading' \subseteq Uploading
    BY DEF IInv, TypeOK, Uploading, RedrawCard, Idle, Waiting, Editing, Wait, Answer
  <2> QED  BY <2>1, <2>2, BoundKept
<1>7. DraftsStayInside'
  BY DEF IInv, ConstantsOK, RedrawCard, TypeOK, DraftsStayInside, StepsInFlight, InFlight, Snapshots, Published, Live, NewRow, Cards, NoCard, Idle, Waiting, Editing, Wait, Answer, rowVars, defaultVars, assetVars
<1>8. NewUnflagged'
  BY DEF IInv, ConstantsOK, RedrawCard, TypeOK, NewUnflagged, StepsInFlight, InFlight, NewRow, Statuses, Idle, Waiting, Editing, Wait, Answer, rowVars, defaultVars, assetVars
<1>9. FlagAgrees'
  BY DEF IInv, ConstantsOK, RedrawCard, TypeOK, FlagAgrees, NewUnflagged, Live, NewRow, DraftsStayInside, Idle, Waiting, Editing, Wait, Answer, rowVars, defaultVars, assetVars
<1> QED  BY <1>1, <1>2, <1>3, <1>4, <1>5, <1>6, <1>7, <1>8, <1>9 DEF IInv

\* And replaces what its card shows.
LEMMA RedrawWritesKeeps ==
  ASSUME ConstantsOK, IInv, NEW a \in Admin, RedrawWrites(a)
  PROVE  IInv'
<1>1. TypeOK'
  BY DEF IInv, ConstantsOK, RedrawWrites, TypeOK, Requests, Cards, NoCard, Statuses, Snapshots, NewRow, Idle, Waiting, Editing, Wait, Answer, rowVars, defaultVars, assetVars
<1>2. LibraryBacked'
  BY DEF IInv, ConstantsOK, RedrawWrites, TypeOK, LibraryBacked, PendingUnknown, Known, StepsInFlight, InFlight, Idle, Waiting, Editing, Wait, Answer, rowVars, defaultVars, assetVars
<1>3. KnownDrawn'
  BY DEF IInv, ConstantsOK, RedrawWrites, TypeOK, KnownDrawn, Known, StepsInFlight, InFlight, NewRow, Idle, Waiting, Editing, Wait, Answer, rowVars, defaultVars, assetVars
<1>4. PendingUnknown'
  BY DEF IInv, ConstantsOK, RedrawWrites, TypeOK, KnownDrawn, Known, PendingUnknown, StepsInFlight, InFlight, NewRow, Idle, Waiting, Editing, Wait, Answer, rowVars, defaultVars, assetVars
<1>5. StepsInFlight'
  BY DEF IInv, ConstantsOK, RedrawWrites, TypeOK, KnownDrawn, Known, PendingUnknown, StepsInFlight, InFlight, NewRow, Snapshots, Live, Published, Statuses, Referenced, Transitions, Idle, Waiting, Editing, Wait, Answer, rowVars, defaultVars, assetVars
<1>6. LibraryBounded'
  <2>1. library' \subseteq library
    BY DEF RedrawWrites, assetVars
  <2>2. Uploading' \subseteq Uploading
    BY DEF IInv, TypeOK, Uploading, RedrawWrites, Idle, Waiting, Editing, Wait, Answer
  <2> QED  BY <2>1, <2>2, BoundKept
<1>7. DraftsStayInside'
  BY DEF IInv, ConstantsOK, RedrawWrites, TypeOK, DraftsStayInside, StepsInFlight, InFlight, Snapshots, Published, Live, NewRow, Cards, NoCard, Idle, Waiting, Editing, Wait, Answer, rowVars, defaultVars, assetVars
<1>8. NewUnflagged'
  BY DEF IInv, ConstantsOK, RedrawWrites, TypeOK, NewUnflagged, StepsInFlight, InFlight, NewRow, Statuses, Idle, Waiting, Editing, Wait, Answer, rowVars, defaultVars, assetVars
<1>9. FlagAgrees'
  BY DEF IInv, ConstantsOK, RedrawWrites, TypeOK, FlagAgrees, NewUnflagged, Live, NewRow, DraftsStayInside, Idle, Waiting, Editing, Wait, Answer, rowVars, defaultVars, assetVars
<1> QED  BY <1>1, <1>2, <1>3, <1>4, <1>5, <1>6, <1>7, <1>8, <1>9 DEF IInv

\* A registration freezes the template of its offer.
LEMMA SubmitKeeps ==
  ASSUME ConstantsOK, IInv, NEW c \in Card, Submit(c)
  PROVE  IInv'
<1>1. TypeOK'
  BY DEF IInv, ConstantsOK, Submit, TypeOK, Requests, Cards, NoCard, Statuses, Snapshots, NewRow, Idle, Waiting, Editing, Wait, Answer, rowVars, defaultVars, assetVars
<1>2. LibraryBacked'
  BY DEF IInv, ConstantsOK, Submit, TypeOK, LibraryBacked, PendingUnknown, Known, StepsInFlight, InFlight, Idle, Waiting, Editing, Wait, Answer, rowVars, defaultVars, assetVars
<1>3. KnownDrawn'
  BY DEF IInv, ConstantsOK, Submit, TypeOK, KnownDrawn, Known, StepsInFlight, InFlight, NewRow, Idle, Waiting, Editing, Wait, Answer, rowVars, defaultVars, assetVars
<1>4. PendingUnknown'
  BY DEF IInv, ConstantsOK, Submit, TypeOK, KnownDrawn, Known, PendingUnknown, StepsInFlight, InFlight, NewRow, Idle, Waiting, Editing, Wait, Answer, rowVars, defaultVars, assetVars
<1>5. StepsInFlight'
  BY DEF IInv, ConstantsOK, Submit, TypeOK, KnownDrawn, Known, PendingUnknown, StepsInFlight, InFlight, NewRow, Snapshots, Live, Published, Statuses, Referenced, Transitions, Idle, Waiting, Editing, Wait, Answer, rowVars, defaultVars, assetVars
<1>6. LibraryBounded'
  <2>1. library' \subseteq library
    BY DEF Submit, assetVars
  <2>2. Uploading' \subseteq Uploading
    BY DEF IInv, TypeOK, Uploading, Submit, Idle, Waiting, Editing, Wait, Answer
  <2> QED  BY <2>1, <2>2, BoundKept
<1>7. DraftsStayInside'
  BY DEF IInv, ConstantsOK, Submit, TypeOK, DraftsStayInside, StepsInFlight, InFlight, Snapshots, Published, Live, NewRow, Cards, NoCard, Idle, Waiting, Editing, Wait, Answer, rowVars, defaultVars, assetVars
<1>8. NewUnflagged'
  BY DEF IInv, ConstantsOK, Submit, TypeOK, NewUnflagged, StepsInFlight, InFlight, NewRow, Statuses, Idle, Waiting, Editing, Wait, Answer, rowVars, defaultVars, assetVars
<1>9. FlagAgrees'
  BY DEF IInv, ConstantsOK, Submit, TypeOK, FlagAgrees, NewUnflagged, Live, NewRow, DraftsStayInside, Idle, Waiting, Editing, Wait, Answer, rowVars, defaultVars, assetVars
<1> QED  BY <1>1, <1>2, <1>3, <1>4, <1>5, <1>6, <1>7, <1>8, <1>9 DEF IInv

\* Its pass is issued.
LEMMA IssueHeldKeeps ==
  ASSUME ConstantsOK, IInv, NEW c \in Card, IssueHeld(c)
  PROVE  IInv'
<1>1. TypeOK'
  BY DEF IInv, ConstantsOK, IssueHeld, TypeOK, Requests, Cards, NoCard, Statuses, Snapshots, NewRow, Idle, Waiting, Editing, Wait, Answer, rowVars, defaultVars, assetVars
<1>2. LibraryBacked'
  BY DEF IInv, ConstantsOK, IssueHeld, TypeOK, LibraryBacked, PendingUnknown, Known, StepsInFlight, InFlight, Idle, Waiting, Editing, Wait, Answer, rowVars, defaultVars, assetVars
<1>3. KnownDrawn'
  BY DEF IInv, ConstantsOK, IssueHeld, TypeOK, KnownDrawn, Known, StepsInFlight, InFlight, NewRow, Idle, Waiting, Editing, Wait, Answer, rowVars, defaultVars, assetVars
<1>4. PendingUnknown'
  BY DEF IInv, ConstantsOK, IssueHeld, TypeOK, KnownDrawn, Known, PendingUnknown, StepsInFlight, InFlight, NewRow, Idle, Waiting, Editing, Wait, Answer, rowVars, defaultVars, assetVars
<1>5. StepsInFlight'
  BY DEF IInv, ConstantsOK, IssueHeld, TypeOK, KnownDrawn, Known, PendingUnknown, StepsInFlight, InFlight, NewRow, Snapshots, Live, Published, Statuses, Referenced, Transitions, Idle, Waiting, Editing, Wait, Answer, rowVars, defaultVars, assetVars
<1>6. LibraryBounded'
  <2>1. library' \subseteq library
    BY DEF IssueHeld, assetVars
  <2>2. Uploading' \subseteq Uploading
    BY DEF IInv, TypeOK, Uploading, IssueHeld, Idle, Waiting, Editing, Wait, Answer
  <2> QED  BY <2>1, <2>2, BoundKept
<1>7. DraftsStayInside'
  BY DEF IInv, ConstantsOK, IssueHeld, TypeOK, DraftsStayInside, StepsInFlight, InFlight, Snapshots, Published, Live, NewRow, Cards, NoCard, Idle, Waiting, Editing, Wait, Answer, rowVars, defaultVars, assetVars
<1>8. NewUnflagged'
  BY DEF IInv, ConstantsOK, IssueHeld, TypeOK, NewUnflagged, StepsInFlight, InFlight, NewRow, Statuses, Idle, Waiting, Editing, Wait, Answer, rowVars, defaultVars, assetVars
<1>9. FlagAgrees'
  BY DEF IInv, ConstantsOK, IssueHeld, TypeOK, FlagAgrees, NewUnflagged, Live, NewRow, DraftsStayInside, Idle, Waiting, Editing, Wait, Answer, rowVars, defaultVars, assetVars
<1> QED  BY <1>1, <1>2, <1>3, <1>4, <1>5, <1>6, <1>7, <1>8, <1>9 DEF IInv

\* An event goes with its passes.
LEMMA DeleteCardKeeps ==
  ASSUME ConstantsOK, IInv, NEW c \in Card, DeleteCard(c)
  PROVE  IInv'
<1>1. TypeOK'
  BY DEF IInv, ConstantsOK, DeleteCard, TypeOK, Requests, Cards, NoCard, Statuses, Snapshots, NewRow, Idle, Waiting, Editing, Wait, Answer, rowVars, defaultVars, assetVars
<1>2. LibraryBacked'
  BY DEF IInv, ConstantsOK, DeleteCard, TypeOK, LibraryBacked, PendingUnknown, Known, StepsInFlight, InFlight, Idle, Waiting, Editing, Wait, Answer, rowVars, defaultVars, assetVars
<1>3. KnownDrawn'
  BY DEF IInv, ConstantsOK, DeleteCard, TypeOK, KnownDrawn, Known, StepsInFlight, InFlight, NewRow, Idle, Waiting, Editing, Wait, Answer, rowVars, defaultVars, assetVars
<1>4. PendingUnknown'
  BY DEF IInv, ConstantsOK, DeleteCard, TypeOK, KnownDrawn, Known, PendingUnknown, StepsInFlight, InFlight, NewRow, Idle, Waiting, Editing, Wait, Answer, rowVars, defaultVars, assetVars
<1>5. StepsInFlight'
  BY DEF IInv, ConstantsOK, DeleteCard, TypeOK, KnownDrawn, Known, PendingUnknown, StepsInFlight, InFlight, NewRow, Snapshots, Live, Published, Statuses, Referenced, Transitions, Idle, Waiting, Editing, Wait, Answer, rowVars, defaultVars, assetVars
<1>6. LibraryBounded'
  <2>1. library' \subseteq library
    BY DEF DeleteCard, assetVars
  <2>2. Uploading' \subseteq Uploading
    BY DEF IInv, TypeOK, Uploading, DeleteCard, Idle, Waiting, Editing, Wait, Answer
  <2> QED  BY <2>1, <2>2, BoundKept
<1>7. DraftsStayInside'
  BY DEF IInv, ConstantsOK, DeleteCard, TypeOK, DraftsStayInside, StepsInFlight, InFlight, Snapshots, Published, Live, NewRow, Cards, NoCard, Idle, Waiting, Editing, Wait, Answer, rowVars, defaultVars, assetVars
<1>8. NewUnflagged'
  BY DEF IInv, ConstantsOK, DeleteCard, TypeOK, NewUnflagged, StepsInFlight, InFlight, NewRow, Statuses, Idle, Waiting, Editing, Wait, Answer, rowVars, defaultVars, assetVars
<1>9. FlagAgrees'
  BY DEF IInv, ConstantsOK, DeleteCard, TypeOK, FlagAgrees, NewUnflagged, Live, NewRow, DraftsStayInside, Idle, Waiting, Editing, Wait, Answer, rowVars, defaultVars, assetVars
<1> QED  BY <1>1, <1>2, <1>3, <1>4, <1>5, <1>6, <1>7, <1>8, <1>9 DEF IInv

\* A request stops half way.
LEMMA StopKeeps ==
  ASSUME ConstantsOK, IInv, NEW a \in Admin, Stop(a)
  PROVE  IInv'
<1>1. TypeOK'
  BY DEF IInv, ConstantsOK, Stop, TypeOK, Requests, Cards, NoCard, Statuses, Snapshots, NewRow, Idle, Waiting, Editing, Wait, Answer, rowVars, defaultVars, assetVars
<1>2. LibraryBacked'
  BY DEF IInv, ConstantsOK, Stop, TypeOK, LibraryBacked, PendingUnknown, Known, StepsInFlight, InFlight, Idle, Waiting, Editing, Wait, Answer, rowVars, defaultVars, assetVars
<1>3. KnownDrawn'
  BY DEF IInv, ConstantsOK, Stop, TypeOK, KnownDrawn, Known, StepsInFlight, InFlight, NewRow, Idle, Waiting, Editing, Wait, Answer, rowVars, defaultVars, assetVars
<1>4. PendingUnknown'
  BY DEF IInv, ConstantsOK, Stop, TypeOK, KnownDrawn, Known, PendingUnknown, StepsInFlight, InFlight, NewRow, Idle, Waiting, Editing, Wait, Answer, rowVars, defaultVars, assetVars
<1>5. StepsInFlight'
  BY DEF IInv, ConstantsOK, Stop, TypeOK, KnownDrawn, Known, PendingUnknown, StepsInFlight, InFlight, NewRow, Snapshots, Live, Published, Statuses, Referenced, Transitions, Idle, Waiting, Editing, Wait, Answer, rowVars, defaultVars, assetVars
<1>6. LibraryBounded'
  <2>1. library' \subseteq library
    BY DEF Stop, assetVars
  <2>2. Uploading' \subseteq Uploading
    BY DEF IInv, TypeOK, Uploading, Stop, Idle, Waiting, Editing, Wait, Answer
  <2> QED  BY <2>1, <2>2, BoundKept
<1>7. DraftsStayInside'
  BY DEF IInv, ConstantsOK, Stop, TypeOK, DraftsStayInside, StepsInFlight, InFlight, Snapshots, Published, Live, NewRow, Cards, NoCard, Idle, Waiting, Editing, Wait, Answer, rowVars, defaultVars, assetVars
<1>8. NewUnflagged'
  BY DEF IInv, ConstantsOK, Stop, TypeOK, NewUnflagged, StepsInFlight, InFlight, NewRow, Statuses, Idle, Waiting, Editing, Wait, Answer, rowVars, defaultVars, assetVars
<1>9. FlagAgrees'
  BY DEF IInv, ConstantsOK, Stop, TypeOK, FlagAgrees, NewUnflagged, Live, NewRow, DraftsStayInside, Idle, Waiting, Editing, Wait, Answer, rowVars, defaultVars, assetVars
<1> QED  BY <1>1, <1>2, <1>3, <1>4, <1>5, <1>6, <1>7, <1>8, <1>9 DEF IInv

-----------------------------------------------------------------------------
(* The theorems *)

LEMMA InitHolds == ASSUME ConstantsOK, Init PROVE IInv
<1>1. Cardinality(library) = 0 /\ Uploading = {} /\ Cardinality(Uploading) = 0
  BY FS_EmptySet DEF Init, Uploading, Idle
<1>2. Cardinality(Admin) \in Nat /\ Cardinality(Admin) # 0
  BY FS_CardinalityType, FS_EmptySet DEF ConstantsOK
<1>3. LibraryBounded
  BY <1>1, <1>2 DEF LibraryBounded, ConstantsOK
<1>4. TypeOK
  BY DEF Init, TypeOK, Cards, NoCard
<1> QED  BY <1>3, <1>4 DEF IInv, Init, ConstantsOK, LibraryBacked, KnownDrawn, Known, PendingUnknown,
    StepsInFlight, DraftsStayInside, NewUnflagged, FlagAgrees, Live, Idle, Waiting, NoCard

LEMMA NextKeeps == ASSUME ConstantsOK, IInv, [Next]_vars PROVE IInv'
<1>1. CASE UNCHANGED vars
  <2>1. TypeOK' /\ LibraryBacked' /\ KnownDrawn' /\ DraftsStayInside' /\ NewUnflagged' /\ FlagAgrees'
    BY <1>1 DEF IInv, vars, rowVars, defaultVars, assetVars, TypeOK, LibraryBacked, KnownDrawn, Known, Idle,
        DraftsStayInside, NewUnflagged, FlagAgrees, Live
  <2>2. PendingUnknown' /\ StepsInFlight' /\ LibraryBounded'
    BY <1>1 DEF IInv, vars, rowVars, defaultVars, assetVars, PendingUnknown, Known, StepsInFlight, InFlight,
        LibraryBounded, Uploading, Idle, Waiting
  <2> QED  BY <2>1, <2>2 DEF IInv
<1>2. CASE \E a \in Admin : LibraryStep(a)
  BY <1>2, UploadKeeps, StoreFileKeeps, RegisterKeeps, RemoveAssetKeeps, RemoveRowKeeps, UnlinkKeeps, PickImageKeeps DEF LibraryStep
<1>3. CASE \E a \in Admin : TemplateStep(a)
  BY <1>3, OpenEditKeeps, CreateKeeps, UpdateKeeps, SetStatusKeeps, StatusWritesKeeps, DeleteTemplateKeeps, DeleteWritesKeeps, DuplicateKeeps, DuplicateWritesKeeps, SetDefaultKeeps, DefaultWritesKeeps, ClearDefaultKeeps DEF TemplateStep
<1>4. CASE \E a \in Admin : CardStep(a) \/ Stop(a)
  BY <1>4, IssuePassKeeps, PassWritesKeeps, RedrawCardKeeps, RedrawWritesKeeps, StopKeeps DEF CardStep
<1>5. CASE \E c \in Card : Submit(c) \/ IssueHeld(c) \/ DeleteCard(c)
  BY <1>5, SubmitKeeps, IssueHeldKeeps, DeleteCardKeeps
<1> QED  BY <1>1, <1>2, <1>3, <1>4, <1>5 DEF Next

\* The inductive invariant holds in every reachable state.
THEOREM InvariantHolds == Spec => []IInv
<1>1. Init => IInv
  BY ConstantsOK, InitHolds
<1>2. IInv /\ [Next]_vars => IInv'
  BY ConstantsOK, NextKeeps
<1> QED  BY <1>1, <1>2, PTL DEF Spec

\* Every image the library offers has its file, whatever uploads stop half way and
\* whatever templates are deleted meanwhile; uploads that overlap exceed the capacity
\* by no more than their number less one.
THEOREM LibraryIsSound == Spec => []LibrarySound
<1>1. IInv => LibrarySound
  BY DEF IInv, LibrarySound
<1> QED  BY <1>1, InvariantHolds, PTL

\* No card, no registration and no default names a template that is still a draft, and the
\* flag of the rows agrees with the default of the organization.
THEOREM TemplatesStaySound == Spec => []TemplatesSound
<1>1. IInv => TemplatesSound
  BY DEF IInv, TemplatesSound
<1> QED  BY <1>1, InvariantHolds, PTL

-----------------------------------------------------------------------------
(* Event passes *)

PassRow == [deposit : Deposit, status : {"AVAILABLE", "ASSIGNED"}, event : Nat, expires : Nat]
EventRow == [kind : {"SUBSCRIPTION", "EVENT_PASS"}, created : Nat, deleted : BOOLEAN, expires : Nat]
CallRow == [dep : Deposit, phase : {"CHECKING", "ANSWERED", "EXPIRING"}, answer : {"NONE"} \cup Found]
PageRow == [at : {"AWAY", "NEW"}, ref : Nat]
PaymentStates == {"NONE", "COMPLETED", "FAILED", "EXPIRED"} \cup OpenPayment

LEMMA PassesTypes ==
    PassesRowsOK <=>
      /\ payment \in [Deposit -> PaymentStates]
      /\ purchase \in [Deposit -> {"NEW", "ASKING", "DONE"}]
      /\ deposit \in [Deposit -> {"NONE"} \cup Found] /\ old \in [Deposit -> BOOLEAN]
      /\ call \in [Caller -> CallRow \cup {NoCall}]
      /\ passes \in Seq(PassRow) /\ events \in Seq(EventRow)
      /\ page \in [Page -> PageRow]
BY DEF PassesRowsOK, PassRow, EventRow, CallRow, PageRow, PaymentStates

LEMMA PassesTypesNext ==
    PassesRowsOK' <=>
      /\ payment' \in [Deposit -> PaymentStates]
      /\ purchase' \in [Deposit -> {"NEW", "ASKING", "DONE"}]
      /\ deposit' \in [Deposit -> {"NONE"} \cup Found] /\ old' \in [Deposit -> BOOLEAN]
      /\ call' \in [Caller -> CallRow \cup {NoCall}]
      /\ passes' \in Seq(PassRow) /\ events' \in Seq(EventRow)
      /\ page' \in [Page -> PageRow]
BY DEF PassesRowsOK, PassRow, EventRow, CallRow, PageRow, PaymentStates

LEMMA PassesInitInvariant == PassesInit => PassesIInv
<1> SUFFICES ASSUME PassesInit PROVE PassesIInv
    OBVIOUS
<1>1. passes = <<>> /\ events = <<>> /\ Len(passes) = 0 /\ Len(events) = 0
      /\ passes \in Seq(PassRow) /\ events \in Seq(EventRow)
    BY DEF PassesInit
<1>2. NoPage \in PageRow /\ NoPage.at = "AWAY"
    BY DEF NoPage, PageRow
<1>3. PassesRowsOK
    BY <1>1, <1>2, PassesTypes DEF PassesInit, PaymentStates
<1>4. now = 0 /\ anchor = 0 /\ plan \in Plan
    BY DEF PassesInit
<1>5. PassesTypeOK
  <2>1. \A p \in Page : page[p].at \in {"AWAY", "NEW"}
      BY <1>2 DEF PassesInit
  <2>2. \A d \in Deposit :
          /\ payment[d] \in {"NONE", "COMPLETED", "FAILED", "EXPIRED"} \cup OpenPayment
          /\ purchase[d] \in {"NEW", "ASKING", "DONE"}
          /\ deposit[d] \in {"NONE"} \cup Found /\ old[d] \in BOOLEAN
      BY DEF PassesInit
  <2> QED BY <1>1, <1>4, <2>1, <2>2, PassesConstantsOK DEF PassesTypeOK, PassesConstantsOK
<1>6. \A r \in Caller : AnswerTruthful(r)
    BY DEF AnswerTruthful, PassesInit
<1> QED BY <1>1, <1>3, <1>5, <1>6 DEF PassesIInv, PassPaidOnce, PassesAssigned

\* A step of the purchase that leaves the passes, the events and the pages alone and
\* undoes no deposit.
LEMMA PurchaseStep ==
    ASSUME PassesIInv, UNCHANGED <<planVars, passes, events, page>>, PassesRowsOK',
           \A d \in Deposit : deposit[d] = "COMPLETED" => deposit'[d] = "COMPLETED",
           \A r \in Caller : AnswerTruthful(r)'
    PROVE  PassesIInv'
<1>1. /\ passes \in Seq(PassRow) /\ \A i \in 1..Len(passes) : passes[i].deposit \in Deposit
  <2>1. passes \in Seq(PassRow)
      BY PassesTypes DEF PassesIInv
  <2>2. \A i \in 1..Len(passes) : passes[i] \in PassRow
      BY <2>1
  <2> QED BY <2>1, <2>2 DEF PassRow
<1>2. PassPaidOnce'
    BY <1>1 DEF PassesIInv, PassPaidOnce
<1>3. PassesAssigned'
    BY DEF PassesIInv, PassesAssigned
<1>4. PassesTypeOK'
    BY DEF PassesIInv, PassesTypeOK, PassesRowsOK, planVars
<1> QED BY <1>2, <1>3, <1>4 DEF PassesIInv

LEMMA BuyPassKeeps ==
    ASSUME PassesIInv, NEW d \in Deposit, BuyPass(d)
    PROVE  PassesIInv'
<1>1. PassesRowsOK
    BY DEF PassesIInv
<1>2. UNCHANGED <<planVars, passes, events, page, call>>
    BY DEF BuyPass, InitiatePass, DepositReceived, InitiateAnswered, InitiateRejected,
           InitiateUncertain, DepositEnds, DayPasses
<1>3. PassesRowsOK'
  <2>1. payment' \in [Deposit -> PaymentStates] /\ purchase' \in [Deposit -> {"NEW", "ASKING", "DONE"}]
      BY <1>1, PassesTypes DEF BuyPass, InitiatePass, DepositReceived, InitiateAnswered,
         InitiateRejected, InitiateUncertain, DepositEnds, DayPasses, PaymentStates, OpenPayment
  <2>2. deposit' \in [Deposit -> {"NONE"} \cup Found] /\ old' \in [Deposit -> BOOLEAN]
      BY <1>1, PassesTypes DEF BuyPass, InitiatePass, DepositReceived, InitiateAnswered,
         InitiateRejected, InitiateUncertain, DepositEnds, DayPasses, Found
  <2> QED BY <1>1, <1>2, <2>1, <2>2, PassesTypes, PassesTypesNext
<1>4. \A e \in Deposit : deposit[e] = "COMPLETED" => deposit'[e] = "COMPLETED"
    BY <1>1, PassesTypes DEF BuyPass, InitiatePass, DepositReceived, InitiateAnswered,
       InitiateRejected, InitiateUncertain, DepositEnds, DayPasses
<1>5. ASSUME NEW r \in Caller PROVE AnswerTruthful(r)'
  <2>1. call[r] # NoCall => call[r].dep \in Deposit
      BY <1>1, PassesTypes DEF CallRow
  <2> QED BY <1>2, <1>4, <2>1 DEF PassesIInv, AnswerTruthful
<1> QED BY <1>2, <1>3, <1>4, <1>5, PurchaseStep

\* What a caller does to the payment it reconciles, the pass itself apart.
LEMMA ReconcileKeeps ==
    ASSUME PassesIInv, NEW r \in Caller,
           \/ CallStops(r) \/ CheckDeposit(r) \/ NotFound(r) \/ WriteUnfinished(r)
           \/ WriteFailed(r) \/ ExpireOverdue(r) \/ \E d \in Deposit : Reconcile(r, d)
    PROVE  PassesIInv'
<1>1. PassesRowsOK
    BY DEF PassesIInv
<1>2. UNCHANGED <<planVars, purchase, deposit, old, passes, events, page>>
    BY DEF CallStops, CheckDeposit, NotFound, WriteUnfinished, WriteFailed, ExpireOverdue, Reconcile
<1>3. call[r] # NoCall => call[r] \in CallRow /\ call[r].dep \in Deposit
    BY <1>1, PassesTypes DEF CallRow
<1> DEFINE Moves(c) ==
        /\ call' = [call EXCEPT ![r] = c]
        /\ c # NoCall /\ c.answer = "COMPLETED" =>
             \/ deposit[c.dep] = "COMPLETED"
             \/ call[r] # NoCall /\ c.dep = call[r].dep /\ call[r].answer = "COMPLETED"
<1>4. \E c \in CallRow \cup {NoCall} : Moves(c)
  <2>1. CASE Return(r)
      BY <2>1 DEF Return
  <2>2. ASSUME NEW d \in Deposit, Reconcile(r, d) PROVE \E c \in CallRow \cup {NoCall} : Moves(c)
    <3> DEFINE c == [dep |-> d, phase |-> "CHECKING", answer |-> "NONE"]
    <3>1. c \in CallRow /\ c.answer = "NONE" /\ call' = [call EXCEPT ![r] = c]
        BY <2>2 DEF Reconcile, CallRow
    <3> HIDE DEF c
    <3> QED BY <3>1
  <2>3. CASE CheckDeposit(r)
    <3>1. call' = [call EXCEPT ![r] = [call[r] EXCEPT !.phase = "ANSWERED",
                                                      !.answer = deposit[call[r].dep]]]
        BY <1>1, <2>3, PassesTypes DEF CheckDeposit
    <3> QED BY <1>1, <1>3, <2>3, <3>1, PassesTypes DEF CheckDeposit, InPhase, CallRow
  <2>4. CASE (NotFound(r) \/ WriteUnfinished(r)) /\ call' = [call EXCEPT ![r].phase = "EXPIRING"]
    <3> DEFINE c == [call[r] EXCEPT !.phase = "EXPIRING"]
    <3>1. call[r] # NoCall
        BY <2>4 DEF NotFound, WriteUnfinished, InPhase
    <3>2. c \in CallRow /\ c.answer = call[r].answer /\ c.dep = call[r].dep
        BY <1>3, <3>1 DEF CallRow
    <3>3. call' = [call EXCEPT ![r] = c]
        BY <1>1, <2>4, PassesTypes
    <3> HIDE DEF c
    <3> QED BY <3>1, <3>2, <3>3
  <2> QED BY <2>1, <2>2, <2>3, <2>4 DEF CallStops, NotFound, WriteUnfinished, WriteFailed, ExpireOverdue
<1>5. payment' \in [Deposit -> PaymentStates]
    BY <1>1, PassesTypes DEF CallStops, CheckDeposit, NotFound, WriteUnfinished, WriteFailed, ExpireOverdue,
       Reconcile, PaymentStates, OpenPayment
<1>6. PassesRowsOK'
    BY <1>1, <1>2, <1>4, <1>5, PassesTypes, PassesTypesNext
<1>7. ASSUME NEW s \in Caller PROVE AnswerTruthful(s)'
    BY <1>1, <1>2, <1>4, PassesTypes DEF PassesIInv, AnswerTruthful
<1> QED BY <1>2, <1>6, <1>7, PurchaseStep

\* The pass is inserted for a payment that has none, and serves no event yet.
LEMMA GrantPassKeeps ==
    ASSUME PassesIInv, NEW r \in Caller, GrantPass(r)
    PROVE  PassesIInv'
<1> DEFINE d == call[r].dep
           x == [deposit |-> d, status |-> "AVAILABLE", event |-> 0, expires |-> Never]
<1>1. PassesRowsOK
    BY DEF PassesIInv
<1>2. call[r] # NoCall /\ d \in Deposit /\ deposit[d] = "COMPLETED"
    BY <1>1, PassesTypes DEF PassesIInv, GrantPass, InPhase, AnswerTruthful, CallRow
<1>3. UNCHANGED <<planVars, purchase, deposit, old, events, page>> /\ call' = [call EXCEPT ![r] = NoCall]
    BY DEF GrantPass, Return
<1>4. \A s \in Caller : AnswerTruthful(s)'
    BY <1>1, <1>3, PassesTypes DEF PassesIInv, AnswerTruthful
<1>5. call' \in [Caller -> CallRow \cup {NoCall}]
    BY <1>1, <1>3, PassesTypes
<1>6. CASE passes' = passes /\ payment' = payment
  <2>1. PassesRowsOK'
      BY <1>1, <1>3, <1>5, <1>6, PassesTypes, PassesTypesNext
  <2> QED BY <1>3, <1>4, <1>6, <2>1, PurchaseStep
<1>7. CASE passes' = Append(passes, x) /\ PassFree(d) /\ payment' = [payment EXCEPT ![d] = "COMPLETED"]
  <2>1. x \in PassRow /\ x.event = 0 /\ x.deposit = d
      BY <1>2, PassesConstantsOK DEF PassRow, Never, PassesConstantsOK
  <2> HIDE DEF x, d
  <2>2. /\ passes' \in Seq(PassRow) /\ Len(passes') = Len(passes) + 1 /\ Len(passes) \in Nat
        /\ passes'[Len(passes) + 1] = x
        /\ \A i \in 1..Len(passes) : passes'[i] = passes[i]
        /\ events \in Seq(EventRow) /\ Len(events) \in Nat
      BY <1>1, <1>7, <2>1, PassesTypes
  <2>3. PassesRowsOK'
      BY <1>1, <1>2, <1>3, <1>5, <1>7, <2>2, PassesTypes, PassesTypesNext DEF PaymentStates
  <2>4. PassPaidOnce'
    <3>1. \A i \in 1..Len(passes) : passes[i].deposit # d
        BY <1>7 DEF PassFree
    <3>2. /\ PassPaidOnce /\ deposit' = deposit
          /\ \A i \in 1..Len(passes') : i \in 1..Len(passes) \/ i = Len(passes) + 1
        BY <1>3, <2>2 DEF PassesIInv
    <3>3. ASSUME NEW i \in 1..Len(passes') PROVE deposit'[passes'[i].deposit] = "COMPLETED"
        BY <1>2, <2>1, <2>2, <3>2, <3>3 DEF PassPaidOnce
    <3>4. ASSUME NEW i \in 1..Len(passes'), NEW j \in 1..Len(passes'),
                 passes'[i].deposit = passes'[j].deposit
          PROVE  i = j
        BY <2>1, <2>2, <3>1, <3>2, <3>4 DEF PassPaidOnce
    <3> QED BY <3>3, <3>4 DEF PassPaidOnce
  <2>5. PassesAssigned'
    <3>1. /\ \A i \in 1..Len(passes') : i \in 1..Len(passes) \/ i = Len(passes) + 1
          /\ \A i \in 1..Len(passes) : i \in 1..Len(passes')
        BY <2>2
    <3>2. PassesAssigned
        BY DEF PassesIInv
    <3>3. ASSUME NEW i \in 1..Len(passes'), passes'[i].event # 0
          PROVE  /\ events'[passes'[i].event].kind = "EVENT_PASS"
                 /\ passes'[i].expires = events'[passes'[i].event].expires
        BY <1>3, <2>1, <2>2, <3>1, <3>2, <3>3 DEF PassesAssigned
    <3>4. ASSUME NEW i \in 1..Len(passes'), NEW j \in 1..Len(passes'),
                 passes'[i].event # 0, passes'[i].event = passes'[j].event
          PROVE  i = j
        BY <2>1, <2>2, <3>1, <3>2, <3>4 DEF PassesAssigned
    <3>5. ASSUME NEW e \in 1..Len(events'), events'[e].kind = "EVENT_PASS"
          PROVE  \E i \in 1..Len(passes') : passes'[i].event = e
        BY <1>3, <2>2, <3>1, <3>2, <3>5 DEF PassesAssigned
    <3> QED BY <3>3, <3>4, <3>5 DEF PassesAssigned
  <2>6. PassesTypeOK'
    <3>1. \A i \in 1..Len(passes') : passes'[i].event \in 0..Len(events)
        BY <2>1, <2>2 DEF PassesIInv, PassesTypeOK
    <3> QED BY <1>3, <2>3, <3>1 DEF PassesIInv, PassesTypeOK, PassesRowsOK, planVars
  <2> QED BY <1>4, <2>3, <2>4, <2>5, <2>6 DEF PassesIInv
<1> QED BY <1>6, <1>7 DEF GrantPass

\* Time, the plan, and steps of the page that create nothing.
LEMMA PageStepKeeps ==
    ASSUME PassesIInv,
           \/ Tick \/ ChangePlan \/ ActivateEnterprise \/ UNCHANGED passVars
           \/ \E p \in Page : OpenNewEvent(p) \/ CreateRefused(p)
    PROVE  PassesIInv'
<1>1. PassesRowsOK /\ PassesTypeOK
    BY DEF PassesIInv
<1>2. UNCHANGED <<buyingVars, passes, events>>
    BY DEF Tick, ChangePlan, ActivateEnterprise, OpenNewEvent, CreateRefused, passVars
<1>3. NoPage \in PageRow
    BY DEF NoPage, PageRow
<1>4. page' \in [Page -> PageRow]
  <2>1. CASE Tick \/ ChangePlan \/ ActivateEnterprise \/ UNCHANGED passVars
      BY <1>1, <2>1, PassesTypes DEF Tick, ChangePlan, ActivateEnterprise, passVars
  <2>2. ASSUME NEW p \in Page, OpenNewEvent(p) PROVE page' \in [Page -> PageRow]
    <3>1. PICK k \in {0} \cup {k \in 1..Len(passes) : passes[k].status = "AVAILABLE"} :
            page' = [page EXCEPT ![p] = [at |-> "NEW", ref |-> k]]
        BY <2>2 DEF OpenNewEvent
    <3>2. k \in Nat
        BY <1>1, <3>1, PassesTypes
    <3> QED BY <1>1, <3>1, <3>2, PassesTypes DEF PageRow
  <2>3. ASSUME NEW p \in Page, CreateRefused(p) PROVE page' \in [Page -> PageRow]
      BY <1>1, <1>3, <2>3, PassesTypes DEF CreateRefused, Close
  <2> QED BY <2>1, <2>2, <2>3
<1>5. PassesRowsOK'
    BY <1>1, <1>2, <1>4, PassesTypes, PassesTypesNext DEF buyingVars
<1>6. now' \in 0..MaxNow /\ anchor' \in 0..MaxNow /\ plan' \in Plan
    BY <1>1, PassesConstantsOK DEF Tick, ChangePlan, ActivateEnterprise, OpenNewEvent, CreateRefused,
       passVars, planVars, PassesTypeOK, Plan
<1>7. PassesTypeOK'
    BY <1>1, <1>2, <1>4, <1>5, <1>6 DEF PassesTypeOK, PassesRowsOK, PageRow
<1>8. \A r \in Caller : AnswerTruthful(r)'
    BY <1>2 DEF PassesIInv, AnswerTruthful, buyingVars
<1>9. PassPaidOnce' /\ PassesAssigned'
    BY <1>2 DEF PassesIInv, PassPaidOnce, PassesAssigned, buyingVars
<1> QED BY <1>5, <1>7, <1>8, <1>9 DEF PassesIInv

\* A deleted event keeps its kind and its pass.
LEMMA DeleteEventKeeps ==
    ASSUME PassesIInv, NEW p \in Page, DeleteEvent(p)
    PROVE  PassesIInv'
<1>1. PassesRowsOK /\ PassesTypeOK
    BY DEF PassesIInv
<1>2. UNCHANGED <<planVars, buyingVars, passes, page>>
    BY DEF DeleteEvent
<1>3. PICK e \in 1..Len(events) : events' = [events EXCEPT ![e].deleted = TRUE]
    BY DEF DeleteEvent
<1> DEFINE x == [events[e] EXCEPT !.deleted = TRUE]
<1>4. events \in Seq(EventRow) /\ events[e] \in EventRow
    BY <1>1, PassesTypes
<1>5. x \in EventRow /\ x.kind = events[e].kind /\ x.expires = events[e].expires
    BY <1>4 DEF EventRow
<1>6. events' = [events EXCEPT ![e] = x]
    BY <1>3, <1>4
<1> HIDE DEF x
<1>7. /\ events' \in Seq(EventRow) /\ Len(events') = Len(events)
      /\ \A f \in 1..Len(events) : events'[f].kind = events[f].kind /\ events'[f].expires = events[f].expires
    BY <1>4, <1>5, <1>6
<1>8. PassesRowsOK'
    BY <1>1, <1>2, <1>7, PassesTypes, PassesTypesNext DEF buyingVars
<1>9. PassesTypeOK'
    BY <1>1, <1>2, <1>7 DEF PassesTypeOK, planVars, buyingVars
<1>10. \A r \in Caller : AnswerTruthful(r)'
    BY <1>2 DEF PassesIInv, AnswerTruthful, buyingVars
<1>11. PassPaidOnce'
    BY <1>2 DEF PassesIInv, PassPaidOnce, buyingVars
<1>12. PassesAssigned'
  <2>1. \A i \in 1..Len(passes) : passes[i].event # 0 => passes[i].event \in 1..Len(events)
      BY <1>1 DEF PassesTypeOK
  <2> QED BY <1>2, <1>7, <2>1 DEF PassesIInv, PassesAssigned
<1> QED BY <1>8, <1>9, <1>10, <1>11, <1>12 DEF PassesIInv

\* What an event under a kind adds to the rows.
LEMMA EventAdded ==
    ASSUME PassesIInv, NEW kind \in {"SUBSCRIPTION", "EVENT_PASS"},
           events' = Append(events, NewEvent(kind)), NEW p \in Page, EventCreated(p)
    PROVE  /\ events' \in Seq(EventRow) /\ Len(events) \in Nat /\ Len(events') = Len(events) + 1
           /\ events'[Len(events) + 1].kind = kind
           /\ kind = "EVENT_PASS" => events'[Len(events) + 1].expires = now + Month
           /\ \A e \in 1..Len(events) : events'[e] = events[e]
           /\ \A e \in 1..Len(events') : e \in 1..Len(events) \/ e = Len(events) + 1
           /\ page' \in [Page -> PageRow] /\ now \in Nat
<1> DEFINE x == NewEvent(kind)
<1>1. PassesRowsOK /\ now \in Nat
    BY PassesConstantsOK DEF PassesIInv, PassesTypeOK, PassesConstantsOK
<1>2. x \in EventRow /\ x.kind = kind /\ (kind = "EVENT_PASS" => x.expires = now + Month)
    BY <1>1, PassesConstantsOK DEF NewEvent, EventRow, Never, PassesConstantsOK
<1>3. events \in Seq(EventRow) /\ page \in [Page -> PageRow]
    BY <1>1, PassesTypes
<1>4. page' \in [Page -> PageRow]
    BY <1>3 DEF EventCreated, Close, NoPage, PageRow
<1> HIDE DEF x
<1>5. events' = Append(events, x)
    BY DEF x
<1> QED BY <1>1, <1>2, <1>3, <1>4, <1>5

LEMMA CreateWithPlanKeeps ==
    ASSUME PassesIInv, NEW p \in Page, CreateWithPlan(p)
    PROVE  PassesIInv'
<1>1. PassesRowsOK /\ PassesTypeOK
    BY DEF PassesIInv
<1>2. events' = Append(events, NewEvent("SUBSCRIPTION")) /\ EventCreated(p) /\ Len(events) < MaxEvents
      /\ UNCHANGED <<planVars, buyingVars, passes>>
    BY DEF CreateWithPlan
<1>3. /\ events' \in Seq(EventRow) /\ Len(events) \in Nat /\ Len(events') = Len(events) + 1
      /\ events'[Len(events) + 1].kind = "SUBSCRIPTION"
      /\ \A e \in 1..Len(events) : events'[e] = events[e]
      /\ \A e \in 1..Len(events') : e \in 1..Len(events) \/ e = Len(events) + 1
      /\ page' \in [Page -> PageRow]
    BY <1>2, EventAdded
<1>4. PassesRowsOK'
    BY <1>1, <1>2, <1>3, PassesTypes, PassesTypesNext DEF buyingVars
<1>5. PassesTypeOK'
  <2>1. \A i \in 1..Len(passes') : passes'[i].event \in 0..Len(events')
      BY <1>1, <1>2, <1>3 DEF PassesTypeOK
  <2>2. Len(events') <= MaxEvents
      BY <1>2, <1>3, PassesConstantsOK DEF PassesConstantsOK
  <2> QED BY <1>1, <1>2, <1>3, <2>1, <2>2 DEF PassesTypeOK, planVars, buyingVars, PageRow
<1>6. \A r \in Caller : AnswerTruthful(r)'
    BY <1>2 DEF PassesIInv, AnswerTruthful, buyingVars
<1>7. PassPaidOnce'
    BY <1>2 DEF PassesIInv, PassPaidOnce, buyingVars
<1>8. PassesAssigned'
  <2>1. \A i \in 1..Len(passes) : passes[i].event # 0 => passes[i].event \in 1..Len(events)
      BY <1>1 DEF PassesTypeOK
  <2>2. PassesAssigned /\ passes' = passes
      BY <1>2 DEF PassesIInv
  <2>3. ASSUME NEW i \in 1..Len(passes), passes[i].event # 0
        PROVE  /\ events'[passes[i].event].kind = "EVENT_PASS"
               /\ passes[i].expires = events'[passes[i].event].expires
      BY <1>3, <2>1, <2>2, <2>3 DEF PassesAssigned
  <2>4. ASSUME NEW e \in 1..Len(events'), events'[e].kind = "EVENT_PASS"
        PROVE  \E i \in 1..Len(passes) : passes[i].event = e
    <3>1. e \in 1..Len(events) /\ events[e].kind = "EVENT_PASS"
        BY <1>3, <2>4
    <3> QED BY <2>2, <3>1 DEF PassesAssigned
  <2> QED BY <2>2, <2>3, <2>4 DEF PassesAssigned
<1> QED BY <1>4, <1>5, <1>6, <1>7, <1>8 DEF PassesIInv

\* The pass of the event served no other.
LEMMA CreateWithPassKeeps ==
    ASSUME PassesIInv, NEW p \in Page, CreateWithPass(p)
    PROVE  PassesIInv'
<1> DEFINE i == page[p].ref
           n == Len(events) + 1
           y == [passes[i] EXCEPT !.event = n, !.status = "ASSIGNED", !.expires = now + Month]
<1>1. PassesRowsOK /\ PassesTypeOK
    BY DEF PassesIInv
<1>2. /\ events' = Append(events, NewEvent("EVENT_PASS")) /\ EventCreated(p) /\ Len(events) < MaxEvents
      /\ i \in 1..Len(passes) /\ passes[i].event = 0 /\ UNCHANGED <<planVars, buyingVars>>
      /\ passes' = [passes EXCEPT ![i].event = Len(events) + 1, ![i].status = "ASSIGNED",
                                  ![i].expires = now + Month]
    BY DEF CreateWithPass, PassUsable
<1>3. /\ events' \in Seq(EventRow) /\ Len(events) \in Nat /\ Len(events') = n
      /\ events'[n].kind = "EVENT_PASS" /\ events'[n].expires = now + Month
      /\ \A e \in 1..Len(events) : events'[e] = events[e]
      /\ \A e \in 1..Len(events') : e \in 1..Len(events) \/ e = n
      /\ page' \in [Page -> PageRow] /\ now \in Nat
    BY <1>2, EventAdded
<1>4. passes \in Seq(PassRow) /\ passes[i] \in PassRow
    BY <1>1, <1>2, PassesTypes
<1>5. /\ y \in PassRow /\ y.event = n /\ y.expires = now + Month /\ y.deposit = passes[i].deposit
  <2>1. n \in Nat /\ now + Month \in Nat
      BY <1>3, PassesConstantsOK DEF PassesConstantsOK
  <2> HIDE DEF i, n
  <2> QED BY <1>4, <2>1 DEF PassRow
<1>6. passes' = [passes EXCEPT ![i] = y]
    BY <1>2, <1>4
<1> HIDE DEF y, i
<1>7. /\ passes' \in Seq(PassRow) /\ Len(passes') = Len(passes) /\ passes'[i] = y
      /\ \A j \in 1..Len(passes) : j # i => passes'[j] = passes[j]
      /\ \A j \in 1..Len(passes) : passes'[j].deposit = passes[j].deposit
  <2>1. /\ passes' \in Seq(PassRow) /\ Len(passes') = Len(passes) /\ passes'[i] = y
        /\ \A j \in 1..Len(passes) : j # i => passes'[j] = passes[j]
    <3>1. i \in 1..Len(passes) /\ y \in PassRow /\ passes \in Seq(PassRow)
        BY <1>2, <1>4, <1>5
    <3> HIDE DEF n
    <3> QED BY <1>6, <3>1
  <2>2. ASSUME NEW j \in 1..Len(passes) PROVE passes'[j].deposit = passes[j].deposit
      BY <1>5, <2>1, <2>2
  <2> QED BY <2>1, <2>2
<1>8. PassesRowsOK'
    BY <1>1, <1>2, <1>3, <1>7, PassesTypes, PassesTypesNext DEF buyingVars
<1>9. PassesTypeOK'
  <2>1. \A j \in 1..Len(passes') : passes'[j].event \in 0..Len(events')
      BY <1>1, <1>2, <1>3, <1>5, <1>7 DEF PassesTypeOK
  <2>2. Len(events') <= MaxEvents
      BY <1>2, <1>3, PassesConstantsOK DEF PassesConstantsOK
  <2> QED BY <1>1, <1>2, <1>3, <2>1, <2>2 DEF PassesTypeOK, planVars, buyingVars, PageRow
<1>10. \A r \in Caller : AnswerTruthful(r)'
    BY <1>2 DEF PassesIInv, AnswerTruthful, buyingVars
<1>11. PassPaidOnce'
    BY <1>2, <1>7 DEF PassesIInv, PassPaidOnce, buyingVars
<1>12. PassesAssigned'
  <2>1. /\ \A j \in 1..Len(passes) : passes[j].event \in 0..Len(events)
        /\ PassesAssigned /\ n \in 1..Len(events') /\ n \notin 0..Len(events)
      BY <1>1, <1>3 DEF PassesTypeOK, PassesIInv
  <2>2. ASSUME NEW j \in 1..Len(passes'), passes'[j].event # 0
        PROVE  /\ events'[passes'[j].event].kind = "EVENT_PASS"
               /\ passes'[j].expires = events'[passes'[j].event].expires
      BY <1>3, <1>5, <1>7, <2>1, <2>2 DEF PassesAssigned
  <2>3. ASSUME NEW j \in 1..Len(passes'), NEW k \in 1..Len(passes'),
               passes'[j].event # 0, passes'[j].event = passes'[k].event
        PROVE  j = k
      BY <1>3, <1>5, <1>7, <2>1, <2>3 DEF PassesAssigned
  <2>4. ASSUME NEW e \in 1..Len(events'), events'[e].kind = "EVENT_PASS"
        PROVE  \E j \in 1..Len(passes') : passes'[j].event = e
    <3>1. CASE e = n
        BY <1>2, <1>5, <1>7, <3>1
    <3>2. CASE e \in 1..Len(events)
      <4>1. PICK j \in 1..Len(passes) : passes[j].event = e
          BY <1>3, <2>1, <2>4, <3>2 DEF PassesAssigned
      <4>2. j # i
          BY <1>2, <3>2, <4>1
      <4> QED BY <1>7, <4>1, <4>2
    <3> QED BY <1>3, <3>1, <3>2
  <2> QED BY <2>2, <2>3, <2>4 DEF PassesAssigned
<1> QED BY <1>8, <1>9, <1>10, <1>11, <1>12 DEF PassesIInv

LEMMA PassesNextInvariant == PassesIInv /\ [PassesNext]_passVars => PassesIInv'
BY BuyPassKeeps, ReconcileKeeps, GrantPassKeeps, PageStepKeeps, DeleteEventKeeps, CreateWithPlanKeeps,
   CreateWithPassKeeps DEF PassesNext, Settle, Browse

\* An event under a pass has one pass, any other none.
LEMMA OnePassEach == PassesIInv => PassServesOneEvent
<1> SUFFICES ASSUME PassesIInv PROVE PassServesOneEvent
    OBVIOUS
<1>1. PassesAssigned
    BY DEF PassesIInv
<1>2. ASSUME NEW e \in 1..Len(events)
      PROVE  Cardinality({i \in 1..Len(passes) : passes[i].event = e})
               = IF events[e].kind = "EVENT_PASS" THEN 1 ELSE 0
  <2> DEFINE S == {i \in 1..Len(passes) : passes[i].event = e}
  <2>1. e # 0
      OBVIOUS
  <2>2. CASE events[e].kind = "EVENT_PASS"
    <3>1. PICK i \in 1..Len(passes) : passes[i].event = e
        BY <1>1, <2>2 DEF PassesAssigned
    <3>2. S = {i}
        BY <1>1, <2>1, <3>1 DEF PassesAssigned
    <3> HIDE DEF S
    <3>3. Cardinality(S) = 1
        BY <3>2, FS_Singleton
    <3> QED BY <2>2, <3>3 DEF S
  <2>3. CASE events[e].kind # "EVENT_PASS"
    <3>1. S = {}
        BY <1>1, <2>1, <2>3 DEF PassesAssigned
    <3> HIDE DEF S
    <3>2. Cardinality(S) = 0
        BY <3>1, FS_EmptySet
    <3> QED BY <2>3, <3>2 DEF S
  <2> QED BY <2>2, <2>3
<1> QED BY <1>1, <1>2 DEF PassServesOneEvent, PassesAssigned

\* The cycle has room for the event that a step creates under the plan; of an event created
\* before the contract begins, nothing is asked.
LEMMA CycleStep ==
    ASSUME PassesIInv, [PassesNext]_passVars,
           Len(events') > Len(events), events'[Len(events')].kind = "SUBSCRIPTION"
    PROVE  Cardinality({e \in 1..Len(events') : /\ events'[e].kind = "SUBSCRIPTION"
                                               /\ events'[e].created >= CycleStart})
             <= EventLimit[plan]
<1>1. PassesRowsOK /\ events \in Seq(EventRow) /\ Len(events) \in Nat
    BY PassesTypes DEF PassesIInv
<1>2. PICK p \in Page : Browse(p)
  <2>1. ~(events' = events)
      BY <1>1
  <2>2. ASSUME NEW d \in Deposit, BuyPass(d) PROVE FALSE
      BY <2>1, <2>2 DEF BuyPass, InitiatePass, DepositReceived, InitiateAnswered, InitiateRejected,
           InitiateUncertain, DepositEnds, DayPasses
  <2>3. ASSUME NEW r \in Caller,
               CallStops(r) \/ Settle(r) \/ \E d \in Deposit : Reconcile(r, d)
        PROVE  FALSE
      BY <2>1, <2>3 DEF CallStops, Settle, Reconcile, CheckDeposit, NotFound, WriteUnfinished,
           WriteFailed, GrantPass, ExpireOverdue
  <2>4. ~Tick /\ ~ChangePlan /\ ~ActivateEnterprise /\ ~UNCHANGED passVars
      BY <2>1 DEF Tick, ChangePlan, ActivateEnterprise, passVars
  <2> QED BY <2>2, <2>3, <2>4 DEF PassesNext
<1>3. ~OpenNewEvent(p) /\ ~CreateRefused(p) /\ ~DeleteEvent(p)
  <2>1. DeleteEvent(p) => Len(events') = Len(events)
      BY <1>1 DEF DeleteEvent
  <2> QED BY <1>1, <2>1 DEF OpenNewEvent, CreateRefused
<1>4. ~CreateWithPass(p)
  <2> SUFFICES ASSUME CreateWithPass(p) PROVE FALSE
      OBVIOUS
  <2>1. events' = Append(events, NewEvent("EVENT_PASS")) /\ EventCreated(p)
      BY DEF CreateWithPass
  <2>2. events'[Len(events) + 1].kind = "EVENT_PASS" /\ Len(events') = Len(events) + 1
      BY <2>1, EventAdded
  <2> QED BY <2>2
<1>5. CreateWithPlan(p)
    BY <1>2, <1>3, <1>4 DEF Browse
<1>6. events' = Append(events, NewEvent("SUBSCRIPTION")) /\ EventCreated(p) /\ InCycle < EventLimit[plan]
    BY <1>5 DEF CreateWithPlan
<1>7. /\ Len(events') = Len(events) + 1
      /\ \A e \in 1..Len(events) : events'[e] = events[e]
      /\ \A e \in 1..Len(events') : e \in 1..Len(events) \/ e = Len(events) + 1
    BY <1>6, EventAdded
<1> DEFINE S == {e \in 1..Len(events) : events[e].kind = "SUBSCRIPTION" /\ events[e].created >= CycleStart}
           T == {e \in 1..Len(events') : events'[e].kind = "SUBSCRIPTION" /\ events'[e].created >= CycleStart}
<1>8. T \subseteq S \cup {Len(events) + 1} /\ S \subseteq 1..Len(events)
    BY <1>7
<1>9. InCycle = Cardinality(S)
    BY DEF InCycle
<1> HIDE DEF S, T
<1>10. IsFiniteSet(1..Len(events))
    BY <1>1, FS_Interval
<1>11. IsFiniteSet(S)
    BY <1>8, <1>10, FS_Subset
<1>12. /\ IsFiniteSet(S \cup {Len(events) + 1}) /\ Cardinality(S) \in Nat
       /\ Cardinality(S \cup {Len(events) + 1}) \in {Cardinality(S), Cardinality(S) + 1}
    BY <1>11, FS_AddElement, FS_CardinalityType
<1>13. /\ Cardinality(T) <= Cardinality(S \cup {Len(events) + 1}) /\ Cardinality(T) \in Nat
    BY <1>8, <1>12, FS_Subset, FS_CardinalityType
<1>14. EventLimit[plan] \in Nat
    BY PassesConstantsOK DEF PassesConstantsOK, PassesIInv, PassesTypeOK
<1>15. Cardinality(T) <= EventLimit[plan]
    BY <1>6, <1>9, <1>12, <1>13, <1>14
<1> QED BY <1>15 DEF T

\* The inductive invariant of what entitles an organization to its events.
THEOREM PassesInvariantHolds == PassesSpec => []PassesIInv
BY PassesInitInvariant, PassesNextInvariant, PTL DEF PassesSpec

\* For any number of payments, callers, pages and plans: a payment gives one pass and a pass was paid
\* for, it serves one event and runs out with it, and no event is created under a plan beyond
\* the quota of its cycle, once its contract has begun (reconcilePayment, withEventCreationQuota).
THEOREM EventsStayPaidFor == PassesSpec => EventsArePaidFor
<1>1. PassesIInv => PassesTypeOK /\ PassPaidOnce /\ PassServesOneEvent
    BY OnePassEach DEF PassesIInv
<1>2. PassesIInv /\ [PassesNext]_passVars => [CreatedWithinQuota]_passVars
    BY CycleStep DEF CreatedWithinQuota
<1> QED BY <1>1, <1>2, PassesInvariantHolds, PTL DEF PassesSpec, EventsArePaidFor, CycleWithinQuota
-----------------------------------------------------------------------------
(* Badges: the card that each of them shows *)

LEMMA BadgesInitInvariant == BadgesInit => BadgesIInv
<1> SUFFICES ASSUME BadgesInit PROVE BadgesIInv  OBVIOUS
<1> USE BadgeConstantsOK DEF BadgeConstantsOK, BadgesInit
<1>1. BadgesTypeOK
  BY DEF BadgesTypeOK, BlankRow, Rows, DesignCards
<1>2. Copies = {BlankRow(b) : b \in Badge}
  BY DEF Copies, ReadRows
<1>3. \A r \in Copies : r \in Rows /\ r.card = NoCopy /\ r.template = NoCopy /\ r.drawing = 0 /\ row[r.badge].drawing = 0
  BY <1>2 DEF BlankRow, Rows, DesignCards
<1>4. \A r \in Copies : CopySound(r)
  BY <1>3 DEF CopySound, OwnCard
<1>5. \A d \in Design : ~Resolvable(d)
  BY DEF Resolvable
<1>6. CardsInHandPublic
  BY DEF CardsInHandPublic, Draws
<1>7. \A r \in Copies : Kept(r) = PlainCard
  BY <1>3 DEF Kept
<1> QED BY <1>1, <1>4, <1>5, <1>6, <1>7 DEF BadgesIInv, SameCardUntilRedrawn

\* A row that was read is a row.
LEMMA CopiesAreRows == ASSUME BadgesTypeOK PROVE \A r \in Copies : r \in Rows /\ r.badge \in Badge
<1>1. \A b \in Badge : row[b] \in Rows
  BY DEF BadgesTypeOK
<1>2. \A s \in Staff : ReadRows(s) \subseteq Rows
  <2> TAKE s \in Staff
  <2>1. CASE errand[s] # NoErrand /\ errand[s].op = "PRINT"
    BY <2>1 DEF BadgesTypeOK, ReadRows, Errands
  <2> QED BY <2>1 DEF ReadRows
<1>3. \A r \in Copies : r \in Rows
  BY <1>1, <1>2 DEF Copies
<1> QED BY <1>3 DEF Rows

\* A step that writes no card and prints nothing.
LEMMA CardsUntouched ==
  ASSUME BadgesIInv, BadgesTypeOK', row' = row, printed' = printed, public \subseteq public',
         Copies' \subseteq Copies, CardsInHandPublic',
         \A d \in Design : (Resolvable(d) => Content(d) \in public)'
  PROVE  BadgesIInv'
<1>1. \A r \in Copies' : CopySound(r)'
  BY DEF BadgesIInv, CopySound, OwnCard
<1>2. \A r, q \in Copies' : r.badge = q.badge /\ r.drawing = q.drawing => Kept(r) = Kept(q)
  BY DEF BadgesIInv
<1>3. \A p \in printed' : PrintSound(p)'
  BY DEF BadgesIInv, PrintSound, OwnCard
<1>4. SameCardUntilRedrawn'
  BY DEF BadgesIInv, SameCardUntilRedrawn
<1> QED BY <1>1, <1>2, <1>3, <1>4 DEF BadgesIInv, Kept

\* The templates: what is published is kept.
LEMMA SetDesignKeeps ==
  ASSUME BadgesIInv, NEW d \in Design, NEW st \in {"DRAFT", "PUBLISHED", "ARCHIVED", "DELETED"}, NEW n \in Nat,
         SetDesign(d, st, n)
  PROVE  BadgesIInv'
<1>1. BadgesTypeOK
  BY DEF BadgesIInv
<1>2. public' \subseteq Own /\ public \subseteq public'
  BY <1>1 DEF SetDesign, BadgesTypeOK, Own
<1>3. design' \in [Design -> [status : {"DRAFT", "PUBLISHED", "ARCHIVED", "DELETED"}, revision : Nat]]
  BY <1>1 DEF SetDesign, BadgesTypeOK
<1>4. BadgesTypeOK'
  BY <1>1, <1>2, <1>3 DEF SetDesign, BadgesTypeOK
<1>5. Copies' = Copies /\ CardsInHandPublic'
  BY <1>2 DEF SetDesign, Copies, ReadRows, CardsInHandPublic, Draws, BadgesIInv
<1>6. \A e \in Design : (Resolvable(e) => Content(e) \in public)'
  BY <1>1, <1>2 DEF SetDesign, Resolvable, Content, BadgesIInv, BadgesTypeOK
<1> QED BY <1>2, <1>4, <1>5, <1>6, CardsUntouched DEF SetDesign

LEMMA DesignKeeps == ASSUME BadgesIInv, DesignNext PROVE BadgesIInv'
<1>1. BadgesTypeOK
  BY DEF BadgesIInv
<1>2. ASSUME NEW d \in Design, ModifyDesign(d) \/ PublishDesign(d) \/ ArchiveDesign(d) \/ RemoveDesign(d)
      PROVE  BadgesIInv'
  <2>1. design[d].status \in {"DRAFT", "PUBLISHED", "ARCHIVED", "DELETED"} /\ design[d].revision \in Nat
    BY <1>1 DEF BadgesTypeOK
  <2>2. design[d].revision + 1 \in Nat
    BY <2>1
  <2> QED BY <1>2, <2>1, <2>2, SetDesignKeeps DEF ModifyDesign, PublishDesign, ArchiveDesign, RemoveDesign
<1>3. CASE CapabilityChanges
  <2>1. BadgesTypeOK'
    BY <1>1, <1>3 DEF CapabilityChanges, BadgesTypeOK
  <2>2. Copies' = Copies /\ CardsInHandPublic' /\ \A e \in Design : (Resolvable(e) => Content(e) \in public)'
    BY <1>3 DEF CapabilityChanges, Copies, ReadRows, CardsInHandPublic, Draws, Resolvable, Content, BadgesIInv
  <2> QED BY <1>3, <2>1, <2>2, CardsUntouched DEF CapabilityChanges
<1> QED BY <1>2, <1>3 DEF DesignNext

\* What a request notes: a drawing whose card is published, rows that are kept, or nothing.
LEMMA ErrandKeeps ==
  ASSUME BadgesIInv, NEW s \in Staff, NEW e \in Errands \cup {NoErrand}, Send(s, e),
         UNCHANGED <<designVars, row, printed>>,
         e # NoErrand /\ e.op = "PRINT" => e.rows \subseteq Copies,
         e # NoErrand /\ e.op \in {"ISSUE", "REDRAW"} /\ OwnCard(e.card) => e.card \in public
  PROVE  BadgesIInv'
<1>1. BadgesTypeOK
  BY DEF BadgesIInv
<1>2. errand' = [errand EXCEPT ![s] = e] /\ errand \in [Staff -> Errands \cup {NoErrand}]
  BY <1>1 DEF Send, BadgesTypeOK
<1>3. errand' \in [Staff -> Errands \cup {NoErrand}] /\ errand'[s] = e /\ \A t \in Staff \ {s} : errand'[t] = errand[t]
  BY <1>2
<1>4. BadgesTypeOK'
  BY <1>1, <1>3 DEF BadgesTypeOK, designVars
<1>5. \A t \in Staff : ReadRows(t)' \subseteq Copies
  BY <1>3 DEF ReadRows, Copies
<1>6. Copies' \subseteq Copies
  BY <1>5 DEF Copies
<1>7. CardsInHandPublic'
  BY <1>3 DEF CardsInHandPublic, BadgesIInv, Draws, designVars, OwnCard
<1>8. \A d \in Design : (Resolvable(d) => Content(d) \in public)'
  BY DEF BadgesIInv, Resolvable, Content, designVars
<1> QED BY <1>4, <1>6, <1>7, <1>8, CardsUntouched DEF designVars

LEMMA AskKeeps ==
  ASSUME BadgesIInv, NEW s \in Staff, NEW b \in Badge, AskIssue(s, b) \/ AskRedraw(s, b)
  PROVE  BadgesIInv'
<1> USE BadgeConstantsOK DEF BadgeConstantsOK
<1>1. PICK o \in {"ISSUE", "REDRAW"} :
        /\ Send(s, [op |-> o, badge |-> b, allowed |-> capable, card |-> NoCopy])
        /\ UNCHANGED <<designVars, row, printed>>
  BY DEF AskIssue, AskRedraw
<1> DEFINE e == [op |-> o, badge |-> b, allowed |-> capable, card |-> NoCopy]
<1>2. e \in Errands /\ e.op # "PRINT" /\ ~OwnCard(e.card)
  BY DEF BadgesIInv, BadgesTypeOK, Errands, OwnCard
<1> HIDE DEF e
<1> QED BY <1>1, <1>2, ErrandKeeps DEF e

\* A drawing is in hand with a card: the same request, the card noted.
LEMMA CardNoted ==
  ASSUME BadgesIInv, NEW s \in Staff, Draws(s), NEW c \in DesignCards, OwnCard(c) => c \in public,
         errand' = [errand EXCEPT ![s].card = c], UNCHANGED <<designVars, row, printed>>
  PROVE  BadgesIInv'
<1> DEFINE e == [errand[s] EXCEPT !.card = c]
<1>1. errand[s] \in [op : {"ISSUE", "REDRAW"}, badge : Badge, allowed : BOOLEAN, card : DesignCards \cup {NoCopy}]
  BY DEF BadgesIInv, BadgesTypeOK, Errands, Draws
<1>2. e \in Errands /\ e.op # "PRINT" /\ e.card = c
  BY <1>1 DEF Errands
<1>3. Send(s, e)
  BY DEF Send
<1> HIDE DEF e
<1> QED BY <1>2, <1>3, ErrandKeeps

LEMMA ResolveCardKeeps == ASSUME BadgesIInv, NEW s \in Staff, ResolveCard(s) PROVE BadgesIInv'
<1> USE BadgeConstantsOK DEF BadgeConstantsOK
<1>1. PICK c \in {PlainCard} \cup {Content(d) : d \in {e \in Design : errand[s].allowed /\ Resolvable(e)}} :
        errand' = [errand EXCEPT ![s].card = c]
  BY DEF ResolveCard
<1>2. c \in DesignCards
  BY <1>1 DEF Content, DesignCards, Own, BadgesIInv, BadgesTypeOK
<1>3. OwnCard(c) => c \in public
  BY <1>1 DEF OwnCard, PlainCard, BadgesIInv
<1> QED BY <1>1, <1>2, <1>3, CardNoted DEF ResolveCard

LEMMA KeepCardKeeps == ASSUME BadgesIInv, NEW s \in Staff, KeepCard(s) PROVE BadgesIInv'
<1> DEFINE b == errand[s].badge
           c == row[b].card
<1>1. b \in Badge
  BY DEF BadgesIInv, BadgesTypeOK, Errands, KeepCard, Draws
<1>2. row[b] \in Copies /\ row[b] \in Rows
  BY <1>1 DEF Copies, BadgesIInv, BadgesTypeOK
<1>3. c \in DesignCards /\ (OwnCard(c) => c \in public)
  BY <1>2 DEF KeepCard, Rows, BadgesIInv, CopySound
<1>4. errand' = [errand EXCEPT ![s].card = c] /\ Draws(s) /\ UNCHANGED <<designVars, row, printed>>
  BY DEF KeepCard
<1> HIDE DEF b, c
<1> QED BY <1>3, <1>4, CardNoted

LEMMA ErrandStopsKeeps == ASSUME BadgesIInv, NEW s \in Staff, ErrandStops(s) PROVE BadgesIInv'
BY ErrandKeeps DEF ErrandStops

LEMMA ReadBadgesKeeps == ASSUME BadgesIInv, NEW s \in Staff, ReadBadges(s) PROVE BadgesIInv'
<1>1. PICK rows \in SUBSET IssuedRows : Send(s, [op |-> "PRINT", rows |-> rows])
  BY DEF ReadBadges
<1> DEFINE e == [op |-> "PRINT", rows |-> rows]
<1>2. rows \subseteq Copies
  BY DEF IssuedRows, Copies
<1>3. e \in Errands /\ e.op = "PRINT" /\ e.rows = rows
  BY <1>2, CopiesAreRows DEF Errands, BadgesIInv
<1> HIDE DEF e
<1> QED BY <1>1, <1>2, <1>3, ErrandKeeps DEF ReadBadges, e

\* The row is replaced by one that is newer than every row that was read and every badge
\* that was printed.
LEMMA WriteCardKeeps == ASSUME BadgesIInv, NEW s \in Staff, WriteCard(s) PROVE BadgesIInv'
<1> USE BadgeConstantsOK DEF BadgeConstantsOK
<1> DEFINE b == errand[s].badge
           c == errand[s].card
           new == Drawn(b, c)
<1>1. BadgesTypeOK
  BY DEF BadgesIInv
<1>2. b \in Badge /\ c \in DesignCards \cup {NoCopy}
  BY <1>1 DEF BadgesTypeOK, Errands, WriteCard, Draws
<1>3. row' = [row EXCEPT ![b] = new] /\ Send(s, NoErrand) /\ UNCHANGED <<designVars, printed>>
  BY DEF WriteCard
<1>4. row[b] \in Rows /\ row[b].drawing \in Nat
  BY <1>1, <1>2 DEF BadgesTypeOK, Rows
<1>5. (c # NoCopy => c.of \in Design \cup {BuiltIn})
  BY <1>2 DEF DesignCards, Own, PlainCard
<1>6. /\ new \in Rows /\ new.badge = b /\ new.card = c /\ new.drawing = row[b].drawing + 1
      /\ c = NoCopy => new.template = NoCopy
  BY <1>2, <1>4, <1>5 DEF Drawn, Rows
<1>7. OwnCard(c) => c \in public
  BY <1>1 DEF BadgesIInv, CardsInHandPublic, WriteCard
<1> HIDE DEF new, c, b
<1>8. /\ row' \in [Badge -> Rows] /\ row'[b] = new
      /\ \A a \in Badge \ {b} : row'[a] = row[a]
  BY <1>1, <1>2, <1>3, <1>6 DEF BadgesTypeOK
<1>9. errand' \in [Staff -> Errands \cup {NoErrand}] /\ \A t \in Staff : errand'[t] \in {errand[t], NoErrand}
  BY <1>1, <1>3 DEF BadgesTypeOK, Send
<1>10. BadgesTypeOK'
  BY <1>1, <1>3, <1>6, <1>8, <1>9 DEF BadgesTypeOK, designVars
<1>11. Copies' \subseteq Copies \cup {new}
  <2>1. \A t \in Staff : ReadRows(t)' \subseteq ReadRows(t)
    BY <1>9 DEF ReadRows
  <2>2. \A a \in Badge : row'[a] \in Copies \cup {new}
    BY <1>2, <1>8 DEF Copies
  <2> QED BY <2>1, <2>2 DEF Copies
<1>12. \A r \in Copies : r \in Rows /\ r.badge \in Badge /\ r.drawing \in Nat /\ r.drawing <= row[r.badge].drawing
  BY <1>1, CopiesAreRows DEF BadgesIInv, CopySound, Rows
<1>13. \A a \in Badge : row[a].drawing \in Nat /\ row'[a].drawing \in Nat /\ row[a].drawing <= row'[a].drawing
  BY <1>1, <1>6, <1>8, <1>10 DEF BadgesTypeOK, Rows
<1>14. \A r \in Copies : r.drawing <= row'[r.badge].drawing /\ (r.badge = b => r.drawing < new.drawing)
  BY <1>6, <1>12, <1>13
<1>15. \A r \in Copies' : CopySound(r)'
  <2>1. \A r \in Copies : CopySound(r)'
    BY <1>3, <1>14 DEF CopySound, OwnCard, BadgesIInv, designVars
  <2>2. \A r \in {new} : CopySound(r)'
    BY <1>3, <1>6, <1>7, <1>8, <1>4 DEF CopySound, OwnCard, designVars
  <2> QED BY <1>11, <2>1, <2>2
<1>16. \A r, q \in Copies' : r.badge = q.badge /\ r.drawing = q.drawing => Kept(r) = Kept(q)
  BY <1>6, <1>11, <1>12, <1>14 DEF BadgesIInv
<1>17. CardsInHandPublic'
  BY <1>3, <1>9 DEF CardsInHandPublic, BadgesIInv, Draws, OwnCard, designVars
<1>18. \A p \in printed : p.badge \in Badge /\ p.drawing \in Nat /\ p.drawing <= row[p.badge].drawing
  BY <1>1 DEF BadgesTypeOK, BadgesIInv, PrintSound
<1>19. \A p \in printed : p.drawing <= row'[p.badge].drawing /\ (p.badge = b => p.drawing < new.drawing)
  BY <1>4, <1>6, <1>13, <1>18
<1>20. \A p \in printed' : PrintSound(p)'
  <2>1. \A p \in printed, r \in Copies' : p.badge = r.badge /\ p.drawing = r.drawing => p.shows = Kept(r)
    BY <1>6, <1>11, <1>18, <1>19 DEF BadgesIInv, PrintSound
  <2> QED BY <1>3, <1>19, <2>1 DEF PrintSound, BadgesIInv, OwnCard, designVars, Kept
<1>21. \A d \in Design : (Resolvable(d) => Content(d) \in public)'
  BY <1>3 DEF BadgesIInv, Resolvable, Content, designVars
<1>22. SameCardUntilRedrawn'
  BY <1>3 DEF BadgesIInv, SameCardUntilRedrawn
<1> QED BY <1>10, <1>15, <1>16, <1>17, <1>20, <1>21, <1>22 DEF BadgesIInv, Kept

\* What a sound row shows does not depend on the templates.
LEMMA StoredIsKept == ASSUME BadgesIInv, NEW r \in Copies PROVE Stored(r) = Kept(r)
BY DEF BadgesIInv, CopySound, Stored, Kept

\* Rows that are kept or were read are printed.
LEMMA PrintingKeeps ==
  ASSUME BadgesIInv, NEW rows \in SUBSET Copies, printed' = printed \cup {PrintOf(r) : r \in rows},
         UNCHANGED <<designVars, row>>, BadgesTypeOK', Copies' \subseteq Copies, CardsInHandPublic'
  PROVE  BadgesIInv'
<1>1. \A p \in printed' \ printed : \E r \in rows :
        p.badge = r.badge /\ p.drawing = r.drawing /\ p.shows = Kept(r)
  BY StoredIsKept DEF PrintOf
<1>2. \A p \in printed' : PrintSound(p)
  <2>1. \A p \in printed : PrintSound(p)
    BY DEF BadgesIInv
  <2>2. ASSUME NEW p \in printed' \ printed PROVE PrintSound(p)
    <3>1. PICK r \in rows : p.badge = r.badge /\ p.drawing = r.drawing /\ p.shows = Kept(r)
      BY <1>1
    <3>2. CopySound(r) /\ (OwnCard(Kept(r)) => Kept(r) \in public)
      BY BadgeConstantsOK DEF BadgesIInv, CopySound, Kept, OwnCard, PlainCard, BadgeConstantsOK
    <3>3. \A q \in Copies : p.badge = q.badge /\ p.drawing = q.drawing => p.shows = Kept(q)
      BY <3>1 DEF BadgesIInv
    <3> QED BY <3>1, <3>2, <3>3 DEF PrintSound, CopySound
  <2> QED BY <2>1, <2>2
<1>3. \A p \in printed' : PrintSound(p)'
  BY <1>2 DEF PrintSound, OwnCard, Kept, designVars
<1>4. SameCardUntilRedrawn'
  <2>1. \A p \in printed', q \in printed : p.badge = q.badge /\ p.drawing = q.drawing => p.shows = q.shows
    BY <1>1, <1>2 DEF BadgesIInv, SameCardUntilRedrawn, PrintSound
  <2>2. \A p, q \in printed' \ printed : p.badge = q.badge /\ p.drawing = q.drawing => p.shows = q.shows
    BY <1>1 DEF BadgesIInv
  <2> QED BY <2>1, <2>2 DEF SameCardUntilRedrawn
<1>5. \A r \in Copies' : CopySound(r)'
  BY DEF BadgesIInv, CopySound, OwnCard, designVars
<1>6. \A d \in Design : (Resolvable(d) => Content(d) \in public)'
  BY DEF BadgesIInv, Resolvable, Content, designVars
<1> QED BY <1>3, <1>4, <1>5, <1>6 DEF BadgesIInv, Kept

\* What is printed is a card.
LEMMA PrintsAreCards ==
  ASSUME BadgesIInv, NEW r \in Copies
  PROVE  PrintOf(r) \in [badge : Badge, drawing : Nat, shows : DesignCards]
<1>1. r \in Rows
  BY CopiesAreRows DEF BadgesIInv
<1>2. Kept(r) \in DesignCards
  BY <1>1 DEF Kept, Rows, DesignCards
<1> QED BY <1>1, <1>2, StoredIsKept DEF PrintOf, Rows

LEMMA PrintBadgesKeeps == ASSUME BadgesIInv, NEW s \in Staff, PrintBadges(s) PROVE BadgesIInv'
<1>1. ReadRows(s) \subseteq Copies /\ ReadRows(s) = errand[s].rows
  BY DEF Copies, ReadRows, PrintBadges
<1>2. printed' = printed \cup {PrintOf(r) : r \in ReadRows(s)} /\ UNCHANGED <<designVars, row>>
  BY <1>1 DEF PrintBadges
<1>3. errand' \in [Staff -> Errands \cup {NoErrand}] /\ \A t \in Staff : errand'[t] \in {errand[t], NoErrand}
  BY DEF BadgesIInv, BadgesTypeOK, Send, PrintBadges
<1>4. BadgesTypeOK'
  <2>1. printed' \subseteq [badge : Badge, drawing : Nat, shows : DesignCards]
    BY <1>1, <1>2, PrintsAreCards DEF BadgesIInv, BadgesTypeOK
  <2> QED BY <1>2, <1>3, <2>1 DEF BadgesIInv, BadgesTypeOK, designVars
<1>5. Copies' \subseteq Copies
  <2>1. \A t \in Staff : ReadRows(t)' \subseteq ReadRows(t)
    BY <1>3 DEF ReadRows
  <2> QED BY <1>2, <2>1 DEF Copies
<1>6. CardsInHandPublic'
  BY <1>2, <1>3 DEF CardsInHandPublic, BadgesIInv, Draws, OwnCard, designVars
<1> QED BY <1>1, <1>2, <1>4, <1>5, <1>6, PrintingKeeps

LEMMA HolderPrintsKeeps == ASSUME BadgesIInv, NEW b \in Badge, HolderPrints(b) PROVE BadgesIInv'
<1>1. {row[b]} \in SUBSET Copies /\ row[b] \in Copies
  BY DEF Copies
<1>2. printed' = printed \cup {PrintOf(r) : r \in {row[b]}} /\ UNCHANGED <<designVars, row, errand>>
  BY DEF HolderPrints
<1>3. BadgesTypeOK'
  <2>1. printed' \subseteq [badge : Badge, drawing : Nat, shows : DesignCards]
    BY <1>1, <1>2, PrintsAreCards DEF BadgesIInv, BadgesTypeOK
  <2> QED BY <1>2, <2>1 DEF BadgesIInv, BadgesTypeOK, designVars
<1>4. Copies' = Copies /\ CardsInHandPublic'
  BY <1>2 DEF Copies, ReadRows, CardsInHandPublic, BadgesIInv, Draws, OwnCard, designVars
<1> QED BY <1>1, <1>2, <1>3, <1>4, PrintingKeeps

LEMMA BadgesStillKeep == ASSUME BadgesIInv, UNCHANGED badgeVars PROVE BadgesIInv'
<1>1. BadgesTypeOK'
  BY DEF BadgesIInv, BadgesTypeOK, badgeVars, designVars
<1>2. Copies' = Copies /\ CardsInHandPublic' /\ \A d \in Design : (Resolvable(d) => Content(d) \in public)'
  BY DEF Copies, ReadRows, CardsInHandPublic, BadgesIInv, Draws, OwnCard, Resolvable, Content, designVars, badgeVars
<1> QED BY <1>1, <1>2, CardsUntouched DEF badgeVars, designVars

LEMMA BadgesNextInvariant == BadgesIInv /\ [BadgesNext]_badgeVars => BadgesIInv'
<1> SUFFICES ASSUME BadgesIInv, [BadgesNext]_badgeVars PROVE BadgesIInv'  OBVIOUS
<1>1. CASE DesignNext
  BY <1>1, DesignKeeps
<1>2. ASSUME NEW s \in Staff, DrawNext(s) PROVE BadgesIInv'
  BY <1>2, AskKeeps, ResolveCardKeeps, KeepCardKeeps, WriteCardKeeps DEF DrawNext
<1>3. CASE PrintNext
  BY <1>3, ReadBadgesKeeps, PrintBadgesKeeps, ErrandStopsKeeps DEF PrintNext
<1>4. ASSUME NEW b \in Badge, HolderPrints(b) PROVE BadgesIInv'
  BY <1>4, HolderPrintsKeeps
<1>5. CASE UNCHANGED badgeVars
  BY <1>5, BadgesStillKeep
<1> QED BY <1>1, <1>2, <1>3, <1>4, <1>5 DEF BadgesNext

\* For any number of QR codes, templates and requests: a badge shows the card that it was drawn
\* with until it is drawn again, that card was published, and it is never lost, whatever
\* becomes of the template (createTemplateSnapshot, resolveStoredCardTemplate).
THEOREM BadgesAlwaysHold == BadgesSpec => []BadgesHold
<1>1. BadgesIInv => BadgesHold
  <2> SUFFICES ASSUME BadgesIInv PROVE BadgesHold  OBVIOUS
  <2>1. OnlyPublicCards
    BY DEF BadgesIInv, OnlyPublicCards, PrintSound
  <2>2. \A b \in Badge : row[b] \in Copies /\ Kept(row[b]) \in DesignCards
    BY DEF Copies, Kept, BadgesIInv, BadgesTypeOK, Rows, DesignCards
  <2>3. CardsAreKept
    BY <2>2, StoredIsKept, BadgeConstantsOK DEF CardsAreKept, BadgeConstantsOK
  <2> QED BY <2>1, <2>3 DEF BadgesHold, BadgesIInv
<1> QED BY <1>1, BadgesInitInvariant, BadgesNextInvariant, PTL DEF BadgesSpec
=============================================================================
