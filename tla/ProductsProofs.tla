--------------------------- MODULE ProductsProofs ---------------------------
(***************************************************************************)
(* Proofs about Products, for any tables the constraints allow and any     *)
(* number of requests, forms, filters, pages and seconds: the tables keep  *)
(* their constraints, images are in S3, what was saved is whole, and what  *)
(* Redis holds is what the queries would answer.                           *)
(*                                                                         *)
(* No query is looked into, but for the rows of a category's page, which   *)
(* are put together over several statements: what a reader has read is an  *)
(* answer until a write comes, which the model records.                    *)
(***************************************************************************)
EXTENDS Products, FiniteSetTheorems, SequenceTheorems,
        WellFoundedInduction, TLAPS

(* The tables.                                                             *)

\* A set of numbers that is not empty has a least one.
LEMMA LeastNumber ==
    ASSUME NEW S \in SUBSET Nat, S # {}
    PROVE  \E m \in S : \A y \in S : m <= y
  <1>1. PICK m \in S : \A y \in S : ~(<<y, m>> \in OpToRel(<, Nat))
    BY WFMin, NatLessThanWellFounded
  <1>2. \A y \in S : ~(y < m)
    BY <1>1, Zenon DEF OpToRel
  <1> QED BY <1>2

\* And a list of numbers has a greatest one.
LEMMA GreatestNumber ==
    ASSUME NEW n \in Nat \ {0}, NEW f \in [1..n -> Nat]
    PROVE  \E k \in 1..n : \A j \in 1..n : f[j] <= f[k]
  <1> DEFINE Has(m) == \E k \in 1..m : \A j \in 1..m : f[j] <= f[k]
             S == {m \in 1..n : ~Has(m)}
  <1>1. SUFFICES ASSUME S # {} PROVE FALSE
    <2>1. n \in 1..n
      OBVIOUS
    <2> QED BY <2>1
  <1>2. PICK m \in S : \A y \in S : m <= y
    <2>1. S \in SUBSET Nat
      OBVIOUS
    <2> HIDE DEF S
    <2> QED BY <1>1, <2>1, LeastNumber
  <1>3. CASE m = 1
    BY <1>2, <1>3
  <1>4. CASE m # 1
    <2>0. m \in Nat /\ m \in 1..n /\ ~Has(m)
      BY <1>2
    <2>1. m - 1 \in 1..n /\ m - 1 \notin S
      <3>1. m - 1 \in 1..n /\ ~(m <= m - 1)
        BY <2>0, <1>4
      <3> HIDE DEF S
      <3> QED BY <1>2, <3>1
    <2>2. PICK k \in 1..(m - 1) : \A j \in 1..(m - 1) : f[j] <= f[k]
      BY <2>1
    <2>3. f[m] \in Nat /\ f[k] \in Nat /\ \A j \in 1..m : f[j] \in Nat
      BY <1>2, <2>1, <2>2
    <2>4. \A j \in 1..m : j \in 1..(m - 1) \/ j = m
      BY <2>1
    <2>5. CASE f[m] <= f[k]
      <3>1. \A j \in 1..m : f[j] <= f[k]
        BY <2>2, <2>4, <2>5
      <3>2. k \in 1..m
        BY <2>0, <2>2
      <3> QED BY <2>0, <3>1, <3>2
    <2>6. CASE f[k] <= f[m]
      <3>1. \A j \in 1..m : f[j] <= f[m]
        BY <2>2, <2>3, <2>4, <2>6
      <3>2. m \in 1..m
        BY <2>0
      <3> QED BY <2>0, <3>1, <3>2
    <2> QED BY <2>3, <2>5, <2>6
  <1> QED BY <1>3, <1>4

\* Finitely many counters leave one of the first free.
LEMMA OneIsFree ==
    ASSUME NEW S \in SUBSET Nat, IsFiniteSet(S)
    PROVE  0..Cardinality(S) \ S # {}
  <1>1. Cardinality(S) \in Nat
    BY FS_CardinalityType
  <1>2. Cardinality(0..Cardinality(S)) = Cardinality(S) + 1
    BY <1>1, FS_Interval
  <1> QED BY <1>1, <1>2, FS_Subset

Columns(rows, of, items, images, specs, attrs, rate) ==
    [rows |-> rows, of |-> of, items |-> items, images |-> images,
     specs |-> specs, attrs |-> attrs, rate |-> rate]

IsRecord(u) == u = Columns(u.rows, u.of, u.items, u.images, u.specs, u.attrs,
                           u.rate)

\* A statement that writes a column leaves the others.
LEMMA WritesItems ==
    ASSUME NEW u, IsRecord(u), NEW x, NEW v, v = [u EXCEPT !.items = x]
    PROVE  v = Columns(u.rows, u.of, x, u.images, u.specs, u.attrs, u.rate)
  BY DEF IsRecord, Columns

LEMMA WritesOf ==
    ASSUME NEW u, IsRecord(u), NEW x, NEW v, v = [u EXCEPT !.of = x]
    PROVE  v = Columns(u.rows, x, u.items, u.images, u.specs, u.attrs, u.rate)
  BY DEF IsRecord, Columns

LEMMA WritesImages ==
    ASSUME NEW u, IsRecord(u), NEW x, NEW v, v = [u EXCEPT !.images = x]
    PROVE  v = Columns(u.rows, u.of, u.items, x, u.specs, u.attrs, u.rate)
  BY DEF IsRecord, Columns

LEMMA WritesSpecs ==
    ASSUME NEW u, IsRecord(u), NEW x, NEW v, v = [u EXCEPT !.specs = x]
    PROVE  v = Columns(u.rows, u.of, u.items, u.images, x, u.attrs, u.rate)
  BY DEF IsRecord, Columns

LEMMA WritesRate ==
    ASSUME NEW u, IsRecord(u), NEW x, NEW v, v = [u EXCEPT !.rate = x]
    PROVE  v = Columns(u.rows, u.of, u.items, u.images, u.specs, u.attrs, x)
  BY DEF IsRecord, Columns

LEMMA ColumnsAre ==
    ASSUME NEW rows, NEW of, NEW items, NEW images, NEW specs, NEW attrs,
           NEW rate, NEW u,
           u = Columns(rows, of, items, images, specs, attrs, rate)
    PROVE  /\ IsRecord(u)
           /\ u.rows = rows /\ u.of = of /\ u.items = items
           /\ u.images = images /\ u.specs = specs /\ u.attrs = attrs
           /\ u.rate = rate
  BY DEF IsRecord, Columns

\* The tables are a record of functions.
LEMMA CatalogueShape ==
    ASSUME NEW u, IsCatalogue(u)
    PROVE  /\ IsRecord(u)
           /\ u.of \in [Products -> Categories \union {None}]
           /\ u.items \in [Products -> Item \union {None}]
           /\ u.images \in [Products -> Seq(Image)]
           /\ u.specs \in [Products -> SUBSET Specs]
           /\ u.rate \in (Nat \ {0}) \union {None}
           /\ \A p \in Live(u) : u.items[p] \in Item
  BY DEF IsCatalogue, Live, Columns, IsRecord

\* The slug is that of the name, and nobody has it.
LEMMA SlugIsNew ==
    ASSUME NEW u, IsCatalogue(u), NEW name \in Titles
    PROVE  /\ generate_slug(u, name) \in Titles \X Nat
           /\ generate_slug(u, name)[1] = name
           /\ \A p \in Live(u) : u.items[p].slug # generate_slug(u, name)
  <1> DEFINE has == {q \in Live(u) : u.items[q].slug[1] = name}
             taken == {u.items[p].slug[2] : p \in has}
             free == 0..Cardinality(taken) \ taken
             number == [p \in has |-> u.items[p].slug[2]]
  <1>1. \A p \in Live(u) : u.items[p].slug \in Titles \X Nat
    BY CatalogueShape DEF Item
  <1>2. taken \subseteq Nat
    BY <1>1
  <1>3. IsFiniteSet(taken)
    <2>1. IsFiniteSet(has)
      BY FS_Subset, CatalogueAssumption DEF Live
    <2>2. number \in Surjection(has, taken)
      <3>1. \A p \in has : u.items[p].slug[2] \in taken
        OBVIOUS
      <3>2. \A n \in taken : \E p \in has : number[p] = n
        OBVIOUS
      <3> QED BY <3>1, <3>2 DEF Surjection
    <2> QED BY <2>1, <2>2, FS_Surjection
  <1>4. \E n \in free : \A m \in free : n <= m
    <2>1. free \in SUBSET Nat
      <3>1. 0..Cardinality(taken) \subseteq Nat
        OBVIOUS
      <3> QED BY <3>1
    <2>2. free # {}
      BY <1>2, <1>3, OneIsFree
    <2> HIDE DEF free
    <2> QED BY <2>1, <2>2, LeastNumber
  <1> DEFINE n == CHOOSE n \in free : \A m \in free : n <= m
  <1>5. n \in free
    BY <1>4
  <1>6. generate_slug(u, name) = <<name, n>>
    BY DEF generate_slug
  <1>7. ASSUME NEW p \in Live(u), u.items[p].slug = <<name, n>>
        PROVE  FALSE
    <2> HIDE DEF n
    <2>1. u.items[p].slug[1] = name /\ u.items[p].slug[2] = n
      BY <1>7
    <2>2. n \in taken
      BY <2>1
    <2> QED BY <1>5, <2>2
  <1>8. n \in Nat
    <2>1. 0..Cardinality(taken) \subseteq Nat
      OBVIOUS
    <2> QED BY <1>5, <2>1
  <1> HIDE DEF n
  <1> QED BY <1>6, <1>7, <1>8


LEMMA CreateKeeps ==
    ASSUME NEW u, IsCatalogue(u), NEW r \in Products, NEW f \in Forms,
           MayCreate(u, f), NEW now \in Nat
    PROVE  /\ IsCatalogue(CreateProduct(u, r, f, now))
           /\ CreateProduct(u, r, f, now).items[r] # None
           /\ \A p \in Products \ {r} :
                 CreateProduct(u, r, f, now).items[p] = u.items[p]
           /\ CreateProduct(u, r, f, now).images = u.images
           /\ CreateProduct(u, r, f, now).specs = u.specs
           /\ CreateProduct(u, r, f, now).rate = u.rate
  <1> DEFINE row == [name |-> f.name, slug |-> generate_slug(u, f.name),
                     usd |-> f.price \div Rate(u), status |-> f.status,
                     at |-> now]
             v == CreateProduct(u, r, f, now)
  <1>1. /\ f.name \in Titles /\ f.status \in Statuses /\ f.price \in Nat
        /\ f.category \in Stored(u)
    BY ProductsAssumption, CatalogueAssumption DEF MayCreate
  <1>2. Rate(u) \in Nat \ {0}
    BY CatalogueShape, CatalogueAssumption DEF Rate
  <1>3. f.price \div Rate(u) \in Nat
    BY <1>1, <1>2
  <1>4. row \in Item /\ row.slug[1] = row.name /\ row.name = f.name
        /\ \A p \in Live(u) : u.items[p].slug # row.slug
    BY <1>1, <1>3, SlugIsNew DEF Item
  <1> HIDE DEF row
  <1> DEFINE items == [u.items EXCEPT ![r] = row]
             of == [u.of EXCEPT ![r] = f.category]
             w == [u EXCEPT !.items = items]
  <1>5. v = Columns(u.rows, of, items, u.images, u.specs, u.attrs, u.rate)
    <2>1. w = Columns(u.rows, u.of, items, u.images, u.specs, u.attrs, u.rate)
      BY CatalogueShape, WritesItems
    <2>2. v = [[u EXCEPT !.items[r] = row] EXCEPT !.of[r] = f.category]
      BY DEF CreateProduct, row
    <2>3. [u EXCEPT !.items[r] = row] = w
      OBVIOUS
    <2> HIDE DEF w, v
    <2> HIDE DEF items
    <2>4. /\ w.of = u.of /\ IsRecord(w) /\ w.rows = u.rows /\ w.items = items
          /\ w.images = u.images /\ w.specs = u.specs /\ w.attrs = u.attrs
          /\ w.rate = u.rate
      BY <2>1, ColumnsAre
    <2>5. v = [w EXCEPT !.of = of]
      BY <2>2, <2>3, <2>4
    <2> HIDE DEF of
    <2> QED BY <2>4, <2>5, WritesOf
  <1>6. /\ v.items[r] = row /\ v.of[r] = f.category
        /\ \A p \in Products \ {r} : /\ v.items[p] = u.items[p]
                                     /\ v.of[p] = u.of[p]
        /\ v.items \in [Products -> Item \union {None}]
        /\ v.of \in [Products -> Categories \union {None}]
        /\ Stored(v) = Stored(u) /\ v.images = u.images /\ v.specs = u.specs
        /\ v.rate = u.rate
    BY <1>1, <1>4, <1>5, CatalogueShape DEF Stored, Columns
  <1>7. row # None /\ Live(v) = Live(u) \union {r}
    BY <1>4, <1>6, ProductsAssumption DEF Live
  <1>8. v \in [rows : [Categories -> Row \union {None}],
              of : [Products -> Categories \union {None}],
              items : [Products -> Item \union {None}],
              images : [Products -> Seq(Image)],
              specs : [Products -> SUBSET Specs],
              attrs : BOOLEAN,
              rate : (Nat \ {0}) \union {None}]
    BY <1>5, <1>6 DEF IsCatalogue, Columns
  <1> HIDE DEF v
  <1>9. \A p \in Live(v) : /\ v.items[p].slug[1] = v.items[p].name
                           /\ v.of[p] \in Stored(v) \union {None}
    BY <1>1, <1>4, <1>6, <1>7 DEF IsCatalogue, Live
  <1>10. \A p, q \in Live(v) :
          \/ p = q
          \/ /\ v.items[p].slug # v.items[q].slug
             /\ \/ v.items[p].name # v.items[q].name
                \/ v.of[p] # v.of[q]
                \/ v.of[p] = None
    <2>1. \A p \in Live(u) : u.items[p].name = f.name => u.of[p] # f.category
      BY DEF MayCreate
    <2>2. \A p, q \in Live(u) :
          \/ p = q
          \/ /\ u.items[p].slug # u.items[q].slug
             /\ \/ u.items[p].name # u.items[q].name
                \/ u.of[p] # u.of[q]
                \/ u.of[p] = None
      BY DEF IsCatalogue
    <2>3. SUFFICES ASSUME NEW p \in Live(v), NEW q \in Live(v), p # q
                   PROVE  /\ v.items[p].slug # v.items[q].slug
                          /\ \/ v.items[p].name # v.items[q].name
                             \/ v.of[p] # v.of[q]
                             \/ v.of[p] = None
      OBVIOUS
    <2>4. p \in Products /\ q \in Products
      BY DEF Live
    <2>5. CASE p = r
      BY <1>4, <1>6, <1>7, <2>1, <2>3, <2>4, <2>5
    <2>6. CASE q = r
      BY <1>4, <1>6, <1>7, <2>1, <2>3, <2>4, <2>6
    <2>7. CASE p # r /\ q # r
      BY <1>6, <1>7, <2>2, <2>3, <2>4, <2>7
    <2> QED BY <2>5, <2>6, <2>7
  <1>11. \A p \in Products \ Live(v) :
            v.of[p] = None /\ v.images[p] = <<>> /\ v.specs[p] = {}
    BY <1>6, <1>7 DEF IsCatalogue
  <1>12. IsCatalogue(v)
    BY <1>8, <1>9, <1>10, <1>11 DEF IsCatalogue
  <1> QED BY <1>4, <1>6, <1>7, <1>12 DEF v

\* A statement that writes neither the products nor their categories keeps the
\* constraints, if what it writes has its type and goes with a product.
LEMMA OthersKeep ==
    ASSUME NEW u, IsCatalogue(u),
           NEW images \in [Products -> Seq(Image)],
           NEW specs \in [Products -> SUBSET Specs],
           NEW rate \in (Nat \ {0}) \union {None},
           \A p \in Products \ Live(u) : images[p] = <<>> /\ specs[p] = {}
    PROVE  IsCatalogue(Columns(u.rows, u.of, u.items, images, specs, u.attrs,
                               rate))
  <1> DEFINE v == Columns(u.rows, u.of, u.items, images, specs, u.attrs, rate)
  <1>1. Live(v) = Live(u) /\ Stored(v) = Stored(u)
    BY DEF Live, Stored, Columns
  <1>2. v \in [rows : [Categories -> Row \union {None}],
              of : [Products -> Categories \union {None}],
              items : [Products -> Item \union {None}],
              images : [Products -> Seq(Image)],
              specs : [Products -> SUBSET Specs],
              attrs : BOOLEAN,
              rate : (Nat \ {0}) \union {None}]
    BY DEF IsCatalogue, Columns
  <1>3. /\ v.items = u.items /\ v.of = u.of /\ v.images = images
        /\ v.specs = specs
    BY DEF Columns
  <1> HIDE DEF v
  <1>4. IsCatalogue(v)
    BY <1>1, <1>2, <1>3 DEF IsCatalogue
  <1> QED BY <1>4 DEF v

LEMMA ImageKeeps ==
    ASSUME NEW u, IsCatalogue(u), NEW p \in Live(u), NEW path \in Paths
    PROVE  /\ IsCatalogue(CreateProductImage(u, p, path))
           /\ CreateProductImage(u, p, path).items = u.items
           /\ CreateProductImage(u, p, path).specs = u.specs
           /\ CreateProductImage(u, p, path).rate = u.rate
           /\ \A q \in Products \ {p} :
                 CreateProductImage(u, p, path).images[q] = u.images[q]
           /\ \E image \in Image :
                 /\ image.path = path
                 /\ CreateProductImage(u, p, path).images[p] =
                       Append(u.images[p], image)
  <1> DEFINE im == u.images[p]
             used == {im[i].position : i \in DOMAIN im}
             place == set_default_position(u, p)
             image == [path |-> path, position |-> place]
             images == [u.images EXCEPT ![p] = Append(im, image)]
  <1>1. p \in Products /\ im \in Seq(Image)
    BY CatalogueShape DEF Live
  <1>2. place \in Nat
    <2>1. CASE used = {}
      BY <2>1 DEF set_default_position
    <2>2. CASE used # {}
      <3> DEFINE m == CHOOSE m \in used : \A n \in used : n <= m
                 f == [i \in 1..Len(im) |-> im[i].position]
      <3>1. DOMAIN im = 1..Len(im) /\ Len(im) \in Nat \ {0}
        BY <1>1, <2>2
      <3>2. f \in [1..Len(im) -> Nat]
        <4>1. \A i \in 1..Len(im) : im[i] \in Image
          BY <1>1, <3>1
        <4>2. \A i \in 1..Len(im) : im[i].position \in Nat
          BY <4>1 DEF Image
        <4> HIDE DEF im
        <4> QED BY <4>2
      <3>3. \E k \in 1..Len(im) : \A j \in 1..Len(im) : f[j] <= f[k]
        <4> HIDE DEF f
        <4> QED BY <3>1, <3>2, GreatestNumber
      <3>4. \E k \in used : \A n \in used : n <= k
        BY <3>1, <3>3
      <3>5. m \in used
        BY <3>4
      <3>6. used \subseteq Nat
        BY <3>1, <3>2
      <3>7. place = 1 + m
        BY <2>2 DEF set_default_position
      <3> HIDE DEF m, used
      <3> QED BY <3>5, <3>6, <3>7
    <2> QED BY <2>1, <2>2
  <1> HIDE DEF place
  <1>3. image \in Image /\ image.path = path
    BY <1>2 DEF Image
  <1> HIDE DEF image
  <1>4. CreateProductImage(u, p, path) =
            Columns(u.rows, u.of, u.items, images, u.specs, u.attrs, u.rate)
    <2>1. CreateProductImage(u, p, path) = [u EXCEPT !.images = images]
      BY DEF CreateProductImage, image, place
    <2> HIDE DEF images
    <2> QED BY <2>1, CatalogueShape, WritesImages
  <1>5. /\ images \in [Products -> Seq(Image)]
        /\ images[p] = Append(im, image)
        /\ \A q \in Products \ {p} : images[q] = u.images[q]
    BY <1>1, <1>3, CatalogueShape
  <1>6. \A q \in Products \ Live(u) : images[q] = <<>> /\ u.specs[q] = {}
    BY <1>5 DEF IsCatalogue
  <1> HIDE DEF images
  <1>7. IsCatalogue(CreateProductImage(u, p, path))
    <2>1. u.specs \in [Products -> SUBSET Specs]
          /\ u.rate \in (Nat \ {0}) \union {None}
      BY CatalogueShape
    <2>2. IsCatalogue(Columns(u.rows, u.of, u.items, images, u.specs, u.attrs,
                              u.rate))
      BY <1>5, <1>6, <2>1, OthersKeep
    <2> QED BY <1>4, <2>2
  <1> QED BY <1>3, <1>4, <1>5, <1>7 DEF Columns


\* The new places of the images leave their rows and their paths.
LEMMA OrderKeeps ==
    ASSUME NEW u, IsCatalogue(u), NEW p \in Live(u), NEW listed \in Seq(Paths)
    PROVE  /\ IsCatalogue(UpdateProductImages(u, p, listed))
           /\ UpdateProductImages(u, p, listed).items = u.items
           /\ UpdateProductImages(u, p, listed).specs = u.specs
           /\ UpdateProductImages(u, p, listed).rate = u.rate
           /\ \A q \in Products :
                 LET s == u.images[q]
                     new == UpdateProductImages(u, p, listed).images[q]
                 IN  /\ DOMAIN new = DOMAIN s
                     /\ \A i \in DOMAIN s : new[i].path = s[i].path
  <1> DEFINE s == u.images[p]
             place(i) == CHOOSE n \in DOMAIN listed : listed[n] = s[i].path
             new == [i \in DOMAIN s |->
                        IF s[i].path \in Range(listed)
                        THEN [s[i] EXCEPT !.position = place(i)] ELSE s[i]]
             images == [u.images EXCEPT ![p] = new]
             v == UpdateProductImages(u, p, listed)
  <1>1. p \in Products /\ s \in Seq(Image)
    BY CatalogueShape DEF Live
  <1>2. ASSUME NEW i \in DOMAIN s
        PROVE  new[i] \in Image /\ new[i].path = s[i].path
    <2>1. s[i] \in Image
      BY <1>1
    <2>2. CASE s[i].path \in Range(listed)
      <3>1. \E n \in DOMAIN listed : listed[n] = s[i].path
        BY <2>2 DEF Range
      <3>2. place(i) \in DOMAIN listed
        BY <3>1
      <3>3. DOMAIN listed \subseteq Nat
        OBVIOUS
      <3>4. new[i] = [s[i] EXCEPT !.position = place(i)]
        BY <2>2
      <3> HIDE DEF place, s, new
      <3> QED BY <2>1, <3>2, <3>3, <3>4 DEF Image
    <2>3. CASE s[i].path \notin Range(listed)
      BY <2>1, <2>3
    <2> QED BY <2>2, <2>3
  <1>3. new \in Seq(Image) /\ DOMAIN new = DOMAIN s
    <2>1. DOMAIN s = 1..Len(s) /\ Len(s) \in Nat
      BY <1>1
    <2>2. new \in [1..Len(s) -> Image]
      BY <1>2, <2>1
    <2>3. DOMAIN new = DOMAIN s
      OBVIOUS
    <2> HIDE DEF new, s
    <2> QED BY <2>1, <2>2, <2>3
  <1>4. /\ v = Columns(u.rows, u.of, u.items, images, u.specs, u.attrs, u.rate)
        /\ v.images = images /\ v.items = u.items /\ v.specs = u.specs
        /\ v.rate = u.rate
    <2>1. v = [u EXCEPT !.images = images]
      BY DEF UpdateProductImages
    <2> HIDE DEF v, images
    <2>2. v = Columns(u.rows, u.of, u.items, images, u.specs, u.attrs, u.rate)
      BY <2>1, CatalogueShape, WritesImages
    <2> QED BY <2>2, ColumnsAre
  <1> HIDE DEF v
  <1>5. /\ images \in [Products -> Seq(Image)]
        /\ images[p] = new
        /\ \A q \in Products \ {p} : images[q] = u.images[q]
    <2> HIDE DEF new
    <2> QED BY <1>1, <1>3, CatalogueShape
  <1> HIDE DEF images
  <1>6. IsCatalogue(v)
    <2>1. u.specs \in [Products -> SUBSET Specs]
          /\ u.rate \in (Nat \ {0}) \union {None}
      BY CatalogueShape
    <2>2. \A q \in Products \ Live(u) : images[q] = <<>> /\ u.specs[q] = {}
      BY <1>5 DEF IsCatalogue
    <2> QED BY <1>4, <1>5, <2>1, <2>2, OthersKeep
  <1>7. ASSUME NEW q \in Products
        PROVE  /\ DOMAIN images[q] = DOMAIN u.images[q]
               /\ \A i \in DOMAIN u.images[q] :
                     images[q][i].path = u.images[q][i].path
    <2>1. CASE q = p
      <3> HIDE DEF new
      <3> QED BY <1>2, <1>3, <1>5, <2>1
    <2> QED BY <1>5, <2>1
  <1> HIDE DEF new, s
  <1> QED BY <1>4, <1>6, <1>7 DEF v

LEMMA SpecKeeps ==
    ASSUME NEW u, IsCatalogue(u), NEW p \in Live(u), NEW spec \in Specs
    PROVE  /\ IsCatalogue(UpsertProductSpecification(u, p, spec))
           /\ UpsertProductSpecification(u, p, spec).items = u.items
           /\ UpsertProductSpecification(u, p, spec).images = u.images
           /\ UpsertProductSpecification(u, p, spec).rate = u.rate
           /\ UpsertProductSpecification(u, p, spec).specs =
                 [u.specs EXCEPT ![p] = @ \union {spec}]
  <1> DEFINE specs == [u.specs EXCEPT ![p] = @ \union {spec}]
             v == UpsertProductSpecification(u, p, spec)
  <1>1. /\ v = Columns(u.rows, u.of, u.items, u.images, specs, u.attrs, u.rate)
        /\ v.images = u.images /\ v.items = u.items /\ v.specs = specs
        /\ v.rate = u.rate
    <2>1. v = [u EXCEPT !.specs = specs]
      BY DEF UpsertProductSpecification
    <2> HIDE DEF v, specs
    <2>2. v = Columns(u.rows, u.of, u.items, u.images, specs, u.attrs, u.rate)
      BY <2>1, CatalogueShape, WritesSpecs
    <2> QED BY <2>2, ColumnsAre
  <1>2. p \in Products /\ u.specs \in [Products -> SUBSET Specs]
    BY CatalogueShape DEF Live
  <1>3. specs \in [Products -> SUBSET Specs]
    BY <1>2
  <1>4. \A q \in Products \ Live(u) : u.images[q] = <<>> /\ specs[q] = {}
    BY <1>2 DEF IsCatalogue
  <1> HIDE DEF v, specs
  <1>5. IsCatalogue(v)
    BY <1>1, <1>3, <1>4, CatalogueShape, OthersKeep
  <1> QED BY <1>1, <1>5 DEF v, specs

LEMMA RateKeeps ==
    ASSUME NEW u, IsCatalogue(u), NEW rate \in Nat \ {0}
    PROVE  /\ IsCatalogue(UpdateExchangeRate(u, rate))
           /\ UpdateExchangeRate(u, rate).items = u.items
           /\ UpdateExchangeRate(u, rate).images = u.images
           /\ UpdateExchangeRate(u, rate).specs = u.specs
           /\ UpdateExchangeRate(u, rate).rate =
                 IF u.rate = None THEN None ELSE rate
  <1> DEFINE new == IF u.rate = None THEN None ELSE rate
             v == UpdateExchangeRate(u, rate)
  <1>1. /\ v = Columns(u.rows, u.of, u.items, u.images, u.specs, u.attrs, new)
        /\ v.images = u.images /\ v.items = u.items /\ v.specs = u.specs
        /\ v.rate = new
    <2>1. v = [u EXCEPT !.rate = new]
      BY DEF UpdateExchangeRate
    <2> HIDE DEF v, new
    <2>2. v = Columns(u.rows, u.of, u.items, u.images, u.specs, u.attrs, new)
      BY <2>1, CatalogueShape, WritesRate
    <2> QED BY <2>2, ColumnsAre
  <1>2. \A q \in Products \ Live(u) : u.images[q] = <<>> /\ u.specs[q] = {}
    BY DEF IsCatalogue
  <1>3. new \in (Nat \ {0}) \union {None}
    OBVIOUS
  <1> HIDE DEF v, new
  <1>4. IsCatalogue(v)
    BY <1>1, <1>2, <1>3, CatalogueShape, OthersKeep
  <1> QED BY <1>1, <1>4 DEF v, new

\* What is left of the products of ps.
LEMMA DeleteKeeps ==
    ASSUME NEW u, IsCatalogue(u), NEW ps, NEW new, new = DeleteProducts(u, ps)
    PROVE  /\ IsCatalogue(new)
           /\ \A p \in Products :
                 /\ new.items[p] = IF p \in ps THEN None ELSE u.items[p]
                 /\ new.images[p] = IF p \in ps THEN <<>> ELSE u.images[p]
                 /\ new.specs[p] = IF p \in ps THEN {} ELSE u.specs[p]
           /\ new.rate = u.rate
  <1> DEFINE items == [p \in Products |-> IF p \in ps THEN None
                                          ELSE u.items[p]]
             of == [p \in Products |-> IF p \in ps THEN None ELSE u.of[p]]
             images == [p \in Products |-> IF p \in ps THEN <<>>
                                           ELSE u.images[p]]
             specs == [p \in Products |-> IF p \in ps THEN {}
                                          ELSE u.specs[p]]
             a == [u EXCEPT !.items = items]
             b == [a EXCEPT !.of = of]
             c == [b EXCEPT !.images = images]
             d == [c EXCEPT !.specs = specs]
             v == DeleteProducts(u, ps)
  <1>1. IsRecord(u)
    BY CatalogueShape
  <1>2. v = d
    <2>1. v = [[[[u EXCEPT
              !.items = [p \in Products |-> IF p \in ps THEN None ELSE @[p]]]
              EXCEPT
              !.of = [p \in Products |-> IF p \in ps THEN None ELSE @[p]]]
              EXCEPT
              !.images = [p \in Products |-> IF p \in ps THEN <<>> ELSE @[p]]]
              EXCEPT
              !.specs = [p \in Products |-> IF p \in ps THEN {} ELSE @[p]]]
      BY DEF DeleteProducts
    <2>2. a = Columns(u.rows, u.of, items, u.images, u.specs, u.attrs, u.rate)
      <3> HIDE DEF items
      <3> QED BY <1>1, WritesItems
    <2> HIDE DEF items
    <2>3. a.of = u.of /\ a.images = u.images /\ a.specs = u.specs
      BY <2>2, ColumnsAre
    <2> QED BY <2>1, <2>3 DEF items
  <1> HIDE DEF v, items, of, images, specs
  <1>3. a = Columns(u.rows, u.of, items, u.images, u.specs, u.attrs, u.rate)
    BY <1>1, WritesItems
  <1> HIDE DEF a
  <1>4. b = Columns(u.rows, of, items, u.images, u.specs, u.attrs, u.rate)
    <2>1. /\ IsRecord(a) /\ a.rows = u.rows /\ a.items = items
          /\ a.images = u.images /\ a.specs = u.specs /\ a.attrs = u.attrs
          /\ a.rate = u.rate
      BY <1>3, ColumnsAre
    <2> QED BY <2>1, WritesOf
  <1> HIDE DEF b
  <1>5. c = Columns(u.rows, of, items, images, u.specs, u.attrs, u.rate)
    <2>1. /\ IsRecord(b) /\ b.rows = u.rows /\ b.items = items
          /\ b.of = of /\ b.specs = u.specs /\ b.attrs = u.attrs
          /\ b.rate = u.rate
      BY <1>4, ColumnsAre
    <2> QED BY <2>1, WritesImages
  <1> HIDE DEF c
  <1>6. d = Columns(u.rows, of, items, images, specs, u.attrs, u.rate)
    <2>1. /\ IsRecord(c) /\ c.rows = u.rows /\ c.items = items
          /\ c.of = of /\ c.images = images /\ c.attrs = u.attrs
          /\ c.rate = u.rate
      BY <1>5, ColumnsAre
    <2> QED BY <2>1, WritesSpecs
  <1> HIDE DEF d
  <1>7. /\ v = Columns(u.rows, of, items, images, specs, u.attrs, u.rate)
        /\ v.rows = u.rows /\ v.of = of /\ v.items = items
        /\ v.images = images /\ v.specs = specs /\ v.rate = u.rate
    BY <1>2, <1>6, ColumnsAre
  <1>8. /\ items \in [Products -> Item \union {None}]
        /\ of \in [Products -> Categories \union {None}]
        /\ images \in [Products -> Seq(Image)]
        /\ specs \in [Products -> SUBSET Specs]
    BY CatalogueShape DEF items, of, images, specs
  <1>9. v \in [rows : [Categories -> Row \union {None}],
              of : [Products -> Categories \union {None}],
              items : [Products -> Item \union {None}],
              images : [Products -> Seq(Image)],
              specs : [Products -> SUBSET Specs],
              attrs : BOOLEAN,
              rate : (Nat \ {0}) \union {None}]
    BY <1>7, <1>8 DEF IsCatalogue, Columns
  <1>10. /\ \A p \in Live(v) : /\ p \in Live(u) /\ v.items[p] = u.items[p]
                               /\ v.of[p] = u.of[p]
         /\ Stored(v) = Stored(u)
         /\ \A p \in Products \ Live(v) : p \in ps \/ p \notin Live(u)
    BY <1>7 DEF Live, Stored, items, of
  <1>11. \A p \in Products \ Live(v) :
            v.of[p] = None /\ v.images[p] = <<>> /\ v.specs[p] = {}
    <2>1. \A p \in Products \ Live(u) :
             u.of[p] = None /\ u.images[p] = <<>> /\ u.specs[p] = {}
      BY DEF IsCatalogue
    <2>2. SUFFICES ASSUME NEW p \in Products \ Live(v)
                   PROVE  of[p] = None /\ images[p] = <<>> /\ specs[p] = {}
      BY <1>7
    <2>3. p \in ps \/ p \in Products \ Live(u)
      BY <1>10, <2>2
    <2> QED BY <2>1, <2>2, <2>3 DEF of, images, specs
  <1>12. IsCatalogue(v)
    BY <1>9, <1>10, <1>11 DEF IsCatalogue
  <1> QED BY <1>7, <1>12 DEF v, items, images, specs

\* A product whose status is set is otherwise what it was.
LEMMA StatusKeeps ==
    ASSUME NEW u, IsCatalogue(u), NEW ps, NEW status \in Statuses
    PROVE  /\ IsCatalogue(SetStatus(u, ps, status))
           /\ Live(SetStatus(u, ps, status)) = Live(u)
           /\ SetStatus(u, ps, status).images = u.images
           /\ SetStatus(u, ps, status).specs = u.specs
           /\ SetStatus(u, ps, status).rate = u.rate
           /\ \A p \in Products :
                 u.items[p] = None => SetStatus(u, ps, status).items[p] = None
  <1> DEFINE items == [p \in Products |->
                          IF p \in ps \intersect Live(u)
                          THEN [u.items[p] EXCEPT !.status = status]
                          ELSE u.items[p]]
             v == SetStatus(u, ps, status)
  <1>1. ASSUME NEW p \in Live(u)
        PROVE  /\ items[p] \in Item
               /\ items[p].name = u.items[p].name
               /\ items[p].slug = u.items[p].slug
    <2>1. u.items[p] \in Item /\ p \in Products
      BY CatalogueShape DEF Live
    <2>2. CASE p \in ps
      <3>1. items[p] = [u.items[p] EXCEPT !.status = status]
        BY <2>1, <2>2
      <3> HIDE DEF items
      <3> QED BY <2>1, <3>1 DEF Item
    <2>3. CASE p \notin ps
      BY <2>1, <2>3
    <2> QED BY <2>2, <2>3
  <1>2. \A p \in Products \ Live(u) : items[p] = None
    BY DEF Live
  <1>3. DOMAIN items = Products /\ items = [p \in Products |-> items[p]]
    OBVIOUS
  <1>4. /\ v = Columns(u.rows, u.of, items, u.images, u.specs, u.attrs, u.rate)
        /\ v.images = u.images /\ v.items = items /\ v.specs = u.specs
        /\ v.rate = u.rate /\ v.of = u.of /\ v.rows = u.rows
    <2>1. v = [u EXCEPT !.items = items]
      BY DEF SetStatus
    <2> HIDE DEF v, items
    <2>2. v = Columns(u.rows, u.of, items, u.images, u.specs, u.attrs, u.rate)
      BY <2>1, CatalogueShape, WritesItems
    <2> QED BY <2>2, ColumnsAre
  <1> HIDE DEF v, items
  <1>5. items \in [Products -> Item \union {None}]
    BY <1>1, <1>2, <1>3
  <1>6. Live(v) = Live(u) /\ Stored(v) = Stored(u)
    <2>1. None \notin Item
      BY ProductsAssumption
    <2> QED BY <1>1, <1>2, <1>4, <2>1 DEF Live, Stored
  <1>7. v \in [rows : [Categories -> Row \union {None}],
              of : [Products -> Categories \union {None}],
              items : [Products -> Item \union {None}],
              images : [Products -> Seq(Image)],
              specs : [Products -> SUBSET Specs],
              attrs : BOOLEAN,
              rate : (Nat \ {0}) \union {None}]
    BY <1>4, <1>5 DEF IsCatalogue, Columns
  <1>8. IsCatalogue(v)
    BY <1>1, <1>4, <1>6, <1>7 DEF IsCatalogue
  <1>9. \A p \in Products : u.items[p] = None => v.items[p] = None
    BY <1>2, <1>4 DEF Live
  <1> QED BY <1>4, <1>6, <1>8, <1>9 DEF v


-----------------------------------------------------------------------------
(* Types, and what a request asks for and holds at each of its steps.      *)

IsGot(g) == g = [about |-> g.about, value |-> g.value, todo |-> g.todo,
                 paths |-> g.paths, hit |-> g.hit, direct |-> g.direct]

Shaped ==
    /\ body = [r \in Requests |-> body[r]]
    /\ got = [r \in Requests |-> got[r]]
    /\ \A r \in Requests : IsGot(got[r])

\* The kind of the key that an operation of the cache has.
KindOf ==
    [name |-> "details", details |-> "details", images |-> "images",
     pricing |-> "pricing", specs |-> "specs", cart |-> "cart",
     seo |-> "seo", sitemap |-> "sitemap", all |-> "all",
     category |-> "category", best |-> "best-sellers",
     featured |-> "featured", new |-> "new-arrivals",
     deals |-> "daily-deals", rate |-> "rate", search |-> "search",
     searchpage |-> "search", autocomplete |-> "autocomplete"]

Keyed(b) ==
    /\ b.op \in DOMAIN KindOf
    /\ b.key[1] = KindOf[b.op]
    /\ b.op = "rate" => b.key = <<"rate">>
    /\ b.op = "category" => b.key[3] \in Pages

Saving == {"known", "insert", "update", "upload", "image", "order", "spec"}

\* What a request at step asks for, b being its body.
AskAt(step, b) ==
    /\ step \in {"find", "lookup", "fetch", "row", "fill"} => Keyed(b)
    /\ step \in {"count", "page"} => Keyed(b) \/ b.op \in {"filter", "filtered"}
    /\ step \in {"named", "options"} => b.op = "options"
    /\ step \in Saving => b.op = "save"
    /\ step \in Saving \union {"verify", "flush"} /\ b.op = "save" =>
          b.form \in Forms
    /\ step \in {"slug", "keys", "delete", "purge", "archive", "bulk"} =>
          b.op # "save"
    /\ step \in {"rate", "keep"} => b.op = "rate" /\ b.rate \in Rates
    /\ step = "ok" /\ b # None => b.op = "save" /\ b.form \in Forms

\* The paths it holds, g being what it has read.
HoldsAt(step, g) ==
    /\ step \in {"insert", "update"} => g.todo = <<>> /\ g.paths = <<>>
    /\ step = "upload" => g.paths \in Seq(Paths) /\ g.todo = g.paths
    /\ step = "image" => g.todo \in Seq(Paths) /\ g.todo # <<>>

\* The inductive invariant of the types.
TInv ==
    /\ TypeOK
    /\ Shaped
    /\ \A r \in Requests : AskAt(pc[r], body[r]) /\ HoldsAt(pc[r], got[r])

Steps == Writing \union Reading \union Done

LEMMA NothingHeld == IsGot(Nothing)
  BY DEF Nothing, IsGot

LEMMA HoldsAbout ==
    ASSUME NEW g, IsGot(g), NEW x, NEW h, h = [g EXCEPT !.about = x]
    PROVE  /\ IsGot(h) /\ h.about = x /\ h.value = g.value
           /\ h.todo = g.todo /\ h.paths = g.paths /\ h.hit = g.hit
           /\ h.direct = g.direct
  BY DEF IsGot

LEMMA HoldsValue ==
    ASSUME NEW g, IsGot(g), NEW x, NEW h, h = [g EXCEPT !.value = x]
    PROVE  /\ IsGot(h) /\ h.about = g.about /\ h.value = x
           /\ h.todo = g.todo /\ h.paths = g.paths /\ h.hit = g.hit
           /\ h.direct = g.direct
  BY DEF IsGot

LEMMA HoldsTodo ==
    ASSUME NEW g, IsGot(g), NEW x, NEW h, h = [g EXCEPT !.todo = x]
    PROVE  /\ IsGot(h) /\ h.about = g.about /\ h.value = g.value
           /\ h.todo = x /\ h.paths = g.paths /\ h.hit = g.hit
           /\ h.direct = g.direct
  BY DEF IsGot

LEMMA HoldsPaths ==
    ASSUME NEW g, IsGot(g), NEW x, NEW h, h = [g EXCEPT !.paths = x]
    PROVE  /\ IsGot(h) /\ h.about = g.about /\ h.value = g.value
           /\ h.todo = g.todo /\ h.paths = x /\ h.hit = g.hit
           /\ h.direct = g.direct
  BY DEF IsGot

LEMMA HoldsHit ==
    ASSUME NEW g, IsGot(g), NEW x, NEW h, h = [g EXCEPT !.hit = x]
    PROVE  /\ IsGot(h) /\ h.about = g.about /\ h.value = g.value
           /\ h.todo = g.todo /\ h.paths = g.paths /\ h.hit = x
           /\ h.direct = g.direct
  BY DEF IsGot

LEMMA HoldsDirect ==
    ASSUME NEW g, IsGot(g), NEW x, NEW h, h = [g EXCEPT !.direct = x]
    PROVE  /\ IsGot(h) /\ h.about = g.about /\ h.value = g.value
           /\ h.todo = g.todo /\ h.paths = g.paths /\ h.hit = g.hit
           /\ h.direct = x
  BY DEF IsGot

\* A step of r moves it, and no other request.
LEMMA Moves ==
    ASSUME TInv, NEW r \in Requests, NEW to \in Steps \ {"idle"},
           NEW holds, IsGot(holds),
           AskAt(to, body[r]) \/ to \in {"ok", "failed"},
           to = "ok" /\ body[r].op = "save" => body[r].form \in Forms,
           HoldsAt(to, holds), Go(r, to), Held(r, to, holds)
    PROVE  /\ pc' \in [Requests -> Steps]
           /\ Shaped'
           /\ \A q \in Requests :
                 AskAt(pc[q], body[q])' /\ HoldsAt(pc[q], got[q])'
           /\ \A q \in Requests \ {r} :
                 pc'[q] = pc[q] /\ body'[q] = body[q] /\ got'[q] = got[q]
           /\ pc'[r] = to
           /\ to \notin Done => got'[r] = holds /\ body'[r] = body[r]
           /\ to \in Done => got'[r].hit = holds.hit
           /\ body'[r] = IF to \in Done /\ body[r].op # "save" THEN None
                         ELSE body[r]
  <1> DEFINE rest == [Nothing EXCEPT !.hit = holds.hit]
             held == IF to \in Done THEN rest ELSE holds
             asks == IF to \in Done /\ body[r].op # "save" THEN None
                     ELSE body[r]
  <1>1. IsGot(rest) /\ rest.hit = holds.hit
    BY NothingHeld, HoldsHit
  <1> HIDE DEF rest
  <1>2. IsGot(held)
    BY <1>1
  <1>3. got' = [got EXCEPT ![r] = held]
    BY DEF Held, rest
  <1>4. body' = [body EXCEPT ![r] = asks]
    BY DEF Held, Done, TInv, Shaped
  <1>5. pc' = [pc EXCEPT ![r] = to] /\ pc \in [Requests -> Steps]
    BY DEF Go, TInv, TypeOK, Steps
  <1> HIDE DEF held, asks
  <1>6. /\ pc' \in [Requests -> Steps] /\ pc'[r] = to
        /\ got' = [q \in Requests |-> got'[q]] /\ got'[r] = held
        /\ body' = [q \in Requests |-> body'[q]] /\ body'[r] = asks
        /\ \A q \in Requests \ {r} :
              pc'[q] = pc[q] /\ body'[q] = body[q] /\ got'[q] = got[q]
    BY <1>3, <1>4, <1>5 DEF TInv, Shaped
  <1>7. Shaped'
    <2>1. ASSUME NEW q \in Requests PROVE IsGot(got[q])'
      <3>1. IsGot(got'[q])
        BY <1>2, <1>6 DEF TInv, Shaped
      <3> QED BY <3>1 DEF IsGot
    <2> QED BY <1>6, <2>1 DEF Shaped
  <1>8. AskAt(to, asks)
    <2>1. CASE to \in Done
      BY <2>1 DEF Done, AskAt, Saving, asks
    <2>2. CASE to \notin Done
      BY <2>2 DEF Done, asks
    <2> QED BY <2>1, <2>2
  <1>9. HoldsAt(to, held)
    BY DEF HoldsAt, Done, held
  <1>10. ASSUME NEW q \in Requests
         PROVE  AskAt(pc[q], body[q])' /\ HoldsAt(pc[q], got[q])'
    <2>1. AskAt(pc'[q], body'[q]) /\ HoldsAt(pc'[q], got'[q])
      BY <1>6, <1>8, <1>9 DEF TInv
    <2>2. AskAt(pc[q], body[q])'
      BY <2>1 DEF AskAt
    <2>3. HoldsAt(pc[q], got[q])'
      BY <2>1 DEF HoldsAt
    <2> QED BY <2>2, <2>3
  <1> QED BY <1>1, <1>6, <1>7, <1>10 DEF held, asks


\* What a step of a reader does: it moves r, and nothing else but an entry.
ReadMove(r) ==
    /\ pc[r] \in Reading
    /\ \E to \in Reading \union {"ok", "failed"} : \E holds :
          /\ Go(r, to) /\ Held(r, to, holds) /\ IsGot(holds)
          /\ to \in Reading => AskAt(to, body[r])
    /\ UNCHANGED <<t, s3, second, sent, shared, removed, overtaken>>
    /\ \/ UNCHANGED <<redis, outdated>>
       \/ /\ Keyed(body[r])
          /\ redis' = Updated(redis, [k \in {body[r].key} |->
                                         [value |-> got[r].value, by |-> r]])
          /\ outdated' = outdated \ {body[r].key}

LEMMA StepReads ==
    ASSUME NEW r \in Requests, NEW from \in Reading,
           NEW to \in Reading \union {"ok", "failed"}, NEW holds, IsGot(holds),
           to \in Reading => AskAt(to, body[r]), Step(r, from, to, holds)
    PROVE  ReadMove(r)
  BY DEF ReadMove, Step

LEMMA GiveUpReads ==
    ASSUME TInv, NEW r \in Requests, NEW from \in Reading, GiveUp(r, from)
    PROVE  ReadMove(r)
  <1>1. IsGot(got[r])
    BY DEF TInv, Shaped
  <1>2. outdated' = outdated
    BY DEF GiveUp, Reading, Unflushed
  <1> QED BY <1>1, <1>2 DEF ReadMove, GiveUp, Reading

LEMMA QueryReads ==
    ASSUME NEW r \in Requests, NEW from \in Reading,
           Keyed(body[r]), NEW direct, Query(r, from, direct)
    PROVE  ReadMove(r)
  <1> DEFINE holds == [Nothing EXCEPT !.direct = direct]
             to == FirstQuery(body[r].op)
  <1>1. IsGot(holds)
    BY NothingHeld, HoldsDirect
  <1>2. to \in {"lookup", "count", "fetch"}
    BY DEF FirstQuery
  <1>3. AskAt(to, body[r])
    BY <1>2 DEF AskAt, Saving
  <1>4. Step(r, from, to, holds)
    BY DEF Query
  <1> HIDE DEF holds, to
  <1> QED BY <1>1, <1>2, <1>3, <1>4, StepReads DEF Reading

LEMMA FallReads ==
    ASSUME TInv, NEW r \in Requests, NEW from \in Reading,
           Keyed(body[r]), Fall(r, from)
    PROVE  ReadMove(r)
  BY QueryReads, GiveUpReads DEF Fall

LEMMA FindReads ==
    ASSUME TInv, NEW r \in Requests, Find(r)
    PROVE  ReadMove(r)
  <1>1. pc[r] = "find" /\ "find" \in Reading /\ Keyed(body[r])
    BY DEF Find, TInv, AskAt, Reading
  <1>2. CASE Step(r, "find", "ok", Nothing)
    BY <1>1, <1>2, NothingHeld, StepReads DEF Reading
  <1> QED BY <1>1, <1>2, QueryReads, FallReads DEF Find

LEMMA FillReads ==
    ASSUME TInv, NEW r \in Requests, Fill(r)
    PROVE  ReadMove(r)
  <1>1. pc[r] = "fill" /\ "fill" \in Reading /\ Keyed(body[r])
    BY DEF Fill, TInv, AskAt, Reading
  <1>2. CASE Step(r, "fill", "ok", Nothing)
    BY <1>1, <1>2, NothingHeld, StepReads DEF Reading
  <1>3. CASE Fall(r, "fill")
    BY <1>1, <1>3, FallReads
  <1>4. CASE ~Step(r, "fill", "ok", Nothing) /\ ~Fall(r, "fill")
    BY <1>1, <1>4, NothingHeld DEF Fill, ReadMove, Reading
  <1> QED BY <1>2, <1>3, <1>4

LEMMA FetchReads ==
    ASSUME TInv, NEW r \in Requests, NEW op, NEW values, Fetch(r, op, values)
    PROVE  ReadMove(r)
  <1>1. pc[r] = "fetch" /\ "fetch" \in Reading /\ Keyed(body[r])
    BY DEF Fetch, TInv, AskAt, Reading
  <1>2. CASE Fall(r, "fetch")
    BY <1>1, <1>2, FallReads
  <1>3. ASSUME NEW v, Step(r, "fetch", IF got[r].direct THEN "ok" ELSE "fill",
                           [got[r] EXCEPT !.value = v])
        PROVE  ReadMove(r)
    <2> DEFINE holds == [got[r] EXCEPT !.value = v]
               to == IF got[r].direct THEN "ok" ELSE "fill"
    <2>1. IsGot(holds)
      BY HoldsValue DEF TInv, Shaped
    <2>2. to \in {"ok", "fill"} /\ (to = "fill" => AskAt(to, body[r]))
      BY <1>1 DEF AskAt, Saving
    <2>3. Step(r, "fetch", to, holds)
      BY <1>3
    <2> HIDE DEF holds, to
    <2> QED BY <1>1, <2>1, <2>2, <2>3, StepReads DEF Reading
  <1> QED BY <1>2, <1>3 DEF Fetch

LEMMA CountReads ==
    ASSUME TInv, NEW r \in Requests,
           CountAll(r) \/ CountInCategory(r) \/ CountFiltered(r)
    PROVE  ReadMove(r)
  <1>1. /\ pc[r] = "count" /\ "count" \in Reading
        /\ Keyed(body[r]) \/ body[r].op \in {"filter", "filtered"}
    BY DEF CountAll, CountInCategory, CountFiltered, TInv, AskAt, Reading
  <1>2. CASE GiveUp(r, "count")
    BY <1>1, <1>2, GiveUpReads
  <1>3. CASE Fall(r, "count") /\ body[r].op \notin {"filter", "filtered"}
    BY <1>1, <1>3, FallReads
  <1>4. ASSUME NEW v, NEW to \in {"page", "ok"},
               Step(r, "count", to, [got[r] EXCEPT !.value = v])
        PROVE  ReadMove(r)
    <2> DEFINE holds == [got[r] EXCEPT !.value = v]
    <2>1. IsGot(holds)
      BY HoldsValue DEF TInv, Shaped
    <2>2. AskAt("page", body[r])
      BY <1>1 DEF AskAt, Saving
    <2> HIDE DEF holds
    <2> QED BY <1>1, <1>4, <2>1, <2>2, StepReads DEF holds, Reading
  <1>5. CASE CountAll(r)
    BY <1>3, <1>4, <1>5 DEF CountAll
  <1>6. CASE CountInCategory(r)
    BY <1>3, <1>4, <1>6 DEF CountInCategory
  <1>7. CASE CountFiltered(r)
    BY <1>2, <1>4, <1>7 DEF CountFiltered
  <1> QED BY <1>5, <1>6, <1>7

LEMMA PageReads ==
    ASSUME TInv, NEW r \in Requests,
           PageOfAll(r) \/ PageOfCategory(r) \/ PageOfFiltered(r)
    PROVE  ReadMove(r)
  <1>1. /\ pc[r] = "page" /\ "page" \in Reading
        /\ Keyed(body[r]) \/ body[r].op \in {"filter", "filtered"}
    BY DEF PageOfAll, PageOfCategory, PageOfFiltered, TInv, AskAt, Reading
  <1>2. CASE GiveUp(r, "page")
    BY <1>1, <1>2, GiveUpReads
  <1>3. CASE Fall(r, "page") /\ body[r].op \notin {"filter", "filtered"}
    BY <1>1, <1>3, FallReads
  <1>4. ASSUME NEW holds, IsGot(holds), NEW to \in {"fill", "row", "ok"},
               to = "ok" \/ Keyed(body[r]), Step(r, "page", to, holds)
        PROVE  ReadMove(r)
    <2>1. to \in Reading => AskAt(to, body[r])
      BY <1>4 DEF AskAt, Saving, Reading
    <2> QED BY <1>1, <1>4, <2>1, StepReads DEF Reading
  <1>5. IsGot(got[r])
    BY DEF TInv, Shaped
  <1>6. CASE PageOfAll(r)
    <2>1. ASSUME NEW s, Step(r, "page", "fill",
                             [got[r] EXCEPT !.value.rows = s])
          PROVE  ReadMove(r)
      <3>1. [got[r] EXCEPT !.value.rows = s] =
                [got[r] EXCEPT !.value = [got[r].value EXCEPT !.rows = s]]
        OBVIOUS
      <3>2. IsGot([got[r] EXCEPT !.value.rows = s])
        BY <1>5, <3>1, HoldsValue
      <3>3. Keyed(body[r])
        BY <1>1, <1>6 DEF PageOfAll
      <3> QED BY <1>4, <2>1, <3>2, <3>3
    <2> QED BY <1>3, <1>6, <2>1 DEF PageOfAll
  <1>7. CASE PageOfCategory(r)
    <2>1. ASSUME NEW x, NEW to \in {"fill", "row"},
                 Step(r, "page", to, [got[r] EXCEPT !.todo = x])
          PROVE  ReadMove(r)
      <3>1. IsGot([got[r] EXCEPT !.todo = x])
        BY <1>5, HoldsTodo
      <3>2. Keyed(body[r])
        BY <1>1, <1>7 DEF PageOfCategory
      <3> QED BY <1>4, <2>1, <3>1, <3>2
    <2> QED BY <1>3, <1>7, <2>1 DEF PageOfCategory
  <1>8. CASE PageOfFiltered(r)
    <2>1. ASSUME NEW v, Step(r, "page", "ok", [got[r] EXCEPT !.value = v])
          PROVE  ReadMove(r)
      <3>1. IsGot([got[r] EXCEPT !.value = v])
        BY <1>5, HoldsValue
      <3> QED BY <1>4, <2>1, <3>1
    <2> QED BY <1>2, <1>8, <2>1 DEF PageOfFiltered
  <1> QED BY <1>6, <1>7, <1>8

LEMMA OtherReads ==
    ASSUME TInv, NEW r \in Requests,
           \/ LookupProduct(r) \/ MapProduct(r)
           \/ FindCategory(r) \/ FetchFilterOptions(r)
    PROVE  ReadMove(r)
  <1>1. IsGot(got[r])
    BY DEF TInv, Shaped
  <1>2. CASE LookupProduct(r)
    <2>1. pc[r] = "lookup" /\ "lookup" \in Reading /\ Keyed(body[r])
      BY <1>2 DEF LookupProduct, TInv, AskAt, Reading
    <2>2. ASSUME NEW p, Step(r, "lookup", "fetch", [got[r] EXCEPT !.about = p])
          PROVE  ReadMove(r)
      <3>1. IsGot([got[r] EXCEPT !.about = p])
        BY <1>1, HoldsAbout
      <3>2. AskAt("fetch", body[r])
        BY <2>1 DEF AskAt, Saving
      <3> QED BY <2>1, <2>2, <3>1, <3>2, StepReads DEF Reading
    <2> QED BY <1>2, <2>1, <2>2, FallReads DEF LookupProduct
  <1>3. CASE MapProduct(r)
    <2>1. pc[r] = "row" /\ "row" \in Reading /\ Keyed(body[r])
      BY <1>3 DEF MapProduct, TInv, AskAt, Reading
    <2>2. ASSUME NEW y, NEW to \in {"fill", "row"},
                 Step(r, "row", to, [got[r] EXCEPT !.todo = Tail(@),
                                         !.value.rows = Append(@, y)])
          PROVE  ReadMove(r)
      <3> DEFINE holds == [got[r] EXCEPT !.todo = Tail(@),
                                         !.value.rows = Append(@, y)]
                 first == [got[r] EXCEPT !.todo = Tail(@)]
      <3> DEFINE left == Tail(got[r].todo)
      <3>0. first = [got[r] EXCEPT !.todo = left]
        OBVIOUS
      <3>2. holds = [first EXCEPT !.value.rows = Append(@, y)]
        OBVIOUS
      <3> HIDE DEF first, left
      <3>1. first.value = got[r].value /\ IsGot(first)
        BY <1>1, <3>0, HoldsTodo
      <3>3. holds = [first EXCEPT !.value =
                        [first.value EXCEPT !.rows = Append(@, y)]]
        BY <3>2
      <3> HIDE DEF holds
      <3>4. IsGot(holds)
        BY <3>1, <3>3, HoldsValue
      <3>5. AskAt(to, body[r])
        BY <2>1 DEF AskAt, Saving
      <3> QED BY <2>1, <2>2, <3>4, <3>5, StepReads DEF Reading, holds
    <2> QED BY <1>3, <2>1, <2>2, FallReads DEF MapProduct
  <1>4. CASE FindCategory(r)
    <2>1. pc[r] = "named" /\ "named" \in Reading /\ body[r].op = "options"
      BY <1>4 DEF FindCategory, TInv, AskAt, Reading
    <2>2. ASSUME NEW c, Step(r, "named", "options",
                             [got[r] EXCEPT !.about = c])
          PROVE  ReadMove(r)
      <3>1. IsGot([got[r] EXCEPT !.about = c])
        BY <1>1, HoldsAbout
      <3>2. AskAt("options", body[r])
        BY <2>1 DEF AskAt, Saving
      <3> QED BY <2>1, <2>2, <3>1, <3>2, StepReads DEF Reading
    <2> QED BY <1>4, <2>1, <2>2, GiveUpReads DEF FindCategory
  <1>5. CASE FetchFilterOptions(r)
    <2>1. pc[r] = "options" /\ "options" \in Reading
      BY <1>5 DEF FetchFilterOptions, Reading
    <2>2. ASSUME NEW v, Step(r, "options", "ok", [got[r] EXCEPT !.value = v])
          PROVE  ReadMove(r)
      <3>1. IsGot([got[r] EXCEPT !.value = v])
        BY <1>1, HoldsValue
      <3> QED BY <2>1, <2>2, <3>1, StepReads DEF Reading
    <2> QED BY <1>5, <2>1, <2>2, GiveUpReads DEF FetchFilterOptions
  <1> QED BY <1>2, <1>3, <1>4, <1>5

LEMMA ReadersMove ==
    ASSUME TInv, NEW r \in Requests, Read(r)
    PROVE  ReadMove(r)
  BY FindReads, FillReads, FetchReads, CountReads, PageReads, OtherReads
     DEF Read, FetchName, FetchDetail, FetchImages, FetchPricing, FetchSpecs,
         FetchCart, FetchSEO, FetchSitemap, FetchBestSellers, FetchFeatured,
         FetchNewArrivals, FetchDailyDeals, GetLatestExchangeRate, Search,
         SearchPaginated, Autocomplete


LEMMA ReadTypes ==
    ASSUME TInv, NEW r \in Requests, ReadMove(r)
    PROVE  TInv'
  <1>1. PICK to \in Reading \union {"ok", "failed"} :
            \E holds : /\ Go(r, to) /\ Held(r, to, holds) /\ IsGot(holds)
                       /\ to \in Reading => AskAt(to, body[r])
    BY DEF ReadMove
  <1>2. PICK holds : /\ Go(r, to) /\ Held(r, to, holds) /\ IsGot(holds)
                     /\ to \in Reading => AskAt(to, body[r])
    BY <1>1
  <1>3. body[r].op # "save"
    BY DEF ReadMove, TInv, AskAt, Reading, Keyed, KindOf
  <1>4. to \in Steps \ {"idle"} /\ HoldsAt(to, holds)
    BY DEF Steps, Reading, Done, HoldsAt
  <1>5. /\ pc' \in [Requests -> Steps] /\ Shaped'
        /\ \A q \in Requests :
              AskAt(pc[q], body[q])' /\ HoldsAt(pc[q], got[q])'
    BY <1>2, <1>3, <1>4, Moves
  <1>6. /\ \A k \in DOMAIN redis' : k[1] \in Kinds /\ redis'[k].by \in Requests
        /\ outdated' \subseteq DOMAIN redis'
    <2>1. CASE UNCHANGED <<redis, outdated>>
      BY <2>1 DEF TInv, TypeOK
    <2>2. CASE /\ Keyed(body[r])
               /\ redis' = Updated(redis, [k \in {body[r].key} |->
                                         [value |-> got[r].value, by |-> r]])
               /\ outdated' = outdated \ {body[r].key}
      <3>1. body[r].key[1] \in Kinds
        BY <2>2 DEF Keyed, KindOf, Kinds, ProductKinds
      <3> QED BY <2>2, <3>1 DEF TInv, TypeOK, Updated
    <2> QED BY <2>1, <2>2 DEF ReadMove
  <1>7. t' = t
    BY DEF ReadMove
  <1>8. IsCatalogue(t)'
    BY <1>7 DEF TInv, TypeOK
  <1>9. TypeOK'
    BY <1>5, <1>6, <1>8 DEF TInv, TypeOK, ReadMove, Steps
  <1> QED BY <1>5, <1>9 DEF TInv

\* A new request asks for what its first step needs.
RequestMove(r) ==
    \E b : \E step \in {"find", "count", "options", "named", "verify", "slug",
                        "rate"} :
        /\ Begin(r, b, step)
        /\ AskAt(step, b)

LEMMA RequestsMove ==
    ASSUME NEW r \in Requests, Requested(r)
    PROVE  RequestMove(r)
  <1>1. ASSUME NEW op \in DOMAIN KindOf, NEW key, key[1] = KindOf[op],
               op = "rate" => key = <<"rate">>,
               op = "category" => key[3] \in Pages, Reads(r, op, key)
        PROVE  RequestMove(r)
    <2> DEFINE b == [op |-> op, key |-> key]
    <2>1. Keyed(b)
      BY <1>1 DEF Keyed
    <2>2. AskAt("find", b)
      BY <2>1 DEF AskAt, Saving
    <2> QED BY <1>1, <2>2 DEF Reads, RequestMove
  <1>2. CASE \/ GetProductBySlugHandler(r) \/ GetProductDetailHandler(r)
             \/ GetProductImagesBySlugHandler(r)
             \/ GetProductPricingBySlugHandler(r)
             \/ GetProductSpecsBySlugHandler(r) \/ GetProductCartHandler(r)
             \/ GetProductSEOHandler(r)
    <2>1. \A s : /\ <<"details", s>>[1] = "details"
                 /\ <<"images", s>>[1] = "images"
                 /\ <<"pricing", s>>[1] = "pricing"
                 /\ <<"specs", s>>[1] = "specs"
                 /\ <<"cart", s>>[1] = "cart"
                 /\ <<"seo", s>>[1] = "seo"
      OBVIOUS
    <2> QED BY <1>1, <1>2, <2>1
            DEF GetProductBySlugHandler, GetProductDetailHandler,
                GetProductImagesBySlugHandler, GetProductPricingBySlugHandler,
                GetProductSpecsBySlugHandler, GetProductCartHandler,
                GetProductSEOHandler, KindOf
  <1>3. CASE \/ GetAllProductSitemapHandler(r)
             \/ GetBestSellerProductsHandler(r)
             \/ GetFeaturedProductsHandler(r) \/ GetNewArrivalProductsHandler(r)
             \/ GetDailyDealsProductsHandler(r) \/ GetExchangeRateHandler(r)
    BY <1>1, <1>3
       DEF GetAllProductSitemapHandler, GetBestSellerProductsHandler,
           GetFeaturedProductsHandler, GetNewArrivalProductsHandler,
           GetDailyDealsProductsHandler, GetExchangeRateHandler, KindOf
  <1>4. CASE \/ GetProductsHandler(r) \/ GetProductsByCategoryIDHandler(r)
             \/ SearchProductsHandler(r) \/ SearchProductsPaginatedHandler(r)
             \/ AutocompleteSuggestionsHandler(r)
    <2>1. \A n, c : /\ <<"all", n>>[1] = "all"
                    /\ <<"category", c, n>>[1] = "category"
                    /\ <<"category", c, n>>[3] = n
                    /\ <<"search", n>>[1] = "search"
                    /\ <<"autocomplete", n>>[1] = "autocomplete"
      OBVIOUS
    <2> QED BY <1>1, <1>4, <2>1
            DEF GetProductsHandler, GetProductsByCategoryIDHandler,
                SearchProductsHandler, SearchProductsPaginatedHandler,
                AutocompleteSuggestionsHandler, KindOf
  <1>5. CASE GetAllProductsHandler(r) \/ GetFilteredCategoryProducts(r)
    BY <1>5 DEF GetAllProductsHandler, GetFilteredCategoryProducts,
                RequestMove, AskAt, Saving
  <1>6. CASE \/ GetAllProductFilterOptionsHandler(r)
             \/ GetFilterOptionsByCategoryNameHandler(r)
    BY <1>6 DEF GetAllProductFilterOptionsHandler,
                GetFilterOptionsByCategoryNameHandler, RequestMove, AskAt,
                Saving
  <1>7. CASE CreateV2ProductHandler(r)
    BY <1>7 DEF CreateV2ProductHandler, RequestMove, AskAt, Saving
  <1>8. CASE DeleteProductHandler(r) \/ ArchiveProductHandler(r)
    BY <1>8 DEF DeleteProductHandler, ArchiveProductHandler, RequestMove,
                AskAt, Saving
  <1>9. CASE UpdateExchangeRateHandler(r)
    BY <1>9 DEF UpdateExchangeRateHandler, RequestMove, AskAt, Saving
  <1>10. CASE \/ DeleteProductsHandler(r) \/ ArchiveProductsHandler(r)
              \/ DraftProductsHandler(r) \/ ActivateProductsHandler(r)
    BY <1>10 DEF DeleteProductsHandler, ArchiveProductsHandler,
                 DraftProductsHandler, ActivateProductsHandler, Bulk,
                 RequestMove, AskAt, Saving
  <1> QED BY <1>2, <1>3, <1>4, <1>5, <1>6, <1>7, <1>8, <1>9, <1>10
          DEF Requested

LEMMA RequestTypes ==
    ASSUME TInv, NEW r \in Requests, RequestMove(r)
    PROVE  /\ TInv'
           /\ pc[r] = "idle"
           /\ pc'[r] \in {"find", "count", "options", "named", "verify",
                          "slug", "rate"}
           /\ got' = got
           /\ \A q \in Requests \ {r} :
                 pc'[q] = pc[q] /\ body'[q] = body[q]
           /\ UNCHANGED <<t, s3, redis, second, sent, shared, removed,
                          overtaken, outdated>>
  <1>1. PICK b : \E step \in {"find", "count", "options", "named", "verify",
                              "slug", "rate"} :
                     Begin(r, b, step) /\ AskAt(step, b)
    BY DEF RequestMove
  <1>2. PICK step \in {"find", "count", "options", "named", "verify", "slug",
                       "rate"} :
            Begin(r, b, step) /\ AskAt(step, b)
    BY <1>1
  <1>3. /\ pc[r] = "idle" /\ got' = got
        /\ UNCHANGED <<t, s3, redis, second, sent, shared, removed,
                       overtaken, outdated>>
    BY <1>2 DEF Begin
  <1>4. pc' = [pc EXCEPT ![r] = step] /\ body' = [body EXCEPT ![r] = b]
    BY <1>2 DEF Begin, Go
  <1>5. step \in Steps /\ pc \in [Requests -> Steps]
    BY DEF Steps, Reading, Writing, TInv, TypeOK
  <1>6. /\ pc' \in [Requests -> Steps] /\ pc'[r] = step /\ body'[r] = b
        /\ body' = [q \in Requests |-> body'[q]]
        /\ \A q \in Requests \ {r} : pc'[q] = pc[q] /\ body'[q] = body[q]
    BY <1>4, <1>5 DEF TInv, Shaped
  <1>7. Shaped'
    BY <1>3, <1>6 DEF TInv, Shaped, IsGot
  <1>8. ASSUME NEW q \in Requests
        PROVE  AskAt(pc[q], body[q])' /\ HoldsAt(pc[q], got[q])'
    <2>1. AskAt(pc'[q], body'[q])
      BY <1>2, <1>6 DEF TInv
    <2>2. HoldsAt(pc'[q], got'[q])
      BY <1>3, <1>6 DEF TInv, HoldsAt
    <2>3. AskAt(pc[q], body[q])'
      BY <2>1 DEF AskAt
    <2>4. HoldsAt(pc[q], got[q])'
      BY <2>2 DEF HoldsAt
    <2> QED BY <2>3, <2>4
  <1>9. TypeOK'
    <2>1. IsCatalogue(t)'
      BY <1>3 DEF TInv, TypeOK
    <2> QED BY <1>3, <1>6, <2>1 DEF TInv, TypeOK, Steps
  <1> QED BY <1>3, <1>6, <1>7, <1>8, <1>9 DEF TInv


\* A step of a writer that writes no table, one that does, and its end.
LEMMA StepTypes ==
    ASSUME TInv, NEW r \in Requests, NEW from,
           NEW to \in Steps \ {"idle", "ok"}, NEW holds, IsGot(holds),
           AskAt(to, body[r]), HoldsAt(to, holds), Step(r, from, to, holds)
    PROVE  TInv'
  <1>1. Go(r, to) /\ Held(r, to, holds)
    BY DEF Step
  <1>2. /\ pc' \in [Requests -> Steps] /\ Shaped'
        /\ \A q \in Requests :
              AskAt(pc[q], body[q])' /\ HoldsAt(pc[q], got[q])'
    BY <1>1, Moves
  <1>3. UNCHANGED <<t, s3, redis, second, sent, shared, removed, overtaken,
                    outdated>>
    BY DEF Step
  <1>4. IsCatalogue(t)'
    BY <1>3 DEF TInv, TypeOK
  <1>5. TypeOK'
    BY <1>2, <1>3, <1>4 DEF TInv, TypeOK, Steps
  <1> QED BY <1>2, <1>5 DEF TInv

LEMMA WroteTypes ==
    ASSUME TInv, NEW r \in Requests, NEW new, IsCatalogue(new),
           NEW to \in Unflushed, NEW holds, IsGot(holds),
           AskAt(to, body[r]), HoldsAt(to, holds), Wrote(r, new, to, holds)
    PROVE  TInv'
  <1>1. Go(r, to) /\ Held(r, to, holds) /\ to \in Steps \ {"idle", "ok"}
    BY DEF Wrote, Unflushed, Steps, Writing
  <1>2. /\ pc' \in [Requests -> Steps] /\ Shaped'
        /\ \A q \in Requests :
              AskAt(pc[q], body[q])' /\ HoldsAt(pc[q], got[q])'
    BY <1>1, Moves
  <1>3. /\ UNCHANGED <<s3, redis, second, sent, shared, outdated>>
        /\ t' = new /\ removed' \subseteq Products
        /\ overtaken' \subseteq Requests
    BY DEF Wrote, TInv, TypeOK, Live, Holding
  <1>4. IsCatalogue(t)'
    BY <1>3
  <1>5. TypeOK'
    BY <1>2, <1>3, <1>4 DEF TInv, TypeOK, Steps
  <1> QED BY <1>2, <1>5 DEF TInv

LEMMA GiveUpTypes ==
    ASSUME TInv, NEW r \in Requests, NEW from, GiveUp(r, from)
    PROVE  /\ TInv'
           /\ pc'[r] = "failed"
           /\ \A q \in Requests \ {r} :
                 pc'[q] = pc[q] /\ body'[q] = body[q] /\ got'[q] = got[q]
           /\ UNCHANGED <<t, s3, second, sent, shared, removed, overtaken>>
  <1>1. /\ Go(r, "failed") /\ Held(r, "failed", got[r]) /\ IsGot(got[r])
        /\ "failed" \in Steps \ {"idle"} /\ HoldsAt("failed", got[r])
    BY DEF GiveUp, TInv, Shaped, Steps, Done, HoldsAt
  <1>2. /\ pc' \in [Requests -> Steps] /\ Shaped' /\ pc'[r] = "failed"
        /\ \A q \in Requests :
              AskAt(pc[q], body[q])' /\ HoldsAt(pc[q], got[q])'
        /\ \A q \in Requests \ {r} :
              pc'[q] = pc[q] /\ body'[q] = body[q] /\ got'[q] = got[q]
    BY <1>1, Moves
  <1>3. /\ UNCHANGED <<t, s3, redis, second, sent, shared, removed, overtaken>>
        /\ outdated' \in {DOMAIN redis, outdated}
    BY DEF GiveUp
  <1>4. IsCatalogue(t)'
    BY <1>3 DEF TInv, TypeOK
  <1>5. TypeOK'
    BY <1>2, <1>3, <1>4 DEF TInv, TypeOK, Steps
  <1> QED BY <1>2, <1>3, <1>5 DEF TInv

\* The steps that may follow those of a save.
LEMMA AfterSaving ==
    ASSUME TInv, NEW r \in Requests, pc[r] \in Saving
    PROVE  /\ body[r].op = "save" /\ body[r].form \in Forms
           /\ AfterImages(r) \in {"order", "spec", "flush"}
           /\ AfterRow(r) \in {"upload", "order", "spec", "flush"}
           /\ \A to \in Saving \union {"flush"} : AskAt(to, body[r])
  BY DEF TInv, AskAt, Saving, AfterImages, AfterRow

LEMMA VerifyTypes ==
    ASSUME TInv, NEW r \in Requests, VerifyAdminStatus(r)
    PROVE  TInv'
  <1>1. ASSUME Step(r, "verify", IF body[r].op = "save" THEN "known"
                                 ELSE "bulk", Nothing)
        PROVE  TInv'
    <2> DEFINE to == IF body[r].op = "save" THEN "known" ELSE "bulk"
    <2>1. AskAt(to, body[r]) /\ HoldsAt(to, Nothing)
      BY DEF VerifyAdminStatus, TInv, AskAt, Saving, HoldsAt
    <2>2. to \in Steps \ {"idle", "ok"}
      BY DEF Steps, Writing
    <2> HIDE DEF to
    <2> QED BY <1>1, <2>1, <2>2, NothingHeld, StepTypes DEF to
  <1> QED BY <1>1, GiveUpTypes DEF VerifyAdminStatus

LEMMA KnownTypes ==
    ASSUME TInv, NEW r \in Requests, GetOrSetExisting(r)
    PROVE  TInv'
  <1> DEFINE hit == [Nothing EXCEPT !.hit = TRUE]
  <1>1. pc[r] \in Saving
    BY DEF GetOrSetExisting, Saving
  <1>2. AskAt("update", body[r]) /\ AskAt("insert", body[r])
    BY <1>1, AfterSaving DEF Saving
  <1>3. IsGot(hit) /\ hit.todo = <<>> /\ hit.paths = <<>>
    BY NothingHeld, HoldsHit DEF Nothing
  <1>4. HoldsAt("update", hit) /\ HoldsAt("insert", Nothing)
    BY <1>3 DEF HoldsAt, Nothing
  <1>5. {"update", "insert"} \subseteq Steps \ {"idle", "ok"}
    BY DEF Steps, Writing
  <1> HIDE DEF hit
  <1> QED BY <1>2, <1>3, <1>4, <1>5, NothingHeld, StepTypes, GiveUpTypes
          DEF GetOrSetExisting, hit

LEMMA UpdateTypes ==
    ASSUME TInv, NEW r \in Requests, UpdateExistingProduct(r)
    PROVE  TInv'
  <1>1. pc[r] = "update" /\ pc[r] \in Saving /\ IsGot(got[r])
    BY DEF UpdateExistingProduct, Saving, TInv, Shaped
  <1>2. AfterRow(r) \in Unflushed /\ AskAt(AfterRow(r), body[r])
    BY <1>1, AfterSaving DEF Unflushed, Saving
  <1>3. HoldsAt(AfterRow(r), got[r])
    <2>1. <<>> \in Seq(Paths)
      OBVIOUS
    <2> QED BY <1>1, <2>1, AfterSaving DEF TInv, HoldsAt
  <1>4. IsCatalogue(t)
    BY DEF TInv, TypeOK
  <1> QED BY <1>1, <1>2, <1>3, <1>4, WroteTypes, GiveUpTypes
          DEF UpdateExistingProduct

LEMMA InsertTypes ==
    ASSUME TInv, NEW r \in Requests, CreateNewProduct(r)
    PROVE  TInv'
  <1> DEFINE new == CreateProduct(t, r, body[r].form, second)
             holds == [got[r] EXCEPT !.about = r]
  <1>1. pc[r] = "insert" /\ pc[r] \in Saving /\ IsGot(got[r])
    BY DEF CreateNewProduct, Saving, TInv, Shaped
  <1>2. AfterRow(r) \in Unflushed /\ AskAt(AfterRow(r), body[r])
    BY <1>1, AfterSaving DEF Unflushed, Saving
  <1>3. IsGot(holds) /\ holds.todo = got[r].todo /\ holds.paths = got[r].paths
    BY <1>1, HoldsAbout
  <1>4. HoldsAt(AfterRow(r), holds)
    <2>1. <<>> \in Seq(Paths)
      OBVIOUS
    <2> QED BY <1>1, <1>3, <2>1, AfterSaving DEF TInv, HoldsAt
  <1>5. ASSUME MayCreate(t, body[r].form) PROVE IsCatalogue(new)
    <2>1. /\ IsCatalogue(t) /\ r \in Products /\ body[r].form \in Forms
          /\ second \in Nat
      BY <1>1, AfterSaving, ProductsAssumption DEF TInv, TypeOK
    <2> QED BY <1>5, <2>1, CreateKeeps
  <1> HIDE DEF new, holds
  <1> QED BY <1>2, <1>3, <1>4, <1>5, WroteTypes, GiveUpTypes
          DEF CreateNewProduct, new, holds

\* The objects that r uploads.
LEMMA UploadTypes ==
    ASSUME TInv, NEW r \in Requests, UploadMultipleFilesToS3(r)
    PROVE  /\ TInv'
           /\ UNCHANGED <<t, redis, second, body, removed, overtaken>>
           /\ \A q \in Requests \ {r} : pc'[q] = pc[q] /\ got'[q] = got[q]
           /\ \E stored \in SUBSET Paths :
                 /\ s3' = s3 \union stored
                 /\ sent' = sent \union stored
                 /\ shared' = shared \union (sent \intersect stored)
                 /\ \/ /\ pc'[r] = "failed" /\ got'[r].hit = got[r].hit
                       /\ outdated' = DOMAIN redis
                    \/ \E file \in body[r].form.files \ Uploaded(r) :
                          /\ stored = {generateFilePath(file)}
                          /\ pc'[r] = IF body[r].form.files \ Uploaded(r)
                                             = {file}
                                      THEN "image" ELSE "upload"
                          /\ got'[r].todo =
                                Append(got[r].todo, generateFilePath(file))
                          /\ got'[r].paths =
                                Append(got[r].paths, generateFilePath(file))
                          /\ got'[r].about = got[r].about
                          /\ got'[r].hit = got[r].hit
                          /\ outdated' = outdated
  <1> DEFINE left == body[r].form.files \ Uploaded(r)
  <1>1. /\ pc[r] = "upload" /\ pc[r] \in Saving
        /\ UNCHANGED <<t, redis, second, body, removed, overtaken>>
    BY DEF UploadMultipleFilesToS3, Saving
  <1>2. PICK file \in left, failed \in BOOLEAN :
        \E on \in IF failed THEN SUBSET (left \ {file}) ELSE {{file}} :
           LET stored == {generateFilePath(x) : x \in on} IN
           /\ s3' = s3 \union stored
           /\ sent' = sent \union stored
           /\ shared' = shared \union (sent \intersect stored)
           /\ Go(r, CASE failed -> "failed"
                      [] ~failed /\ left = {file} -> "image"
                      [] OTHER -> "upload")
           /\ got' = [got EXCEPT ![r] =
                         IF failed THEN [Nothing EXCEPT !.hit = got[r].hit]
                         ELSE [got[r] EXCEPT
                                  !.paths = Append(@, generateFilePath(file)),
                                  !.todo = Append(@, generateFilePath(file))]]
           /\ outdated' = IF failed THEN DOMAIN redis ELSE outdated
    BY DEF UploadMultipleFilesToS3
  <1>3. PICK on \in IF failed THEN SUBSET (left \ {file}) ELSE {{file}} :
           LET stored == {generateFilePath(x) : x \in on} IN
           /\ s3' = s3 \union stored
           /\ sent' = sent \union stored
           /\ shared' = shared \union (sent \intersect stored)
           /\ Go(r, CASE failed -> "failed"
                      [] ~failed /\ left = {file} -> "image"
                      [] OTHER -> "upload")
           /\ got' = [got EXCEPT ![r] =
                         IF failed THEN [Nothing EXCEPT !.hit = got[r].hit]
                         ELSE [got[r] EXCEPT
                                  !.paths = Append(@, generateFilePath(file)),
                                  !.todo = Append(@, generateFilePath(file))]]
           /\ outdated' = IF failed THEN DOMAIN redis ELSE outdated
    BY <1>2
  <1> DEFINE stored == {generateFilePath(x) : x \in on}
             path == generateFilePath(file)
             added == [got[r] EXCEPT !.paths = Append(@, path),
                                     !.todo = Append(@, path)]
             rest == [Nothing EXCEPT !.hit = got[r].hit]
             held == IF failed THEN rest ELSE added
             to == IF failed THEN "failed"
                   ELSE IF left = {file} THEN "image" ELSE "upload"
  <1>4. body[r].op = "save" /\ body[r].form \in Forms
    BY <1>1, AfterSaving
  <1>5. \A x \in left : generateFilePath(x) \in Paths
    BY <1>4, ProductsAssumption DEF generateFilePath, TInv, TypeOK
  <1>6. stored \in SUBSET Paths /\ path \in Paths
    BY <1>2, <1>3, <1>5
  <1>7. IsGot(rest) /\ rest.hit = got[r].hit
    BY NothingHeld, HoldsHit
  <1>8. /\ IsGot(added) /\ added.todo = Append(got[r].todo, path)
        /\ added.paths = Append(got[r].paths, path)
        /\ added.about = got[r].about /\ added.hit = got[r].hit
    <2> DEFINE one == [got[r] EXCEPT !.paths = Append(@, path)]
               more == Append(got[r].paths, path)
    <2>0. IsGot(got[r]) /\ one = [got[r] EXCEPT !.paths = more]
      BY DEF TInv, Shaped
    <2>2. added = [one EXCEPT !.todo = Append(@, path)]
      OBVIOUS
    <2> HIDE DEF one, added, path
    <2>1. /\ IsGot(one) /\ one.paths = more /\ one.todo = got[r].todo
          /\ one.about = got[r].about /\ one.hit = got[r].hit
      <3> HIDE DEF more
      <3> QED BY <2>0, HoldsPaths
    <2> DEFINE then == Append(one.todo, path)
    <2>3. added = [one EXCEPT !.todo = then]
      BY <2>2
    <2>4. /\ IsGot(added) /\ added.todo = then /\ added.paths = one.paths
          /\ added.about = one.about /\ added.hit = one.hit
      <3> HIDE DEF then
      <3>1. IsGot(one)
        BY <2>1
      <3> QED BY <2>3, <3>1, HoldsTodo
    <2> QED BY <2>1, <2>4
  <1> HIDE DEF path, added, rest, stored, left
  <1>9. /\ got' = [got EXCEPT ![r] = held] /\ pc' = [pc EXCEPT ![r] = to]
        /\ s3' = s3 \union stored
        /\ sent' = sent \union stored
        /\ shared' = shared \union (sent \intersect stored)
        /\ outdated' = IF failed THEN DOMAIN redis ELSE outdated
    <2>1. got' = [got EXCEPT ![r] = held]
      <3>1. CASE failed
        BY <1>3, <3>1 DEF rest
      <3>2. CASE ~failed
        <4>1. added = [got[r] EXCEPT
                                  !.paths = Append(@, generateFilePath(file)),
                                  !.todo = Append(@, generateFilePath(file))]
          BY DEF added, path
        <4> QED BY <1>3, <3>2, <4>1
      <3> QED BY <3>1, <3>2
    <2>2. pc' = [pc EXCEPT ![r] = to]
      BY <1>3 DEF Go
    <2> QED BY <1>3, <2>1, <2>2 DEF stored
  <1>10. IsGot(held)
    BY <1>7, <1>8
  <1>11. AskAt(to, body[r])
    <2>1. AskAt("failed", body[r])
      BY DEF AskAt, Saving
    <2> QED BY <1>1, <2>1, AfterSaving DEF Saving
  <1>12. HoldsAt(to, held)
    <2>1. got[r].paths \in Seq(Paths) /\ got[r].todo = got[r].paths
      BY <1>1 DEF TInv, HoldsAt
    <2>2. Append(got[r].paths, path) \in Seq(Paths) \ {<<>>}
      BY <1>6, <2>1
    <2>3. /\ added.paths \in Seq(Paths) /\ added.todo = added.paths
          /\ added.todo # <<>>
      BY <1>8, <2>1, <2>2
    <2> QED BY <2>3 DEF HoldsAt
  <1>13. to \in Steps
    BY DEF Steps, Writing, Unflushed, Done
  <1> HIDE DEF held, to
  <1>14. /\ pc' \in [Requests -> Steps] /\ pc'[r] = to
         /\ got' = [q \in Requests |-> got'[q]] /\ got'[r] = held
         /\ \A q \in Requests \ {r} : pc'[q] = pc[q] /\ got'[q] = got[q]
    BY <1>9, <1>13 DEF TInv, TypeOK, Shaped, Steps
  <1>15. Shaped'
    <2>1. ASSUME NEW q \in Requests PROVE IsGot(got[q])'
      <3>1. IsGot(got'[q])
        BY <1>10, <1>14 DEF TInv, Shaped
      <3> QED BY <3>1 DEF IsGot
    <2> QED BY <1>1, <1>14, <2>1 DEF TInv, Shaped
  <1>16. ASSUME NEW q \in Requests
         PROVE  AskAt(pc[q], body[q])' /\ HoldsAt(pc[q], got[q])'
    <2>1. AskAt(pc'[q], body'[q]) /\ HoldsAt(pc'[q], got'[q])
      BY <1>1, <1>11, <1>12, <1>14 DEF TInv
    <2>2. AskAt(pc[q], body[q])'
      BY <2>1 DEF AskAt
    <2>3. HoldsAt(pc[q], got[q])'
      BY <2>1 DEF HoldsAt
    <2> QED BY <2>2, <2>3
  <1>17. TypeOK'
    <2>1. IsCatalogue(t)'
      BY <1>1 DEF TInv, TypeOK
    <2> QED BY <1>1, <1>6, <1>9, <1>14, <2>1 DEF TInv, TypeOK, Steps
  <1>18. TInv'
    BY <1>15, <1>16, <1>17 DEF TInv
  <1>19. ~failed => stored = {path}
    BY <1>3 DEF stored, path
  <1> QED BY <1>1, <1>2, <1>6, <1>7, <1>8, <1>9, <1>14, <1>18, <1>19
          DEF held, to, left, path


\* The first of a list, and the others.
LEMMA RestOf ==
    ASSUME NEW S, NEW s \in Seq(S), s # <<>>
    PROVE  /\ Head(s) \in S /\ Tail(s) \in Seq(S)
           /\ Len(s) # 1 => Tail(s) # <<>>
           /\ Range(s) = {Head(s)} \union Range(Tail(s))
           /\ Len(s) = 1 => Range(Tail(s)) = {}
           /\ DOMAIN s = 1..Len(s) /\ Len(s) \in Nat
  <1>1. DOMAIN s = 1..Len(s) /\ Len(s) \in Nat /\ Len(s) # 0
    OBVIOUS
  <1>2. Head(s) = s[1] /\ s[1] \in S
    BY <1>1
  <1>3. Tail(s) \in Seq(S) /\ Len(Tail(s)) = Len(s) - 1
    BY <1>1
  <1>4. \A i \in 1..(Len(s) - 1) : Tail(s)[i] = s[i + 1]
    BY <1>1
  <1>5. DOMAIN Tail(s) = 1..(Len(s) - 1)
    BY <1>3
  <1>6. ASSUME NEW x \in Range(s)
        PROVE  x = Head(s) \/ x \in Range(Tail(s))
    <2>1. PICK i \in DOMAIN s : x = s[i]
      BY <1>6 DEF Range
    <2>2. CASE i = 1
      BY <2>1, <2>2, <1>2
    <2>3. CASE i # 1
      <3>1. i - 1 \in 1..(Len(s) - 1) /\ Tail(s)[i - 1] = x
        BY <1>1, <1>4, <2>1, <2>3
      <3> QED BY <3>1, <1>5 DEF Range
    <2> QED BY <2>2, <2>3
  <1>7. ASSUME NEW x \in Range(Tail(s)) PROVE x \in Range(s)
    <2>1. PICK i \in DOMAIN Tail(s) : x = Tail(s)[i]
      BY <1>7 DEF Range
    <2>2. i + 1 \in DOMAIN s /\ x = s[i + 1]
      BY <1>1, <1>4, <1>5, <2>1
    <2> QED BY <2>2 DEF Range
  <1>8. Head(s) \in Range(s)
    BY <1>1, <1>2 DEF Range
  <1>9. ASSUME Len(s) # 1 PROVE Tail(s) # <<>>
    <2> DEFINE rest == Tail(s)
    <2>1. rest \in Seq(S) /\ Len(rest) # 0
      BY <1>1, <1>3, <1>9
    <2> HIDE DEF rest
    <2>2. rest # <<>>
      BY <2>1
    <2> QED BY <2>2 DEF rest
  <1>10. Len(s) = 1 => Range(Tail(s)) = {}
    BY <1>5 DEF Range
  <1> QED BY <1>1, <1>2, <1>3, <1>6, <1>7, <1>8, <1>9, <1>10

LEMMA ImageTypes ==
    ASSUME TInv, NEW r \in Requests, CreateProductImages(r)
    PROVE  TInv'
  <1> DEFINE left == Tail(got[r].todo)
             holds == [got[r] EXCEPT !.todo = left]
             to == IF Len(got[r].todo) = 1 THEN AfterImages(r) ELSE "image"
             new == CreateProductImage(t, r, Head(got[r].todo))
  <1>1. /\ pc[r] = "image" /\ pc[r] \in Saving /\ IsGot(got[r])
        /\ got[r].todo \in Seq(Paths) /\ got[r].todo # <<>>
    BY DEF CreateProductImages, Saving, TInv, Shaped, HoldsAt
  <1>2. Head(got[r].todo) \in Paths /\ left \in Seq(Paths)
        /\ (Len(got[r].todo) # 1 => left # <<>>)
    BY <1>1, RestOf
  <1>3. IsGot(holds) /\ holds.todo = left
    <2> HIDE DEF left
    <2> QED BY <1>1, HoldsTodo
  <1>4. to \in Unflushed /\ AskAt(to, body[r]) /\ HoldsAt(to, holds)
    BY <1>1, <1>2, <1>3, AfterSaving DEF Unflushed, Saving, HoldsAt
  <1>5. ASSUME HasProduct(r) PROVE IsCatalogue(new)
    <2>1. IsCatalogue(t) /\ r \in Live(t)
      BY <1>5, ProductsAssumption DEF HasProduct, Live, TInv, TypeOK
    <2> QED BY <1>2, <2>1, ImageKeeps
  <1>6. GiveUp(r, "image") \/ (HasProduct(r) /\ Wrote(r, new, to, holds))
    BY DEF CreateProductImages
  <1> HIDE DEF holds, to, new
  <1> QED BY <1>3, <1>4, <1>5, <1>6, WroteTypes, GiveUpTypes

LEMMA OrderTypes ==
    ASSUME TInv, NEW r \in Requests, UpdateProductImageUrls(r)
    PROVE  TInv'
  <1> DEFINE to == IF body[r].form.specs # {} THEN "spec" ELSE "flush"
             new == IF HasProduct(r)
                    THEN UpdateProductImages(t, r, body[r].form.order) ELSE t
  <1>1. pc[r] \in Saving /\ IsGot(got[r])
    BY DEF UpdateProductImageUrls, Saving, TInv, Shaped
  <1>2. to \in Unflushed /\ AskAt(to, body[r]) /\ HoldsAt(to, got[r])
    BY <1>1, AfterSaving DEF Unflushed, Saving, HoldsAt
  <1>3. IsCatalogue(new)
    <2>1. IsCatalogue(t)
      BY DEF TInv, TypeOK
    <2>2. ASSUME HasProduct(r)
          PROVE  IsCatalogue(UpdateProductImages(t, r, body[r].form.order))
      <3>1. r \in Live(t) /\ body[r].form.order \in Seq(Paths)
        BY <1>1, <2>2, AfterSaving, ProductsAssumption DEF HasProduct, Live
      <3> QED BY <2>1, <3>1, OrderKeeps
    <2> QED BY <2>1, <2>2
  <1>4. GiveUp(r, "order") \/ Wrote(r, new, to, got[r])
    BY DEF UpdateProductImageUrls
  <1> HIDE DEF to, new
  <1> QED BY <1>1, <1>2, <1>3, <1>4, WroteTypes, GiveUpTypes

LEMMA SpecTypes ==
    ASSUME TInv, NEW r \in Requests, UpsertSpecifications(r)
    PROVE  TInv'
  <1>1. pc[r] \in Saving /\ IsGot(got[r])
    BY DEF UpsertSpecifications, Saving, TInv, Shaped
  <1>2. \A to \in {"flush", "spec"} :
            /\ to \in Unflushed /\ AskAt(to, body[r])
            /\ HoldsAt(to, got[r])
    BY <1>1, AfterSaving DEF Unflushed, Saving, HoldsAt
  <1>3. ASSUME HasProduct(r), NEW spec \in body[r].form.specs
        PROVE  IsCatalogue(UpsertProductSpecification(t, r, spec))
    <2>1. r \in Live(t) /\ spec \in Specs /\ IsCatalogue(t)
      BY <1>1, <1>3, AfterSaving, ProductsAssumption
         DEF HasProduct, Live, TInv, TypeOK
    <2> QED BY <2>1, SpecKeeps
  <1> QED BY <1>1, <1>2, <1>3, WroteTypes, GiveUpTypes
          DEF UpsertSpecifications

LEMMA FindTypes ==
    ASSUME TInv, NEW r \in Requests, FindProduct(r) \/ ReadImageKeys(r)
    PROVE  TInv'
  <1>1. IsGot(got[r]) /\ body[r].op # "save"
    BY DEF FindProduct, ReadImageKeys, TInv, Shaped, AskAt
  <1>2. \A to \in {"keys", "archive", "delete"} : \A h :
            /\ to \in Steps \ {"idle", "ok"}
            /\ AskAt(to, body[r]) /\ HoldsAt(to, h)
    BY <1>1 DEF Steps, Writing, Unflushed, AskAt, Saving, HoldsAt
  <1>3. ASSUME NEW p, NEW to \in {"keys", "archive"},
               Step(r, "slug", to, [Nothing EXCEPT !.about = p])
        PROVE  TInv'
    <2>1. IsGot([Nothing EXCEPT !.about = p])
      BY NothingHeld, HoldsAbout
    <2> QED BY <1>2, <1>3, <2>1, StepTypes
  <1>4. ASSUME NEW s, Step(r, "keys", "delete", [got[r] EXCEPT !.paths = s])
        PROVE  TInv'
    <2>1. IsGot([got[r] EXCEPT !.paths = s])
      BY <1>1, HoldsPaths
    <2> QED BY <1>2, <1>4, <2>1, StepTypes
  <1>5. CASE FindProduct(r)
    BY <1>3, <1>5, GiveUpTypes DEF FindProduct
  <1> QED BY <1>4, <1>5, GiveUpTypes DEF ReadImageKeys

LEMMA DeleteTypes ==
    ASSUME TInv, NEW r \in Requests, DeleteProduct(r)
    PROVE  TInv'
  <1>1. IsGot(got[r]) /\ body[r].op # "save" /\ IsCatalogue(t)
    BY DEF DeleteProduct, TInv, Shaped, AskAt, TypeOK
  <1>2. /\ "purge" \in Unflushed /\ AskAt("purge", body[r])
        /\ HoldsAt("purge", got[r])
    BY <1>1 DEF Unflushed, AskAt, Saving, HoldsAt
  <1>3. IsCatalogue(DeleteProductByID(t, got[r].about))
    BY <1>1, DeleteKeeps DEF DeleteProductByID
  <1> QED BY <1>1, <1>2, <1>3, WroteTypes, GiveUpTypes DEF DeleteProduct

\* A step in which r goes on to the flush with nothing in its hands.
LEMMA FlushNext ==
    ASSUME TInv, NEW r \in Requests, Go(r, "flush"),
           body[r].op # "save", body' = body,
           got' = [got EXCEPT ![r] = Nothing]
    PROVE  /\ pc' \in [Requests -> Steps]
           /\ Shaped'
           /\ \A q \in Requests :
                 AskAt(pc[q], body[q])' /\ HoldsAt(pc[q], got[q])'
           /\ \A q \in Requests \ {r} :
                 pc'[q] = pc[q] /\ body'[q] = body[q] /\ got'[q] = got[q]
           /\ pc'[r] = "flush"
           /\ got'[r] = Nothing
  <1>1. AskAt("flush", body[r]) /\ HoldsAt("flush", Nothing)
    BY DEF AskAt, Saving, HoldsAt
  <1>2. Held(r, "flush", Nothing) /\ "flush" \in Steps \ {"idle"}
    BY DEF Held, Done, Steps, Writing, Unflushed
  <1>3. "flush" \notin Done
    BY DEF Done
  <1> QED BY <1>1, <1>2, <1>3, NothingHeld, Moves

LEMMA PurgeTypes ==
    ASSUME TInv, NEW r \in Requests, DeleteMultipleFilesFromS3(r)
    PROVE  TInv'
  <1>1. body[r].op # "save" /\ pc[r] = "purge"
    BY DEF DeleteMultipleFilesFromS3, TInv, AskAt
  <1>2. CASE ~GiveUp(r, "purge")
    <2>1. /\ Go(r, "flush") /\ body' = body
          /\ got' = [got EXCEPT ![r] = Nothing]
          /\ s3' \subseteq s3
          /\ UNCHANGED <<t, redis, second, body, sent, shared, removed,
                         overtaken, outdated>>
      BY <1>2 DEF DeleteMultipleFilesFromS3
    <2>2. /\ pc' \in [Requests -> Steps] /\ Shaped'
          /\ \A q \in Requests :
                AskAt(pc[q], body[q])' /\ HoldsAt(pc[q], got[q])'
      BY <1>1, <2>1, FlushNext
    <2>3. IsCatalogue(t)'
      BY <2>1 DEF TInv, TypeOK
    <2>4. TypeOK'
      BY <2>1, <2>2, <2>3 DEF TInv, TypeOK, Steps
    <2> QED BY <2>2, <2>4 DEF TInv
  <1> QED BY <1>2, GiveUpTypes

LEMMA StatementTypes ==
    ASSUME TInv, NEW r \in Requests, NEW from, body[r].op # "save",
           NEW new, IsCatalogue(new),
           Wrote(r, new, "flush", Nothing) \/ GiveUp(r, from)
    PROVE  TInv'
  <1>1. AskAt("flush", body[r]) /\ HoldsAt("flush", Nothing)
    BY DEF AskAt, Saving, HoldsAt
  <1>2. "flush" \in Unflushed
    BY DEF Unflushed
  <1> QED BY <1>1, <1>2, NothingHeld, WroteTypes, GiveUpTypes

\* The statement on the products of r's slugs.
BulkState(r) ==
    CASE body[r].op = "deletemany" -> DeleteProductsBySlugs(t, body[r].slugs)
      [] body[r].op = "archivemany" ->
             ArchiveProductsBySlugs(t, body[r].slugs)
      [] body[r].op = "draftmany" -> DraftProductsBySlugs(t, body[r].slugs)
      [] OTHER -> ActivateProductsBySlugs(t, body[r].slugs)

LEMMA BulkKeeps ==
    ASSUME TInv, NEW r \in Requests
    PROVE  \/ \E ps : BulkState(r) = DeleteProducts(t, ps)
           \/ \E ps : \E status \in Statuses :
                 BulkState(r) = SetStatus(t, ps, status)
  BY DEF BulkState, DeleteProductsBySlugs, ArchiveProductsBySlugs,
         DraftProductsBySlugs, ActivateProductsBySlugs, Statuses

LEMMA StatusTypes ==
    ASSUME TInv, NEW r \in Requests, ArchiveProduct(r) \/ BulkStatement(r)
    PROVE  TInv'
  <1>1. IsCatalogue(t) /\ body[r].op # "save"
    BY DEF TInv, TypeOK, AskAt, ArchiveProduct, BulkStatement
  <1>2. CASE ArchiveProduct(r)
    <2>1. IsCatalogue(ArchiveProductByID(t, got[r].about))
      BY <1>1, StatusKeeps DEF ArchiveProductByID, Statuses
    <2> QED BY <1>1, <1>2, <2>1, StatementTypes DEF ArchiveProduct
  <1>3. CASE BulkStatement(r)
    <2>1. IsCatalogue(BulkState(r))
      <3>1. ASSUME NEW ps, BulkState(r) = DeleteProducts(t, ps)
            PROVE  IsCatalogue(BulkState(r))
        <4>1. IsCatalogue(DeleteProducts(t, ps))
          BY <1>1, DeleteKeeps
        <4> QED BY <3>1, <4>1
      <3>2. ASSUME NEW ps, NEW status \in Statuses,
                   BulkState(r) = SetStatus(t, ps, status)
            PROVE  IsCatalogue(BulkState(r))
        BY <1>1, <3>2, StatusKeeps
      <3> QED BY <3>1, <3>2, BulkKeeps
    <2>2. Wrote(r, BulkState(r), "flush", Nothing) \/ GiveUp(r, "bulk")
      BY <1>3 DEF BulkStatement, BulkState
    <2> QED BY <1>1, <2>1, <2>2, StatementTypes
  <1> QED BY <1>2, <1>3

LEMMA RateTypes ==
    ASSUME TInv, NEW r \in Requests, StoreExchangeRate(r)
    PROVE  TInv'
  <1> DEFINE holds == [Nothing EXCEPT !.value = body[r].rate]
             new == UpdateExchangeRate(t, body[r].rate)
  <1>1. AskAt("rate", body[r]) /\ IsCatalogue(t)
    BY DEF StoreExchangeRate, TInv, TypeOK
  <1>2. AskAt("keep", body[r]) /\ HoldsAt("keep", holds) /\ "keep" \in Unflushed
    BY <1>1 DEF AskAt, Saving, HoldsAt, Unflushed
  <1>3. IsGot(holds)
    BY NothingHeld, HoldsValue
  <1>4. IsCatalogue(new)
    BY <1>1, RateKeeps, ProductsAssumption DEF AskAt
  <1>5. Wrote(r, new, "keep", holds) \/ GiveUp(r, "rate")
    BY DEF StoreExchangeRate
  <1> HIDE DEF holds, new
  <1> QED BY <1>2, <1>3, <1>4, <1>5, WroteTypes, GiveUpTypes

LEMMA KeepTypes ==
    ASSUME TInv, NEW r \in Requests, KeepExchangeRate(r)
    PROVE  TInv'
  <1>1. body[r].op # "save"
    BY DEF KeepExchangeRate, TInv, AskAt
  <1>2. /\ Go(r, "flush") /\ got' = [got EXCEPT ![r] = Nothing]
        /\ UNCHANGED <<t, s3, second, body, sent, shared, removed, overtaken>>
    BY DEF KeepExchangeRate
  <1>3. /\ pc' \in [Requests -> Steps] /\ Shaped'
        /\ \A q \in Requests :
              AskAt(pc[q], body[q])' /\ HoldsAt(pc[q], got[q])'
    BY <1>1, <1>2, FlushNext
  <1>4. /\ \A k \in DOMAIN redis' : k[1] \in Kinds /\ redis'[k].by \in Requests
        /\ outdated' \subseteq DOMAIN redis'
    <2>1. <<"rate">>[1] \in Kinds
      BY DEF Kinds
    <2>2. CASE redis' = redis
      BY <2>2 DEF KeepExchangeRate, TInv, TypeOK, Updated
    <2>3. CASE redis' = Updated(redis, [k \in {<<"rate">>} |->
                                          [value |-> got[r].value, by |-> r]])
      BY <2>1, <2>3 DEF KeepExchangeRate, TInv, TypeOK, Updated
    <2> QED BY <2>2, <2>3 DEF KeepExchangeRate
  <1>5. IsCatalogue(t)'
    BY <1>2 DEF TInv, TypeOK
  <1>6. TypeOK'
    BY <1>2, <1>3, <1>4, <1>5 DEF TInv, TypeOK, Steps
  <1> QED BY <1>3, <1>6 DEF TInv

LEMMA FlushTypes ==
    ASSUME TInv, NEW r \in Requests, InvalidateProductCache(r)
    PROVE  TInv'
  <1>1. /\ pc[r] = "flush" /\ Go(r, "ok") /\ Held(r, "ok", got[r])
        /\ IsGot(got[r])
        /\ UNCHANGED <<t, s3, second, sent, shared, removed, overtaken>>
    BY DEF InvalidateProductCache, TInv, Shaped
  <1>2. /\ body[r].op = "save" => body[r].form \in Forms
        /\ HoldsAt("ok", got[r]) /\ "ok" \in Steps \ {"idle"}
    BY <1>1 DEF TInv, AskAt, HoldsAt, Steps, Done
  <1>3. /\ pc' \in [Requests -> Steps] /\ Shaped'
        /\ \A q \in Requests :
              AskAt(pc[q], body[q])' /\ HoldsAt(pc[q], got[q])'
    BY <1>1, <1>2, Moves
  <1>4. /\ \A k \in DOMAIN redis' : k[1] \in Kinds /\ redis'[k].by \in Requests
        /\ outdated' \subseteq DOMAIN redis'
    BY DEF InvalidateProductCache, TInv, TypeOK, ProductKeys
  <1>5. IsCatalogue(t)'
    BY <1>1 DEF TInv, TypeOK
  <1>6. TypeOK'
    BY <1>1, <1>3, <1>4, <1>5 DEF TInv, TypeOK, Steps
  <1> QED BY <1>3, <1>6 DEF TInv

LEMMA ChangeTypes ==
    ASSUME TInv, NEW r \in Requests, Changed(r)
    PROVE  TInv'
  BY VerifyTypes, KnownTypes, UpdateTypes, InsertTypes, UploadTypes,
     ImageTypes, OrderTypes, SpecTypes, FindTypes, DeleteTypes, PurgeTypes,
     StatusTypes, RateTypes, KeepTypes, FlushTypes DEF Changed

LEMMA InitTInv == Init => TInv
  <1> SUFFICES ASSUME Init PROVE TInv
    OBVIOUS
  <1>1. IsCatalogue(t)
    BY ProductsAssumption DEF Init
  <1>2. s3 \subseteq Paths
    <2>1. \A p \in Products : t.images[p] \in Seq(Image)
      BY <1>1, CatalogueShape
    <2>2. \A p \in Products : \A i \in DOMAIN t.images[p] :
              t.images[p][i].path \in Paths
      <3> TAKE p \in Products
      <3> TAKE i \in DOMAIN t.images[p]
      <3>1. t.images[p][i] \in Image
        BY <2>1
      <3> QED BY <3>1 DEF Image
    <2>3. s3 = UNION {PathsOf(p) : p \in Products}
      BY DEF Init
    <2>4. \A p \in Products : PathsOf(p) \subseteq Paths
      BY <2>2 DEF PathsOf
    <2> QED BY <2>3, <2>4
  <1>3. pc \in [Requests -> Steps] /\ \A r \in Requests : pc[r] = "idle"
    BY DEF Init, Steps, Done
  <1>4. TypeOK
    BY <1>1, <1>2, <1>3, ProductsAssumption DEF Init, TypeOK, Steps
  <1>5. Shaped
    BY NothingHeld DEF Init, Shaped
  <1>6. \A r \in Requests : AskAt(pc[r], body[r]) /\ HoldsAt(pc[r], got[r])
    BY <1>3 DEF AskAt, HoldsAt, Saving
  <1> QED BY <1>4, <1>5, <1>6 DEF TInv

LEMMA NextTInv == TInv /\ [Next]_vars => TInv'
  <1> SUFFICES ASSUME TInv, [Next]_vars PROVE TInv'
    OBVIOUS
  <1>1. ASSUME NEW r \in Requests, Requested(r) PROVE TInv'
    BY <1>1, RequestsMove, RequestTypes
  <1>2. ASSUME NEW r \in Requests, Read(r) PROVE TInv'
    BY <1>2, ReadersMove, ReadTypes
  <1>3. ASSUME NEW r \in Requests, Changed(r) PROVE TInv'
    BY <1>3, ChangeTypes
  <1>4. ASSUME UNCHANGED <<t, pc, body, got>>,
               UNCHANGED <<s3, sent, shared, removed, overtaken>>,
               second' \in 0..LastSecond, outdated' \subseteq DOMAIN redis',
               \A k \in DOMAIN redis' :
                   k \in DOMAIN redis /\ redis'[k] = redis[k]
        PROVE  TInv'
    <2>1. IsCatalogue(t)'
      BY <1>4 DEF TInv, TypeOK
    <2>2. TypeOK'
      BY <1>4, <2>1 DEF TInv, TypeOK
    <2>3. Shaped'
      BY <1>4 DEF TInv, Shaped, IsGot
    <2>4. ASSUME NEW r \in Requests
          PROVE  AskAt(pc[r], body[r])' /\ HoldsAt(pc[r], got[r])'
      BY <1>4 DEF TInv, AskAt, HoldsAt
    <2> QED BY <2>2, <2>3, <2>4 DEF TInv
  <1>5. CASE Expire
    BY <1>4, <1>5 DEF Expire, TInv, TypeOK
  <1>6. CASE Tick
    BY <1>4, <1>6, ProductsAssumption DEF Tick, TInv, TypeOK
  <1>7. CASE UNCHANGED vars
    BY <1>4, <1>7 DEF vars, TInv, TypeOK
  <1> QED BY <1>1, <1>2, <1>3, <1>5, <1>6, <1>7 DEF Next

\* The tables keep their types and their constraints, whichever requests
\* interleave and wherever they stop: slugs stay UNIQUE although generate_slug
\* looks for a free one, and no row outlives its product.
THEOREM ProductsTyped == Spec => []TypeOK
  <1>1. TInv => TypeOK
    BY DEF TInv
  <1> QED BY <1>1, InitTInv, NextTInv, PTL DEF Spec

-----------------------------------------------------------------------------
(* The images in S3, and what was saved.                                   *)

\* The steps before the row of a product is inserted.
Early == {"idle", "verify", "known", "insert"}

\* The images that are uploaded for p, and have no row yet.
Pending(p) == {x \in Range(got[p].todo) :
                  pc[p] \in {"upload", "image"} /\ t.items[p] # None}

\* The objects that the rows of p name, or are about to.
Uses(p) == PathsOf(p) \union (IF p \in Requests THEN Pending(p) ELSE {})

\* What d deletes from S3 is used by no other product, and its own product is
\* gone by then.
Deletes(d) ==
    /\ pc[d] \in {"keys", "delete", "purge"} =>
          /\ got[d].about \in Products
          /\ got[d].about \in Requests => pc[got[d].about] \notin Early
    /\ pc[d] \in {"delete", "purge"} =>
          /\ Range(got[d].paths) \subseteq sent
          /\ \A q \in Products \ {got[d].about} :
                Range(got[d].paths) \intersect Uses(q) \subseteq shared
    /\ pc[d] = "purge" => t.items[got[d].about] = None

\* The files of what r has left to insert, and those of its rows.
ToShow(r) == {got[r].todo[i][2] : i \in DOMAIN got[r].todo}
Shown(r) == {x[2] : x \in PathsOf(r)}

\* What the save of r has stored at each of its steps.
SavedSoFar(r) ==
    /\ t.items[r] # None
    /\ pc[r] = "upload" =>
          PathsOf(r) = {} /\ ToShow(r) \subseteq body[r].form.files
    /\ pc[r] = "image" => body[r].form.files = Shown(r) \union ToShow(r)
    /\ pc[r] \notin {"upload", "image"} => body[r].form.files = Shown(r)
    /\ pc[r] \in {"flush", "ok"} => body[r].form.specs \subseteq t.specs[r]

Storing(r) ==
    /\ pc[r] \in {"upload", "image", "order", "spec", "flush", "ok"}
    /\ body[r] # None /\ body[r].op = "save"
    /\ ~got[r].hit /\ r \notin removed

Saves(r) ==
    /\ pc[r] \in Early => t.items[r] = None
    /\ pc[r] = "insert" => ~got[r].hit
    /\ pc[r] = "update" => got[r].hit
    /\ Storing(r) => SavedSoFar(r)

\* The inductive invariant of the images and of the saves.
PInv ==
    /\ \A p, q \in Products :
          p # q => Uses(p) \intersect Uses(q) \subseteq shared
    /\ \A p \in Products :
          Uses(p) \subseteq s3 \union shared /\ Uses(p) \subseteq sent
    /\ \A r \in Requests : Deletes(r) /\ Saves(r)

\* Nothing but r moves.
Alone(r) == \A q \in Requests \ {r} :
                pc'[q] = pc[q] /\ body'[q] = body[q] /\ got'[q] = got[q]

\* A step keeps the products of ps as they are, or removes them.
Keeps(ps) ==
    /\ removed \subseteq removed'
    /\ \A q \in ps :
          /\ t.items[q] = None => t'.items[q] = None
          /\ PathsOf(q)' \subseteq PathsOf(q)
          /\ q \notin removed' /\ t.items[q] # None =>
                /\ t'.items[q] # None
                /\ PathsOf(q)' = PathsOf(q)
                /\ t'.specs[q] = t.specs[q]

LEMMA UsesFrame ==
    ASSUME NEW r \in Requests, Alone(r), NEW q \in Products \ {r}, Keeps({q})
    PROVE  Uses(q)' \subseteq Uses(q)
  BY DEF Alone, Keeps, Uses, Pending

\* What another request has saved stays saved.
LEMMA SavesFrame ==
    ASSUME NEW r \in Requests, Alone(r), NEW q \in Requests \ {r}, Keeps({q}),
           Saves(q)
    PROVE  Saves(q)'
  <1>1. /\ pc'[q] = pc[q] /\ body'[q] = body[q] /\ got'[q] = got[q]
        /\ removed \subseteq removed'
    BY DEF Alone, Keeps
  <1>2. pc'[q] \in Early => t'.items[q] = None
    BY <1>1 DEF Keeps, Saves
  <1>3. ASSUME Storing(q)' PROVE SavedSoFar(q)'
    <2>1. Storing(q) /\ q \notin removed'
      BY <1>1, <1>3 DEF Storing
    <2>2. SavedSoFar(q)
      BY <2>1 DEF Saves
    <2>3. /\ t'.items[q] # None /\ PathsOf(q)' = PathsOf(q)
          /\ t'.specs[q] = t.specs[q]
      BY <2>1, <2>2 DEF Keeps, SavedSoFar
    <2>4. Shown(q)' = Shown(q) /\ ToShow(q)' = ToShow(q)
      BY <1>1, <2>3 DEF Shown, ToShow
    <2> QED BY <1>1, <2>2, <2>3, <2>4 DEF SavedSoFar
  <1> QED BY <1>1, <1>2, <1>3 DEF Saves

\* A step of r in which it stores the objects of stored, or others disappear
\* that no product uses.
LEMMA ImageStep ==
    ASSUME TInv, PInv, NEW r \in Requests, Alone(r), Keeps(Products \ {r}),
           NEW stored,
           stored \subseteq s3', sent' = sent \union stored,
           shared' = shared \union (sent \intersect stored),
           \A p \in Products : Uses(p) \subseteq s3' \union shared',
           Uses(r)' \subseteq Uses(r) \union stored,
           t.items[r] = None /\ t'.items[r] # None => pc[r] \in Early,
           pc'[r] \in Early => pc[r] \in Early,
           Deletes(r)', Saves(r)'
    PROVE  PInv'
  <1>1. ASSUME NEW p \in Products
        PROVE  Uses(p)' \subseteq Uses(p) \union (IF p = r THEN stored ELSE {})
    <2>1. CASE p = r
      BY <2>1
    <2>2. CASE p # r
      <3>1. Keeps({p})
        BY <2>2 DEF Keeps
      <3> QED BY <2>2, <3>1, UsesFrame
    <2> QED BY <2>1, <2>2
  <1>2. \A p \in Products : Uses(p) \subseteq sent
    BY DEF PInv
  <1>3. ASSUME NEW p \in Products, NEW q \in Products, p # q
        PROVE  Uses(p)' \intersect Uses(q)' \subseteq shared'
    <2>1. Uses(p) \intersect Uses(q) \subseteq shared
      BY <1>3 DEF PInv
    <2> QED BY <1>1, <1>2, <1>3, <2>1
  <1>4. ASSUME NEW p \in Products
        PROVE  Uses(p)' \subseteq s3' \union shared' /\ Uses(p)' \subseteq sent'
    BY <1>1, <1>2
  <1>5. ASSUME NEW d \in Requests \ {r} PROVE Deletes(d)'
    <2>1. pc'[d] = pc[d] /\ got'[d] = got[d] /\ Deletes(d)
      BY DEF Alone, PInv
    <2> DEFINE about == got[d].about
    <2>2. ASSUME pc[d] \in {"keys", "delete", "purge"}
          PROVE  /\ about \in Products
                 /\ about \in Requests =>
                       pc[about] \notin Early /\ pc'[about] \notin Early
      <3>1. /\ about \in Products
            /\ about \in Requests => pc[about] \notin Early
        BY <2>1, <2>2 DEF Deletes
      <3>2. about \in Requests \ {r} => pc'[about] = pc[about]
        BY DEF Alone
      <3> QED BY <3>1, <3>2
    <2>3. ASSUME pc[d] \in {"delete", "purge"}
          PROVE  /\ Range(got[d].paths) \subseteq sent'
                 /\ \A q \in Products \ {about} :
                       Range(got[d].paths) \intersect Uses(q)' \subseteq shared'
      <3>1. /\ Range(got[d].paths) \subseteq sent
            /\ \A q \in Products \ {about} :
                  Range(got[d].paths) \intersect Uses(q) \subseteq shared
        BY <2>1, <2>3 DEF Deletes
      <3>2. ASSUME NEW q \in Products \ {about}
            PROVE  Range(got[d].paths) \intersect Uses(q)' \subseteq shared'
        <4> HIDE DEF about
        <4> QED BY <1>1, <3>1, <3>2
      <3> QED BY <3>1, <3>2
    <2>4. ASSUME pc[d] = "purge" PROVE t'.items[about] = None
      <3>1. t.items[about] = None /\ about \in Products
        BY <2>1, <2>4 DEF Deletes
      <3>2. CASE about = r
        BY <2>2, <2>4, <3>1, <3>2
      <3>3. CASE about # r
        BY <3>1, <3>3 DEF Keeps
      <3> QED BY <3>2, <3>3
    <2> HIDE DEF about
    <2>5. /\ pc'[d] \in {"keys", "delete", "purge"} =>
                /\ about \in Products
                /\ about \in Requests => pc'[about] \notin Early
          /\ pc'[d] \in {"delete", "purge"} =>
                /\ Range(got[d].paths) \subseteq sent'
                /\ \A q \in Products \ {about} :
                      Range(got[d].paths) \intersect Uses(q)' \subseteq shared'
          /\ pc'[d] = "purge" => t'.items[about] = None
      BY <2>1, <2>2, <2>3, <2>4
    <2> QED BY <2>1, <2>5 DEF Deletes, about
  <1>6. ASSUME NEW q \in Requests \ {r} PROVE Saves(q)'
    <2>1. Keeps({q}) /\ Saves(q)
      BY ProductsAssumption DEF Keeps, PInv
    <2> QED BY <2>1, SavesFrame
  <1> QED BY <1>3, <1>4, <1>5, <1>6 DEF PInv

\* A step that uploads nothing.
LEMMA PlainStep ==
    ASSUME TInv, PInv, NEW r \in Requests, Alone(r), Keeps(Products \ {r}),
           UNCHANGED <<s3, sent, shared>>,
           PathsOf(r)' \subseteq Uses(r), Pending(r)' \subseteq Uses(r),
           t.items[r] = None /\ t'.items[r] # None => pc[r] \in Early,
           pc'[r] \in Early => pc[r] \in Early,
           Deletes(r)', Saves(r)'
    PROVE  PInv'
  <1>1. Uses(r)' \subseteq Uses(r) \union {}
    BY DEF Uses
  <1>2. \A p \in Products : Uses(p) \subseteq s3' \union shared'
    BY DEF PInv
  <1>3. {} \subseteq s3' /\ sent' = sent \union {}
        /\ shared' = shared \union (sent \intersect {})
    OBVIOUS
  <1> QED BY <1>1, <1>2, <1>3, ImageStep

\* One in which r's own product is kept too, and no image is in its hands.
LEMMA IdleStep ==
    ASSUME TInv, PInv, NEW r \in Requests, Alone(r), Keeps(Products),
           UNCHANGED <<s3, sent, shared>>,
           pc'[r] \notin {"upload", "image"} \/ got'[r].todo = <<>>,
           pc'[r] \in Early => pc[r] \in Early,
           Deletes(r)', Saves(r)'
    PROVE  PInv'
  <1>1. PathsOf(r)' \subseteq Uses(r)
    BY ProductsAssumption DEF Keeps, Uses
  <1>2. Pending(r)' = {}
    BY DEF Pending, Range
  <1>3. Keeps(Products \ {r}) /\ (t.items[r] = None => t'.items[r] = None)
    BY ProductsAssumption DEF Keeps
  <1> QED BY <1>1, <1>2, <1>3, PlainStep

LEMMA SameTables == t' = t /\ removed' = removed => Keeps(Products)
  BY DEF Keeps, PathsOf

LEMMA NoDelete ==
    ASSUME NEW r \in Requests, pc'[r] \notin {"keys", "delete", "purge"}
    PROVE  Deletes(r)'
  BY DEF Deletes

LEMMA NoSave ==
    ASSUME NEW r \in Requests, pc'[r] \in Early => t'.items[r] = None,
           pc'[r] \notin {"insert", "update"},
           pc'[r] \in {"upload", "image", "order", "spec", "flush", "ok"} =>
               body'[r] = None \/ body'[r].op # "save" \/ got'[r].hit
    PROVE  Saves(r)'
  BY DEF Saves, Storing

LEMMA Moved ==
    ASSUME TInv, NEW r \in Requests, NEW to, NEW holds,
           Go(r, to), Held(r, to, holds)
    PROVE  /\ Alone(r) /\ pc'[r] = to
           /\ got'[r] = IF to \in Done THEN [Nothing EXCEPT !.hit = holds.hit]
                        ELSE holds
           /\ body'[r] = IF to \in {"ok", "failed"} /\ body[r].op # "save"
                         THEN None ELSE body[r]
  <1> DEFINE held == IF to \in Done THEN [Nothing EXCEPT !.hit = holds.hit]
                     ELSE holds
             asks == IF to \in {"ok", "failed"} /\ body[r].op # "save"
                     THEN None ELSE body[r]
  <1>1. got' = [got EXCEPT ![r] = held] /\ pc' = [pc EXCEPT ![r] = to]
    BY DEF Held, Go
  <1>2. body' = [body EXCEPT ![r] = asks]
    BY DEF Held, TInv, Shaped
  <1>3. got = [q \in Requests |-> got[q]] /\ body = [q \in Requests |-> body[q]]
        /\ pc \in [Requests -> Steps]
    BY DEF TInv, Shaped, TypeOK, Steps
  <1> HIDE DEF held, asks
  <1>4. got'[r] = held /\ body'[r] = asks /\ pc'[r] = to
    BY <1>1, <1>2, <1>3
  <1>5. Alone(r)
    BY <1>1, <1>2, <1>3 DEF Alone
  <1> QED BY <1>4, <1>5 DEF held, asks

LEMMA RequestImages ==
    ASSUME TInv, PInv, NEW r \in Requests, RequestMove(r)
    PROVE  PInv'
  <1>1. /\ pc[r] = "idle"
        /\ pc'[r] \in {"find", "count", "options", "named", "verify", "slug",
                       "rate"}
        /\ Alone(r)
        /\ UNCHANGED <<t, s3, sent, shared, removed>>
    BY RequestTypes DEF Alone
  <1>2. t'.items[r] = None
    BY <1>1 DEF PInv, Saves, Early
  <1>3. Deletes(r)' /\ Saves(r)'
    BY <1>1, <1>2, NoDelete, NoSave
  <1> QED BY <1>1, <1>3, SameTables, IdleStep DEF Early

LEMMA ReadImages ==
    ASSUME TInv, PInv, NEW r \in Requests, ReadMove(r)
    PROVE  PInv'
  <1>1. PICK to \in Reading \union {"ok", "failed"} :
            \E holds : Go(r, to) /\ Held(r, to, holds)
    BY DEF ReadMove
  <1>2. PICK holds : Go(r, to) /\ Held(r, to, holds)
    BY <1>1
  <1>3. body[r].op # "save" /\ UNCHANGED <<t, s3, sent, shared, removed>>
    BY DEF ReadMove, TInv, AskAt, Reading, Keyed, KindOf
  <1>4. /\ Alone(r) /\ pc'[r] = to
        /\ to = "ok" => body'[r] = None
    BY <1>2, <1>3, Moved
  <1>5. Deletes(r)' /\ Saves(r)'
    BY <1>4, NoDelete, NoSave DEF Reading, Early
  <1> QED BY <1>3, <1>4, <1>5, SameTables, IdleStep DEF Early, Reading

LEMMA GiveUpImages ==
    ASSUME TInv, PInv, NEW r \in Requests, NEW from, GiveUp(r, from)
    PROVE  PInv'
  <1>1. /\ pc'[r] = "failed" /\ Alone(r)
        /\ UNCHANGED <<t, s3, sent, shared, removed>>
    BY GiveUpTypes DEF Alone
  <1>2. Deletes(r)' /\ Saves(r)'
    BY <1>1, NoDelete, NoSave DEF Early
  <1> QED BY <1>1, <1>2, SameTables, IdleStep DEF Early

LEMMA VerifyImages ==
    ASSUME TInv, PInv, NEW r \in Requests, VerifyAdminStatus(r)
    PROVE  PInv'
  <1>1. ASSUME NEW to \in {"known", "bulk"}, Step(r, "verify", to, Nothing)
        PROVE  PInv'
    <2>1. /\ pc[r] = "verify" /\ pc'[r] = to /\ Alone(r)
          /\ UNCHANGED <<t, s3, sent, shared, removed>>
      BY <1>1, Moved DEF Step
    <2>2. t'.items[r] = None
      BY <2>1 DEF PInv, Saves, Early
    <2>3. Deletes(r)' /\ Saves(r)'
      BY <2>1, <2>2, NoDelete, NoSave
    <2> QED BY <2>1, <2>3, SameTables, IdleStep DEF Early
  <1> QED BY <1>1, GiveUpImages DEF VerifyAdminStatus

LEMMA KnownImages ==
    ASSUME TInv, PInv, NEW r \in Requests, GetOrSetExisting(r)
    PROVE  PInv'
  <1> DEFINE hit == [Nothing EXCEPT !.hit = TRUE]
  <1>1. hit.hit /\ ~Nothing.hit
    BY NothingHeld, HoldsHit DEF Nothing
  <1> HIDE DEF hit
  <1>2. ASSUME NEW to \in {"update", "insert"}, NEW holds,
               Step(r, "known", to, holds),
               \/ to = "update" /\ holds.hit
               \/ to = "insert" /\ ~holds.hit
        PROVE  PInv'
    <2>1. /\ pc[r] = "known" /\ pc'[r] = to /\ Alone(r) /\ got'[r] = holds
          /\ UNCHANGED <<t, s3, sent, shared, removed>>
      BY <1>2, Moved DEF Step, Done
    <2>2. t'.items[r] = None
      BY <2>1 DEF PInv, Saves, Early
    <2>3. Saves(r)'
      BY <1>2, <2>1, <2>2 DEF Saves, Storing
    <2> QED BY <2>1, <2>3, NoDelete, SameTables, IdleStep DEF Early
  <1>3. CASE Step(r, "known", "update", hit)
    BY <1>1, <1>2, <1>3
  <1>4. CASE Step(r, "known", "insert", Nothing)
    BY <1>1, <1>2, <1>4
  <1> QED BY <1>3, <1>4, GiveUpImages DEF GetOrSetExisting, hit

\* The first step after the row.
LEMMA UpdateImages ==
    ASSUME TInv, PInv, NEW r \in Requests, UpdateExistingProduct(r)
    PROVE  PInv'
  <1>1. pc[r] = "update" /\ pc[r] \in Saving /\ got[r].hit
        /\ got[r].todo = <<>>
    BY DEF UpdateExistingProduct, Saving, PInv, Saves, TInv, HoldsAt
  <1>2. AfterRow(r) \in {"upload", "order", "spec", "flush"}
    BY <1>1, AfterSaving
  <1>3. ASSUME Wrote(r, t, AfterRow(r), got[r]) PROVE PInv'
    <2>1. /\ pc'[r] = AfterRow(r) /\ Alone(r) /\ got'[r] = got[r]
          /\ UNCHANGED <<t, s3, sent, shared>>
      BY <1>2, <1>3, Moved DEF Wrote, Done
    <2>2. removed' = removed
      BY <1>3 DEF Wrote
    <2>3. Deletes(r)' /\ Saves(r)'
      BY <1>1, <1>2, <2>1, NoDelete, NoSave DEF Early
    <2> QED BY <1>1, <1>2, <2>1, <2>2, <2>3, SameTables, IdleStep DEF Early
  <1> QED BY <1>3, GiveUpImages DEF UpdateExistingProduct

LEMMA InsertImages ==
    ASSUME TInv, PInv, NEW r \in Requests, CreateNewProduct(r)
    PROVE  PInv'
  <1> DEFINE new == CreateProduct(t, r, body[r].form, second)
             holds == [got[r] EXCEPT !.about = r]
             to == AfterRow(r)
  <1>1. /\ pc[r] = "insert" /\ pc[r] \in Saving /\ ~got[r].hit
        /\ got[r].todo = <<>> /\ t.items[r] = None /\ IsGot(got[r])
        /\ r \in Products
    BY ProductsAssumption
       DEF CreateNewProduct, Saving, PInv, Saves, Early, TInv, HoldsAt, Shaped
  <1>2. /\ to \in {"upload", "order", "spec", "flush"}
        /\ to \in {"order", "spec", "flush"} => body[r].form.files = {}
        /\ to = "flush" => body[r].form.specs = {}
    BY <1>1, AfterSaving DEF AfterRow, AfterImages
  <1>3. IsGot(holds) /\ holds.todo = <<>> /\ holds.hit = got[r].hit
    BY <1>1, HoldsAbout
  <1>4. ASSUME MayCreate(t, body[r].form), Wrote(r, new, to, holds)
        PROVE  PInv'
    <2>1. /\ new.items[r] # None
          /\ \A p \in Products \ {r} : new.items[p] = t.items[p]
          /\ new.images = t.images /\ new.specs = t.specs
      <3>1. /\ IsCatalogue(t) /\ body[r].form \in Forms /\ second \in Nat
        BY <1>1, AfterSaving, ProductsAssumption DEF TInv, TypeOK
      <3> QED BY <1>1, <1>4, <3>1, CreateKeeps
    <2> HIDE DEF new, holds, to
    <2>2. /\ pc'[r] = to /\ Alone(r) /\ got'[r] = holds /\ t' = new
          /\ body'[r] = body[r] /\ UNCHANGED <<s3, sent, shared>>
          /\ removed \subseteq removed'
      BY <1>2, <1>4, Moved DEF Wrote, Done
    <2>3. Keeps(Products \ {r})
      BY <2>1, <2>2 DEF Keeps, PathsOf
    <2>4. PathsOf(r)' = PathsOf(r) /\ PathsOf(r) = {}
      <3>1. t.images[r] = <<>>
        BY <1>1 DEF TInv, TypeOK, IsCatalogue, Live
      <3> QED BY <2>1, <2>2, <3>1 DEF PathsOf
    <2>5. Pending(r)' = {}
      BY <1>3, <2>2 DEF Pending, Range
    <2>6. Saves(r)'
      <3>1. ToShow(r)' = {} /\ Shown(r)' = {}
        BY <1>3, <2>2, <2>4 DEF ToShow, Shown
      <3>2. t'.items[r] # None
        BY <2>1, <2>2
      <3>3. SavedSoFar(r)'
        BY <1>2, <2>2, <2>4, <3>1, <3>2 DEF SavedSoFar
      <3> QED BY <1>2, <2>2, <3>3 DEF Saves, Early
    <2>7. Deletes(r)'
      BY <1>2, <2>2, NoDelete
    <2>8. PathsOf(r)' \subseteq Uses(r) /\ Pending(r)' \subseteq Uses(r)
      BY <2>4, <2>5
    <2> QED BY <1>1, <1>2, <2>2, <2>3, <2>6, <2>7, <2>8, PlainStep DEF Early
  <1> QED BY <1>4, GiveUpImages DEF CreateNewProduct

\* What is uploaded joins what is in r's hands, and is shared if it was there.
LEMMA UploadImages ==
    ASSUME TInv, PInv, NEW r \in Requests, UploadMultipleFilesToS3(r)
    PROVE  PInv'
  <1>1. pc[r] = "upload" /\ got[r].paths \in Seq(Paths)
        /\ got[r].todo = got[r].paths /\ pc[r] \in Saving
    BY DEF UploadMultipleFilesToS3, TInv, HoldsAt, Saving
  <1>2. /\ UNCHANGED <<t, body, removed>>
        /\ Alone(r)
    BY UploadTypes DEF Alone
  <1>3. PICK stored \in SUBSET Paths :
                 /\ s3' = s3 \union stored
                 /\ sent' = sent \union stored
                 /\ shared' = shared \union (sent \intersect stored)
                 /\ \/ pc'[r] = "failed" /\ got'[r].hit = got[r].hit
                    \/ \E file \in body[r].form.files \ Uploaded(r) :
                          /\ stored = {generateFilePath(file)}
                          /\ pc'[r] = IF body[r].form.files \ Uploaded(r)
                                             = {file}
                                      THEN "image" ELSE "upload"
                          /\ got'[r].todo =
                                Append(got[r].todo, generateFilePath(file))
                          /\ got'[r].paths =
                                Append(got[r].paths, generateFilePath(file))
                          /\ got'[r].about = got[r].about
                          /\ got'[r].hit = got[r].hit
                          /\ outdated' = outdated
    BY UploadTypes
  <1>4. Keeps(Products)
    BY <1>2, SameTables
  <1>5. PathsOf(r)' = PathsOf(r)
    BY <1>2 DEF PathsOf
  <1>6. pc'[r] \in {"failed", "image", "upload"} /\ Deletes(r)'
    BY <1>3, NoDelete
  <1>7. /\ \A p \in Products : Uses(p) \subseteq s3' \union shared'
        /\ Keeps(Products \ {r}) /\ t'.items[r] = t.items[r]
    BY <1>2, <1>3, <1>4 DEF PInv, Keeps
  <1>8. CASE pc'[r] = "failed"
    <2>1. Pending(r)' = {}
      BY <1>8 DEF Pending
    <2>2. Uses(r)' \subseteq Uses(r) \union stored
      BY <1>5, <2>1 DEF Uses
    <2>3. Saves(r)'
      BY <1>8, NoSave DEF Early
    <2> QED BY <1>2, <1>3, <1>6, <1>7, <1>8, <2>2, <2>3, ImageStep DEF Early
  <1>9. CASE pc'[r] # "failed"
    <2>1. PICK file \in body[r].form.files \ Uploaded(r) :
             /\ stored = {generateFilePath(file)}
             /\ pc'[r] = IF body[r].form.files \ Uploaded(r) = {file}
                         THEN "image" ELSE "upload"
             /\ got'[r].todo = Append(got[r].todo, generateFilePath(file))
             /\ got'[r].hit = got[r].hit
      BY <1>3, <1>9
    <2> DEFINE path == generateFilePath(file)
               todo == got[r].todo
    <2>2. path \in Paths /\ path[2] = file
      BY <2>1 DEF generateFilePath
    <2>3. todo \in Seq(Paths) /\ Uploaded(r) = ToShow(r)
      BY <1>1 DEF Uploaded, ToShow
    <2> HIDE DEF path
    <2>4. /\ Range(got'[r].todo) = Range(todo) \union {path}
          /\ ToShow(r)' = ToShow(r) \union {file}
      <3>1. got'[r].todo = Append(todo, path)
        BY <2>1 DEF path
      <3>2. /\ DOMAIN Append(todo, path) = DOMAIN todo \union {Len(todo) + 1}
            /\ \A i \in DOMAIN todo : Append(todo, path)[i] = todo[i]
            /\ Append(todo, path)[Len(todo) + 1] = path
        <4> HIDE DEF todo
        <4> QED BY <2>2, <2>3
      <3> QED BY <2>2, <3>1, <3>2 DEF Range, ToShow
    <2>5. Uses(r)' \subseteq Uses(r) \union stored
      <3>1. Pending(r)' \subseteq Pending(r) \union {path}
        BY <1>1, <1>7, <2>4 DEF Pending
      <3> QED BY <1>5, <2>1, <3>1 DEF Uses, path
    <2>6. ASSUME Storing(r)' PROVE SavedSoFar(r)'
      <3>1. Storing(r)
        BY <1>1, <1>2, <2>1, <2>6 DEF Storing
      <3>2. /\ t.items[r] # None /\ PathsOf(r) = {}
            /\ ToShow(r) \subseteq body[r].form.files
        BY <1>1, <3>1 DEF PInv, Saves, SavedSoFar
      <3>3. Shown(r)' = {}
        BY <1>5, <3>2 DEF Shown
      <3>4. pc'[r] = "image" =>
                body'[r].form.files = Shown(r)' \union ToShow(r)'
        BY <1>2, <2>1, <2>3, <2>4, <3>2, <3>3
      <3>5. ToShow(r)' \subseteq body'[r].form.files
        BY <1>2, <2>1, <2>4, <3>2
      <3> QED BY <1>5, <1>6, <1>7, <1>9, <3>2, <3>4, <3>5 DEF SavedSoFar
    <2>7. Saves(r)'
      BY <1>6, <2>6 DEF Saves, Early
    <2> QED BY <1>2, <1>3, <1>6, <1>7, <2>5, <2>7, ImageStep DEF Early
  <1> QED BY <1>8, <1>9

\* The files of a list of paths.
LEMMA FilesShown ==
    ASSUME NEW r \in Requests
    PROVE  ToShow(r) = {x[2] : x \in Range(got[r].todo)}
  BY DEF ToShow, Range

\* An image that was uploaded gets its row.
LEMMA RowImages ==
    ASSUME TInv, PInv, NEW r \in Requests, CreateProductImages(r)
    PROVE  PInv'
  <1> DEFINE todo == got[r].todo
             left == Tail(todo)
             holds == [got[r] EXCEPT !.todo = left]
             to == IF Len(todo) = 1 THEN AfterImages(r) ELSE "image"
             new == CreateProductImage(t, r, Head(todo))
  <1>1. /\ pc[r] = "image" /\ pc[r] \in Saving /\ IsGot(got[r])
        /\ todo \in Seq(Paths) /\ todo # <<>>
        /\ r \in Products
    BY ProductsAssumption
       DEF CreateProductImages, Saving, TInv, Shaped, HoldsAt
  <1>2. /\ Head(todo) \in Paths /\ Range(todo) = {Head(todo)} \union Range(left)
        /\ Len(todo) = 1 => Range(left) = {}
    <2> HIDE DEF todo
    <2> QED BY <1>1, RestOf
  <1>3. holds.todo = left /\ holds.hit = got[r].hit
    <2> HIDE DEF left
    <2> QED BY <1>1, HoldsTodo
  <1>4. /\ to \in {"image", "order", "spec", "flush"}
        /\ to = "image" \/ Len(todo) = 1
        /\ to = "flush" => body[r].form.specs = {}
    BY <1>1, AfterSaving DEF AfterImages
  <1>5. ASSUME HasProduct(r), Wrote(r, new, to, holds)
        PROVE  PInv'
    <2>1. IsCatalogue(t) /\ r \in Live(t) /\ t.items[r] # None
      BY <1>1, <1>5 DEF HasProduct, Live, TInv, TypeOK
    <2>2. /\ new.items = t.items /\ new.specs = t.specs
          /\ \A q \in Products \ {r} : new.images[q] = t.images[q]
      BY <1>2, <2>1, ImageKeeps
    <2>3. PICK image \in Image :
             /\ image.path = Head(todo)
             /\ new.images[r] = Append(t.images[r], image)
      BY <1>2, <2>1, ImageKeeps
    <2> HIDE DEF new, holds, to
    <2>4. /\ pc'[r] = to /\ Alone(r) /\ got'[r] = holds /\ t' = new
          /\ body'[r] = body[r] /\ UNCHANGED <<s3, sent, shared>>
          /\ removed \subseteq removed'
      BY <1>4, <1>5, Moved DEF Wrote, Done
    <2>5. Keeps(Products \ {r})
      BY <2>2, <2>4 DEF Keeps, PathsOf
    <2> HIDE DEF todo
    <2>6. PathsOf(r)' = PathsOf(r) \union {Head(todo)}
      <3> DEFINE im == t.images[r]
      <3>1. im \in Seq(Image)
        BY <1>1, <2>1, CatalogueShape
      <3>2. t'.images[r] = Append(im, image)
        BY <2>3, <2>4
      <3>3. /\ DOMAIN Append(im, image) = DOMAIN im \union {Len(im) + 1}
            /\ \A i \in DOMAIN im : Append(im, image)[i] = im[i]
            /\ Append(im, image)[Len(im) + 1] = image
        <4> HIDE DEF im
        <4> QED BY <3>1
      <3> QED BY <2>3, <3>2, <3>3 DEF PathsOf
    <2>7. Pending(r) = Range(todo) /\ Pending(r)' \subseteq Range(left)
      BY <1>1, <1>3, <2>1, <2>4 DEF Pending, todo
    <2>8. PathsOf(r)' \subseteq Uses(r) /\ Pending(r)' \subseteq Uses(r)
      BY <1>2, <2>6, <2>7 DEF Uses
    <2>9. ASSUME Storing(r)' PROVE SavedSoFar(r)'
      <3>1. Storing(r)
        BY <1>1, <1>3, <2>4, <2>9 DEF Storing
      <3>2. body[r].form.files = Shown(r) \union ToShow(r)
        BY <1>1, <3>1 DEF PInv, Saves, SavedSoFar
      <3>3. ToShow(r) = {x[2] : x \in Range(todo)}
        BY FilesShown DEF todo
      <3>4. ToShow(r)' = {x[2] : x \in Range(left)}
        <4>1. got'[r].todo = left
          BY <1>3, <2>4
        <4> QED BY <4>1 DEF ToShow, Range
      <3>5. Shown(r)' = Shown(r) \union {Head(todo)[2]}
        BY <2>6 DEF Shown
      <3>6. body'[r].form.files = Shown(r)' \union ToShow(r)'
        BY <1>2, <2>4, <3>2, <3>3, <3>4, <3>5
      <3>7. to # "image" => ToShow(r)' = {}
        BY <1>2, <1>4, <3>4
      <3> QED BY <1>4, <2>1, <2>2, <2>4, <3>6, <3>7 DEF SavedSoFar
    <2>10. Saves(r)'
      BY <1>4, <2>4, <2>9 DEF Saves, Early
    <2>11. Deletes(r)'
      BY <1>4, <2>4, NoDelete
    <2> QED BY <1>4, <2>1, <2>4, <2>5, <2>8, <2>10, <2>11, PlainStep DEF Early
  <1> QED BY <1>5, GiveUpImages DEF CreateProductImages

\* The new order of the images leaves them what they are.
LEMMA OrderImages ==
    ASSUME TInv, PInv, NEW r \in Requests, UpdateProductImageUrls(r)
    PROVE  PInv'
  <1> DEFINE to == IF body[r].form.specs # {} THEN "spec" ELSE "flush"
             new == IF HasProduct(r)
                    THEN UpdateProductImages(t, r, body[r].form.order) ELSE t
  <1>1. pc[r] = "order" /\ pc[r] \in Saving /\ r \in Products
    BY ProductsAssumption DEF UpdateProductImageUrls, Saving
  <1>2. /\ new.items = t.items /\ new.specs = t.specs
        /\ \A q \in Products :
              /\ DOMAIN new.images[q] = DOMAIN t.images[q]
              /\ \A i \in DOMAIN t.images[q] :
                    new.images[q][i].path = t.images[q][i].path
    <2>1. CASE HasProduct(r)
      <3>1. IsCatalogue(t) /\ r \in Live(t) /\ body[r].form.order \in Seq(Paths)
        BY <1>1, <2>1, AfterSaving, ProductsAssumption
           DEF HasProduct, Live, TInv, TypeOK
      <3> QED BY <2>1, <3>1, OrderKeeps
    <2>2. CASE ~HasProduct(r)
      BY <2>2
    <2> QED BY <2>1, <2>2
  <1> HIDE DEF new
  <1>3. ASSUME Wrote(r, new, to, got[r]) PROVE PInv'
    <2>1. /\ pc'[r] = to /\ Alone(r) /\ got'[r] = got[r] /\ t' = new
          /\ body'[r] = body[r] /\ UNCHANGED <<s3, sent, shared>>
          /\ removed \subseteq removed'
      <3>1. to \notin Done
        BY DEF Done
      <3> HIDE DEF to
      <3> QED BY <1>3, <3>1, Moved DEF Wrote, Done
    <2>2. \A q \in Products : PathsOf(q)' = PathsOf(q)
      BY <1>2, <2>1 DEF PathsOf
    <2>3. Keeps(Products)
      BY <1>2, <2>1, <2>2 DEF Keeps
    <2>4. ASSUME Storing(r)' PROVE SavedSoFar(r)'
      <3>1. Storing(r)
        BY <1>1, <2>1, <2>4 DEF Storing
      <3>2. body[r].form.files = Shown(r) /\ t.items[r] # None
        BY <1>1, <3>1 DEF PInv, Saves, SavedSoFar
      <3>3. Shown(r)' = Shown(r)
        BY <1>1, <2>2 DEF Shown
      <3> QED BY <1>2, <2>1, <3>2, <3>3 DEF SavedSoFar
    <2>5. Saves(r)' /\ Deletes(r)'
      BY <2>1, <2>4, NoDelete DEF Saves, Early
    <2> QED BY <2>1, <2>3, <2>5, IdleStep DEF Early
  <1> QED BY <1>3, GiveUpImages DEF UpdateProductImageUrls, new

\* One specification is stored with those before it.
LEMMA SpecImages ==
    ASSUME TInv, PInv, NEW r \in Requests, UpsertSpecifications(r)
    PROVE  PInv'
  <1>1. pc[r] = "spec" /\ pc[r] \in Saving /\ r \in Products
    BY ProductsAssumption DEF UpsertSpecifications, Saving
  <1>2. ASSUME HasProduct(r), NEW spec \in body[r].form.specs, NEW new,
               new = UpsertProductSpecification(t, r, spec),
               NEW to, to = IF body[r].form.specs \subseteq new.specs[r]
                            THEN "flush" ELSE "spec",
               Wrote(r, new, to, got[r])
        PROVE  PInv'
    <2>1. /\ IsCatalogue(t) /\ r \in Live(t) /\ spec \in Specs
          /\ t.items[r] # None
      BY <1>1, <1>2, AfterSaving, ProductsAssumption
         DEF HasProduct, Live, TInv, TypeOK
    <2>2. /\ new.items = t.items /\ new.images = t.images
          /\ new.specs = [t.specs EXCEPT ![r] = @ \union {spec}]
      BY <1>2, <2>1, SpecKeeps
    <2>3. /\ pc'[r] = to /\ Alone(r) /\ got'[r] = got[r] /\ t' = new
          /\ body'[r] = body[r] /\ UNCHANGED <<s3, sent, shared>>
          /\ removed \subseteq removed'
      BY <1>2, Moved DEF Wrote, Done
    <2>4. \A q \in Products : PathsOf(q)' = PathsOf(q)
      BY <2>2, <2>3 DEF PathsOf
    <2>5. Keeps(Products \ {r})
      <3>1. \A q \in Products \ {r} : new.specs[q] = t.specs[q]
        BY <2>1, <2>2, CatalogueShape
      <3> QED BY <2>2, <2>3, <2>4, <3>1 DEF Keeps
    <2>6. ASSUME Storing(r)' PROVE SavedSoFar(r)'
      <3>1. Storing(r)
        BY <1>1, <2>3, <2>6 DEF Storing
      <3>2. body[r].form.files = Shown(r) /\ t.items[r] # None
        BY <1>1, <3>1 DEF PInv, Saves, SavedSoFar
      <3>3. Shown(r)' = Shown(r)
        BY <1>1, <2>4 DEF Shown
      <3> QED BY <1>2, <2>2, <2>3, <3>2, <3>3 DEF SavedSoFar
    <2>7. Saves(r)' /\ Deletes(r)'
      BY <1>2, <2>3, <2>6, NoDelete DEF Saves, Early
    <2>8. PathsOf(r)' \subseteq Uses(r) /\ Pending(r)' \subseteq Uses(r)
      BY <1>1, <1>2, <2>3, <2>4 DEF Uses, Pending
    <2> QED BY <1>2, <2>1, <2>3, <2>5, <2>7, <2>8, PlainStep DEF Early
  <1> QED BY <1>2, GiveUpImages DEF UpsertSpecifications

\* A product that is found was inserted before.
LEMMA FindImages ==
    ASSUME TInv, PInv, NEW r \in Requests, FindProduct(r)
    PROVE  PInv'
  <1>1. ASSUME NEW p \in GetProductBySlug(t, body[r].slug),
               NEW to \in {"keys", "archive"},
               Step(r, "slug", to, [Nothing EXCEPT !.about = p])
        PROVE  PInv'
    <2> DEFINE holds == [Nothing EXCEPT !.about = p]
    <2>1. holds.about = p /\ p \in Products /\ t.items[p] # None
      BY NothingHeld, HoldsAbout DEF GetProductBySlug, Live
    <2> HIDE DEF holds
    <2>2. /\ pc[r] = "slug" /\ pc'[r] = to /\ Alone(r) /\ got'[r] = holds
          /\ UNCHANGED <<t, s3, sent, shared, removed>>
      BY <1>1, Moved DEF Step, Done, holds
    <2>3. p \in Requests => pc[p] \notin Early /\ pc'[p] \notin Early
      <3>1. p \in Requests => pc[p] \notin Early
        BY <2>1 DEF PInv, Saves
      <3> QED BY <2>2, <3>1 DEF Alone, Early
    <2>4. Saves(r)'
      BY <2>2, NoSave DEF Early
    <2>5. Deletes(r)'
      BY <2>1, <2>2, <2>3 DEF Deletes
    <2> QED BY <2>2, <2>4, <2>5, SameTables, IdleStep DEF Early
  <1>2. CASE \E p \in GetProductBySlug(t, body[r].slug) :
                 Step(r, "slug", IF body[r].op = "delete" THEN "keys"
                                 ELSE "archive", [Nothing EXCEPT !.about = p])
    BY <1>1, <1>2
  <1> QED BY <1>2, GiveUpImages DEF FindProduct

\* The keys that are read are those of rows, which no other product uses.
LEMMA KeysImages ==
    ASSUME TInv, PInv, NEW r \in Requests, ReadImageKeys(r)
    PROVE  PInv'
  <1>1. ASSUME NEW s \in GetImageKeysByProductID(t, got[r].about),
               Step(r, "keys", "delete", [got[r] EXCEPT !.paths = s])
        PROVE  PInv'
    <2> DEFINE holds == [got[r] EXCEPT !.paths = s]
               about == got[r].about
    <2>1. IsGot(got[r])
      BY DEF TInv, Shaped
    <2>2. holds.about = about /\ holds.paths = s
      BY <2>1, HoldsPaths
    <2> HIDE DEF holds
    <2>3. /\ pc[r] = "keys" /\ pc'[r] = "delete" /\ Alone(r)
          /\ got'[r] = holds
          /\ UNCHANGED <<t, s3, sent, shared, removed>>
      BY <1>1, Moved DEF Step, Done, holds
    <2>4. /\ about \in Products
          /\ about \in Requests =>
                pc[about] \notin Early /\ pc'[about] \notin Early
      <3>1. /\ about \in Products
            /\ about \in Requests => pc[about] \notin Early
        BY <2>3 DEF PInv, Deletes
      <3>2. about \in Requests => pc'[about] \notin Early
        BY <2>3, <3>1 DEF Alone, Early
      <3> QED BY <3>1, <3>2
    <2>5. Range(s) \subseteq PathsOf(about)
      <3> DEFINE im == t.images[about]
      <3>1. PICK o \in SetToSeqs(DOMAIN im) :
                s = [i \in DOMAIN o |-> im[o[i]].path]
        BY <1>1 DEF GetImageKeysByProductID
      <3>2. \A i \in DOMAIN o : o[i] \in DOMAIN im
        BY <3>1 DEF SetToSeqs
      <3> QED BY <3>1, <3>2 DEF Range, PathsOf
    <2>6. Saves(r)'
      BY <2>3, NoSave DEF Early
    <2> HIDE DEF about
    <2>7. PathsOf(about) \subseteq Uses(about)
      BY DEF Uses
    <2>8. Range(s) \subseteq sent
      BY <2>4, <2>5, <2>7 DEF PInv
    <2>9. ASSUME NEW q \in Products \ {about}
          PROVE  Range(s) \intersect Uses(q)' \subseteq shared
      <3>1. Uses(q) \intersect Uses(about) \subseteq shared
        BY <2>4 DEF PInv
      <3>2. Uses(q)' \subseteq Uses(q)
        <4>1. Keeps({q}) /\ PathsOf(q)' = PathsOf(q)
          BY <2>3, SameTables DEF Keeps, PathsOf
        <4>2. CASE q = r
          <5>1. Pending(q)' = {}
            BY <2>3, <4>2 DEF Pending
          <5> QED BY <4>1, <4>2, <5>1 DEF Uses
        <4> QED BY <2>3, <4>1, <4>2, UsesFrame
      <3> QED BY <2>5, <2>7, <3>1, <3>2
    <2>10. Deletes(r)'
      <3>1. got'[r].about = about /\ got'[r].paths = s
        BY <2>2, <2>3
      <3> QED BY <2>3, <2>4, <2>8, <2>9, <3>1 DEF Deletes
    <2> QED BY <2>3, <2>6, <2>10, SameTables, IdleStep DEF Early
  <1> QED BY <1>1, GiveUpImages DEF ReadImageKeys

\* Products that are deleted lose their images with their rows; whatever else a
\* statement does to many of them leaves the images alone.
LEMMA StatementKeeps ==
    ASSUME TInv, NEW new, removed' = removed \union (Live(t) \ Live(new)),
           t' = new,
           \/ \E ps : new = DeleteProducts(t, ps)
           \/ \E ps : \E status \in Statuses : new = SetStatus(t, ps, status)
    PROVE  Keeps(Products)
  <1>1. IsCatalogue(t)
    BY DEF TInv, TypeOK
  <1>2. ASSUME NEW ps, new = DeleteProducts(t, ps) PROVE Keeps(Products)
    <2>1. \A p \in Products :
              /\ new.items[p] = IF p \in ps THEN None ELSE t.items[p]
              /\ new.images[p] = IF p \in ps THEN <<>> ELSE t.images[p]
              /\ new.specs[p] = IF p \in ps THEN {} ELSE t.specs[p]
      BY <1>1, <1>2, DeleteKeeps
    <2>2. ASSUME NEW q \in Products
          PROVE  /\ t.items[q] = None => new.items[q] = None
                 /\ PathsOf(q)' \subseteq PathsOf(q)
      BY <2>1 DEF PathsOf
    <2>3. ASSUME NEW q \in Products, q \notin removed', t.items[q] # None
          PROVE  /\ new.items[q] # None /\ PathsOf(q)' = PathsOf(q)
                 /\ new.specs[q] = t.specs[q]
      <3>1. q \in Live(new)
        BY <2>3 DEF Live
      <3>2. q \notin ps
        BY <2>1, <3>1 DEF Live
      <3> QED BY <2>1, <2>3, <3>2 DEF PathsOf
    <2> QED BY <2>2, <2>3 DEF Keeps
  <1>3. ASSUME NEW ps, NEW status \in Statuses, new = SetStatus(t, ps, status)
        PROVE  Keeps(Products)
    <2>1. /\ Live(new) = Live(t) /\ new.images = t.images
          /\ new.specs = t.specs
          /\ \A p \in Products : t.items[p] = None => new.items[p] = None
      BY <1>1, <1>3, StatusKeeps
    <2>2. \A p \in Products : t.items[p] # None => new.items[p] # None
      BY <2>1 DEF Live
    <2> QED BY <2>1, <2>2 DEF Keeps, PathsOf
  <1> QED BY <1>2, <1>3

\* A statement of r, which has nothing in its hands.
LEMMA StatementImages ==
    ASSUME TInv, PInv, NEW r \in Requests, body[r].op # "save",
           NEW new, NEW to \in {"flush", "purge", "keep"}, NEW holds,
           Wrote(r, new, to, holds), Keeps(Products),
           to = "purge" => Deletes(r)'
    PROVE  PInv'
  <1>1. /\ pc'[r] = to /\ Alone(r) /\ got'[r] = holds /\ t' = new
        /\ body'[r] = body[r] /\ UNCHANGED <<s3, sent, shared>>
    BY Moved DEF Wrote, Done
  <1>2. Deletes(r)' /\ Saves(r)'
    BY <1>1, NoDelete, NoSave DEF Early
  <1> QED BY <1>1, <1>2, IdleStep DEF Early

LEMMA DeleteImages ==
    ASSUME TInv, PInv, NEW r \in Requests, DeleteProduct(r)
    PROVE  PInv'
  <1> DEFINE about == got[r].about
             new == DeleteProductByID(t, about)
  <1>1. pc[r] = "delete" /\ body[r].op # "save"
    BY DEF DeleteProduct, TInv, AskAt
  <1>2. ASSUME Wrote(r, new, "purge", got[r]) PROVE PInv'
    <2>1. /\ pc'[r] = "purge" /\ Alone(r) /\ got'[r] = got[r] /\ t' = new
          /\ UNCHANGED <<s3, sent, shared>>
          /\ removed' = removed \union (Live(t) \ Live(new))
      BY <1>2, Moved DEF Wrote, Done
    <2>2. Keeps(Products)
      BY <2>1, StatementKeeps DEF DeleteProductByID
    <2>3. /\ about \in Products
          /\ about \in Requests => pc[about] \notin Early
          /\ Range(got[r].paths) \subseteq sent
          /\ \A q \in Products \ {about} :
                Range(got[r].paths) \intersect Uses(q) \subseteq shared
      BY <1>1 DEF PInv, Deletes
    <2>4. new.items[about] = None
      <3>1. IsCatalogue(t)
        BY DEF TInv, TypeOK
      <3> DEFINE ps == {about}
      <3>2. new = DeleteProducts(t, ps)
        BY DEF DeleteProductByID
      <3>3. about \in ps /\ about \in Products
        BY <2>3
      <3> HIDE DEF new, about, ps
      <3> QED BY <3>1, <3>2, <3>3, DeleteKeeps
    <2> HIDE DEF new, about
    <2>5. about \in Requests => pc'[about] \notin Early
      BY <2>1, <2>3 DEF Alone, Early
    <2>6. ASSUME NEW q \in Products \ {about}
          PROVE  Range(got[r].paths) \intersect Uses(q)' \subseteq shared
      <3>1. Uses(q)' \subseteq Uses(q)
        <4>1. Keeps({q})
          BY <2>2 DEF Keeps
        <4>2. CASE q = r
          <5>1. Pending(q)' = {}
            BY <2>1, <4>2 DEF Pending
          <5> QED BY <4>1, <4>2, <5>1 DEF Uses, Keeps
        <4> QED BY <2>1, <4>1, <4>2, UsesFrame
      <3> QED BY <2>3, <3>1
    <2>7. Deletes(r)'
      <3>1. got'[r].about = about
        BY <2>1 DEF about
      <3> QED BY <2>1, <2>3, <2>4, <2>5, <2>6, <3>1 DEF Deletes
    <2> QED BY <1>1, <1>2, <2>2, <2>7, StatementImages
  <1> QED BY <1>2, GiveUpImages DEF DeleteProduct

\* What is deleted from S3 is in use by nobody, or was uploaded to twice.
LEMMA PurgeImages ==
    ASSUME TInv, PInv, NEW r \in Requests, DeleteMultipleFilesFromS3(r)
    PROVE  PInv'
  <1> DEFINE gone == Range(got[r].paths)
             about == got[r].about
  <1>1. pc[r] = "purge" /\ body[r].op # "save"
    BY DEF DeleteMultipleFilesFromS3, TInv, AskAt
  <1>2. CASE ~GiveUp(r, "purge")
    <2>1. /\ Go(r, "flush") /\ got' = [got EXCEPT ![r] = Nothing]
          /\ s3' = s3 \ gone
          /\ UNCHANGED <<t, body, sent, shared, removed>>
      BY <1>2 DEF DeleteMultipleFilesFromS3
    <2>2. /\ pc'[r] = "flush" /\ got'[r] = Nothing /\ Alone(r)
          /\ body'[r] = body[r]
      BY <1>1, <2>1, FlushNext DEF Alone
    <2>3. /\ about \in Products /\ t.items[about] = None
          /\ \A q \in Products \ {about} :
                gone \intersect Uses(q) \subseteq shared
      BY <1>1 DEF PInv, Deletes
    <2>4. Uses(about) = {}
      <3>1. t.images[about] = <<>>
        BY <2>3 DEF TInv, TypeOK, IsCatalogue, Live
      <3> HIDE DEF about
      <3> QED BY <2>3, <3>1 DEF Uses, PathsOf, Pending
    <2> HIDE DEF gone, about
    <2>5. \A p \in Products : Uses(p) \subseteq s3' \union shared'
      BY <2>1, <2>3, <2>4 DEF PInv
    <2>6. Deletes(r)' /\ Saves(r)'
      BY <1>1, <2>2, NoDelete, NoSave DEF Early
    <2> DEFINE none == {}
    <2>7. Uses(r)' \subseteq Uses(r) \union none
      BY <2>1, <2>2 DEF Uses, PathsOf, Pending
    <2>8. /\ none \subseteq s3' /\ sent' = sent \union none
          /\ shared' = shared \union (sent \intersect none)
          /\ t'.items[r] = t.items[r] /\ pc'[r] \notin Early
      BY <2>1, <2>2 DEF Early
    <2> HIDE DEF none
    <2>9. Keeps(Products \ {r})
      BY <2>1, SameTables DEF Keeps
    <2> QED BY <2>2, <2>5, <2>6, <2>7, <2>8, <2>9, ImageStep
  <1> QED BY <1>2, GiveUpImages

LEMMA StatusImages ==
    ASSUME TInv, PInv, NEW r \in Requests, ArchiveProduct(r) \/ BulkStatement(r)
    PROVE  PInv'
  <1>1. body[r].op # "save"
    BY DEF TInv, AskAt, ArchiveProduct, BulkStatement
  <1>2. ASSUME NEW new, Wrote(r, new, "flush", Nothing),
               \/ \E ps : new = DeleteProducts(t, ps)
               \/ \E ps : \E status \in Statuses :
                      new = SetStatus(t, ps, status)
        PROVE  PInv'
    <2>1. t' = new /\ removed' = removed \union (Live(t) \ Live(new))
      BY <1>2 DEF Wrote
    <2>2. Keeps(Products)
      BY <1>2, <2>1, StatementKeeps
    <2> QED BY <1>1, <1>2, <2>2, StatementImages
  <1>3. CASE ArchiveProduct(r)
    <2>1. \E status \in Statuses :
              ArchiveProductByID(t, got[r].about) =
                  SetStatus(t, {got[r].about}, status)
      BY DEF ArchiveProductByID, Statuses
    <2> QED BY <1>2, <1>3, <2>1, GiveUpImages DEF ArchiveProduct
  <1>4. CASE BulkStatement(r)
    <2>1. Wrote(r, BulkState(r), "flush", Nothing) \/ GiveUp(r, "bulk")
      BY <1>4 DEF BulkStatement, BulkState
    <2> QED BY <1>2, <2>1, BulkKeeps, GiveUpImages
  <1> QED BY <1>3, <1>4

LEMMA RateImages ==
    ASSUME TInv, PInv, NEW r \in Requests, StoreExchangeRate(r)
    PROVE  PInv'
  <1> DEFINE new == UpdateExchangeRate(t, body[r].rate)
             holds == [Nothing EXCEPT !.value = body[r].rate]
  <1>1. body[r].op # "save" /\ body[r].rate \in Nat \ {0} /\ IsCatalogue(t)
    BY ProductsAssumption DEF TInv, TypeOK, AskAt, StoreExchangeRate
  <1>2. new.items = t.items /\ new.images = t.images /\ new.specs = t.specs
    BY <1>1, RateKeeps
  <1> HIDE DEF new, holds
  <1>3. ASSUME Wrote(r, new, "keep", holds) PROVE PInv'
    <2>1. t' = new /\ removed \subseteq removed'
      BY <1>3 DEF Wrote
    <2>2. Keeps(Products)
      BY <1>2, <2>1 DEF Keeps, PathsOf
    <2> QED BY <1>1, <1>3, <2>2, StatementImages
  <1> QED BY <1>3, GiveUpImages DEF StoreExchangeRate, new, holds

LEMMA KeepImages ==
    ASSUME TInv, PInv, NEW r \in Requests, KeepExchangeRate(r)
    PROVE  PInv'
  <1>1. body[r].op # "save"
    BY DEF TInv, AskAt, KeepExchangeRate
  <1>2. /\ Go(r, "flush") /\ got' = [got EXCEPT ![r] = Nothing]
        /\ UNCHANGED <<t, s3, body, sent, shared, removed>>
    BY DEF KeepExchangeRate
  <1>3. pc'[r] = "flush" /\ Alone(r) /\ body'[r] = body[r]
    BY <1>1, <1>2, FlushNext DEF Alone
  <1>4. Deletes(r)' /\ Saves(r)'
    BY <1>1, <1>3, NoDelete, NoSave DEF Early
  <1> QED BY <1>2, <1>3, <1>4, SameTables, IdleStep DEF Early

\* The end of a save, or of another request.
LEMMA FlushImages ==
    ASSUME TInv, PInv, NEW r \in Requests, InvalidateProductCache(r)
    PROVE  PInv'
  <1>1. /\ pc[r] = "flush" /\ Go(r, "ok") /\ Held(r, "ok", got[r])
        /\ UNCHANGED <<t, s3, sent, shared, removed>> /\ IsGot(got[r])
    BY DEF InvalidateProductCache, TInv, Shaped
  <1>2. /\ pc'[r] = "ok" /\ Alone(r)
        /\ got'[r] = [Nothing EXCEPT !.hit = got[r].hit]
        /\ body'[r] = IF body[r].op # "save" THEN None ELSE body[r]
    BY <1>1, Moved DEF Done
  <1>3. got'[r].hit = got[r].hit
    <2> DEFINE hit == got[r].hit
    <2> HIDE DEF hit
    <2>1. got'[r] = [Nothing EXCEPT !.hit = hit]
      BY <1>2 DEF hit
    <2>2. got'[r].hit = hit
      BY <2>1, NothingHeld, HoldsHit
    <2> QED BY <2>2 DEF hit
  <1>4. ASSUME Storing(r)' PROVE SavedSoFar(r)'
    <2>1. body'[r] = body[r]
      BY <1>2, <1>4 DEF Storing
    <2>2. Storing(r)
      BY <1>1, <1>2, <1>3, <1>4, <2>1 DEF Storing
    <2>3. SavedSoFar(r)
      BY <2>2 DEF PInv, Saves
    <2>4. Shown(r)' = Shown(r)
      BY <1>1 DEF Shown, PathsOf
    <2> QED BY <1>1, <1>2, <2>1, <2>3, <2>4 DEF SavedSoFar
  <1>5. Deletes(r)' /\ Saves(r)'
    BY <1>2, <1>4, NoDelete DEF Saves, Early
  <1> QED BY <1>1, <1>2, <1>5, SameTables, IdleStep DEF Early

LEMMA ChangeImages ==
    ASSUME TInv, PInv, NEW r \in Requests, Changed(r)
    PROVE  PInv'
  BY VerifyImages, KnownImages, UpdateImages, InsertImages, UploadImages,
     RowImages, OrderImages, SpecImages, FindImages, KeysImages, DeleteImages,
     PurgeImages, StatusImages, RateImages, KeepImages, FlushImages
     DEF Changed

LEMMA InitPInv == Init => PInv
  <1> SUFFICES ASSUME Init PROVE PInv
    OBVIOUS
  <1>1. \A r \in Requests : pc[r] = "idle" /\ got[r] = Nothing
    BY DEF Init
  <1>2. \A p \in Products : Uses(p) = PathsOf(p)
    BY <1>1 DEF Uses, Pending
  <1>3. /\ s3 = UNION {PathsOf(p) : p \in Products} /\ sent = s3
        /\ shared = {x \in s3 : \E p, q \in Products :
                        p # q /\ x \in PathsOf(p) \intersect PathsOf(q)}
    BY DEF Init
  <1>4. \A p \in Products : Uses(p) \subseteq s3 /\ Uses(p) \subseteq sent
    BY <1>2, <1>3
  <1>5. \A p, q \in Products :
            p # q => Uses(p) \intersect Uses(q) \subseteq shared
    BY <1>2, <1>3
  <1>6. \A r \in Requests : t.items[r] = None
    BY ProductsAssumption DEF Init
  <1>7. \A r \in Requests : Deletes(r) /\ Saves(r)
    BY <1>1, <1>6 DEF Deletes, Saves, Storing
  <1> QED BY <1>4, <1>5, <1>7 DEF PInv

LEMMA NextPInv == TInv /\ PInv /\ [Next]_vars => PInv'
  <1> SUFFICES ASSUME TInv, PInv, [Next]_vars PROVE PInv'
    OBVIOUS
  <1>1. ASSUME NEW r \in Requests, Requested(r) PROVE PInv'
    BY <1>1, RequestsMove, RequestImages
  <1>2. ASSUME NEW r \in Requests, Read(r) PROVE PInv'
    BY <1>2, ReadersMove, ReadImages
  <1>3. ASSUME NEW r \in Requests, Changed(r) PROVE PInv'
    BY <1>3, ChangeImages
  <1>4. ASSUME UNCHANGED <<t, s3, pc, body, got, sent, shared, removed>>
        PROVE  PInv'
    <2>1. \A p \in Products : Uses(p)' = Uses(p)
      BY <1>4 DEF Uses, PathsOf, Pending
    <2>2. ASSUME NEW d \in Requests PROVE Deletes(d)'
      <3>1. Deletes(d)
        BY DEF PInv
      <3>2. \A q \in Products \ {got[d].about} : Uses(q)' = Uses(q)
        BY <2>1
      <3> QED BY <1>4, <3>1, <3>2 DEF Deletes
    <2>3. ASSUME NEW r \in Requests PROVE Saves(r)'
      <3>1. Saves(r)
        BY DEF PInv
      <3>2. Shown(r)' = Shown(r) /\ ToShow(r)' = ToShow(r)
            /\ PathsOf(r)' = PathsOf(r)
        BY <1>4 DEF Shown, ToShow, PathsOf
      <3> QED BY <1>4, <3>1, <3>2 DEF Saves, Storing, SavedSoFar
    <2> QED BY <1>4, <2>1, <2>2, <2>3 DEF PInv
  <1>5. CASE Expire
    BY <1>4, <1>5 DEF Expire
  <1>6. CASE Tick
    BY <1>4, <1>6 DEF Tick
  <1>7. CASE UNCHANGED vars
    BY <1>4, <1>7 DEF vars
  <1> QED BY <1>1, <1>2, <1>3, <1>5, <1>6, <1>7 DEF Next

LEMMA SpecPInv == Spec => [](TInv /\ PInv)
  <1>1. Init => TInv /\ PInv
    BY InitTInv, InitPInv
  <1>2. TInv /\ PInv /\ [Next]_vars => (TInv /\ PInv)'
    BY NextTInv, NextPInv
  <1> QED BY <1>1, <1>2, PTL DEF Spec

\* Deleting a product deletes the images that its rows named, and no other
\* product's, however uploads, deletions and failures interleave: what a row
\* names is in S3, unless the same path was uploaded to twice, which is how the
\* paths are made: from the second and the name of the file.
THEOREM ProductImagesThere == Spec => []ImagesThere
  <1>1. PInv => ImagesThere
    <2> SUFFICES ASSUME PInv, NEW p \in Products
                 PROVE  PathsOf(p) \subseteq s3 \union shared
      BY DEF ImagesThere
    <2> QED BY DEF PInv, Uses
  <1> QED BY <1>1, SpecPInv, PTL

\* Who was told that a product is saved, finds it with all of its images and
\* specifications until it is deleted: no step of the save is passed over, and
\* no other request takes anything away but with the product.
THEOREM ProductSavedWhole == Spec => []SavedWhole
  <1>1. PInv /\ TInv => SavedWhole
    <2> SUFFICES ASSUME PInv, TInv, NEW r \in Requests,
                        pc[r] = "ok", body[r] # None, ~got[r].hit,
                        r \notin removed
                 PROVE  /\ t.items[r] # None
                        /\ body[r].form.files =
                              {t.images[r][i].path[2] :
                                  i \in DOMAIN t.images[r]}
                        /\ body[r].form.specs \subseteq t.specs[r]
      BY DEF SavedWhole
    <2>1. body[r].op = "save"
      BY DEF TInv, AskAt
    <2>2. SavedSoFar(r)
      BY <2>1 DEF PInv, Saves, Storing
    <2>3. Shown(r) = {t.images[r][i].path[2] : i \in DOMAIN t.images[r]}
      BY DEF Shown, PathsOf
    <2> QED BY <2>2, <2>3 DEF SavedSoFar
  <1> QED BY <1>1, SpecPInv, PTL

-----------------------------------------------------------------------------
(* What Redis holds.                                                       *)

Searches == {"search", "searchpage", "autocomplete"}

\* A row of a page, mapped from what was read of it.
IsRow(u, read, row) ==
    /\ row.id = read.id
    /\ row.price = read.usd * Rate(u)
    /\ row.image \in FirstImage(u, read.id)

\* The rows that have been mapped, and those that are left, are the page s.
IsPage(u, s, rows, todo) ==
    /\ Len(s) = Len(rows) + Len(todo)
    /\ \A i \in 1..Len(rows) :
          /\ rows[i].id = s[i]
          /\ rows[i].price = Price(u, s[i])
          /\ rows[i].image \in FirstImage(u, s[i])
    /\ \A i \in 1..Len(todo) :
          /\ todo[i].id = s[Len(rows) + i]
          /\ todo[i].usd = u.items[s[Len(rows) + i]].usd

IsList(s) == s \in Seq(Range(s))

\* b is what was asked for of the tables u, and g what has been read.
RowsRead(u, b, g) ==
    /\ g.value = [total |-> CountProductsByParentCategoryID(u, b.key[2]),
                  rows |-> g.value.rows]
    /\ IsList(g.value.rows) /\ IsList(g.todo) /\ g.todo # <<>>
    /\ \E s \in GetProductsByParentCategoryID(u, b.key[2], b.key[3], PageSize) :
          IsPage(u, s, g.value.rows, g.todo)

\* What a request that was not overtaken has read is still so.
Reader(r) ==
    /\ pc[r] = "fetch" /\ body[r].op \in {"images", "pricing", "specs"} =>
          got[r].about \in GetProductBySlug(t, Slug(r))
    /\ pc[r] = "page" /\ body[r].op \in {"all", "category"} =>
          got[r].value =
              [total |-> IF body[r].op = "all" THEN CountProducts(t)
                         ELSE CountProductsByParentCategoryID(t, Slug(r)),
               rows |-> <<>>]
    /\ pc[r] = "row" => body[r].op = "category" /\ RowsRead(t, body[r], got[r])
    /\ pc[r] = "fill" /\ body[r].op \notin Searches =>
          IsAnswer(body[r].key, got[r].value)
    /\ pc[r] = "keep" => t.rate = None \/ got[r].value = t.rate

\* An entry is what its queries would answer, or is about to be dropped or
\* written.
Current(k) ==
    \/ k[1] \in {"search", "autocomplete"}
    \/ redis[k].by \in overtaken
    \/ IsAnswer(k, redis[k].value)
    \/ k[1] \in ProductKinds /\ \E r \in Requests : pc[r] \in Unflushed
    \/ k[1] = "rate" /\ \E r \in Requests : pc[r] = "keep"

\* The inductive invariant of the cache.
CInv ==
    /\ \A k \in DOMAIN redis : k[1] = "rate" => k = <<"rate">>
    /\ \A k \in DOMAIN redis \ outdated : Current(k)
    /\ \A r \in Requests : r \notin overtaken => Reader(r)

LEMMA ReaderStays ==
    ASSUME NEW q \in Requests, Reader(q), t' = t,
           pc'[q] = pc[q], body'[q] = body[q], got'[q] = got[q]
    PROVE  Reader(q)'
  <1>1. pc[q] = "row" => RowsRead(t, body[q], got[q])'
    BY DEF Reader
  <1>2. pc[q] = "fill" /\ body[q].op \notin Searches =>
            IsAnswer(body[q].key, got[q].value)'
    BY DEF Reader, IsAnswer
  <1>3. Slug(q)' = Slug(q)
    BY DEF Slug
  <1> QED BY <1>1, <1>2, <1>3 DEF Reader

LEMMA NoReader ==
    ASSUME NEW r \in Requests,
           pc'[r] \notin {"fetch", "page", "row", "fill", "keep"}
    PROVE  Reader(r)'
  BY DEF Reader

\* What a reader stores is an answer if what it has read is one.
LEMMA AnswerHeld ==
    ASSUME NEW r \in Requests, NEW v, IsAnswer(body[r].key, v),
           t' = t, body'[r] = body[r], got'[r].value = v
    PROVE  IsAnswer(body[r].key, got[r].value)'
  BY DEF IsAnswer

LEMMA EntryAnswers ==
    ASSUME NEW k, NEW v, IsAnswer(k, v), t' = t, redis'[k].value = v
    PROVE  IsAnswer(k, redis[k].value)'
  BY DEF IsAnswer

LEMMA CategoryAnswer ==
    ASSUME NEW k, NEW v, k[1] = "category",
           v.total = CountProductsByParentCategoryID(t, k[2]),
           NEW s \in GetProductsByParentCategoryID(t, k[2], k[3], PageSize),
           s \in [DOMAIN v.rows -> Products],
           \A i \in DOMAIN v.rows :
               /\ v.rows[i].id = s[i]
               /\ v.rows[i].price = Price(t, s[i])
               /\ v.rows[i].image \in FirstImage(t, s[i])
    PROVE  IsAnswer(k, v)
  <1>1. [i \in DOMAIN v.rows |-> v.rows[i].id] = s
    OBVIOUS
  <1> QED BY <1>1 DEF IsAnswer

\* A step of r that writes neither a table nor an entry.
LEMMA QuietCache ==
    ASSUME CInv, NEW r \in Requests, Alone(r),
           UNCHANGED <<t, redis, overtaken>>, outdated \subseteq outdated',
           \/ outdated' = DOMAIN redis
           \/ /\ pc[r] \in Unflushed => pc'[r] \in Unflushed
              /\ pc[r] # "keep",
           r \notin overtaken => Reader(r)'
    PROVE  CInv'
  <1>1. ASSUME NEW q \in Requests \ {r}, q \notin overtaken PROVE Reader(q)'
    BY <1>1, ReaderStays DEF CInv, Alone
  <1>2. ASSUME NEW k \in DOMAIN redis \ outdated' PROVE Current(k)'
    <2>1. Current(k) /\ k \in DOMAIN redis
      BY <1>2 DEF CInv
    <2>2. IsAnswer(k, redis[k].value) => IsAnswer(k, redis[k].value)'
      BY DEF IsAnswer
    <2>3. (\E q \in Requests : pc[q] \in Unflushed) =>
              \E q \in Requests : pc'[q] \in Unflushed
      BY <1>2 DEF Alone
    <2>4. (\E q \in Requests : pc[q] = "keep") =>
              \E q \in Requests : pc'[q] = "keep"
      BY <1>2 DEF Alone
    <2> QED BY <2>1, <2>2, <2>3, <2>4 DEF Current
  <1>3. \A k \in DOMAIN redis' : k[1] = "rate" => k = <<"rate">>
    BY DEF CInv
  <1>4. \A q \in Requests : q \notin overtaken' => Reader(q)'
    BY <1>1
  <1>5. \A k \in DOMAIN redis' \ outdated' : Current(k)'
    BY <1>2
  <1> QED BY <1>3, <1>4, <1>5 DEF CInv

\* A statement: whoever holds what it changed is overtaken.
LEMMA WroteCache ==
    ASSUME TInv, CInv, NEW r \in Requests, NEW new, NEW to \in Unflushed,
           NEW holds, Wrote(r, new, to, holds), pc[r] # "keep",
           new.rate = t.rate \/ to = "keep",
           to = "keep" => new.rate = None \/ holds.value = new.rate
    PROVE  CInv'
  <1>1. /\ Alone(r) /\ pc'[r] = to /\ got'[r] = holds
        /\ t' = new /\ UNCHANGED <<redis, outdated>>
        /\ overtaken' = IF new = t THEN overtaken
                        ELSE overtaken \union (Holding \ {r})
    BY Moved DEF Wrote, Done, Unflushed
  <1>2. ASSUME NEW q \in Requests \ {r}, q \notin overtaken' PROVE Reader(q)'
    <2>1. Reader(q) /\ pc'[q] = pc[q] /\ body'[q] = body[q] /\ got'[q] = got[q]
      BY <1>1, <1>2 DEF CInv, Alone
    <2>2. CASE new = t
      BY <1>1, <2>1, <2>2, ReaderStays
    <2>3. CASE new # t
      <3>1. /\ pc[q] \notin {"page", "row", "fill", "keep"}
            /\ pc[q] = "fetch" => got[q].about = None
        BY <1>1, <1>2, <2>3 DEF Holding
      <3>2. pc[q] = "fetch" => body[q].op \notin {"images", "pricing", "specs"}
        BY <2>1, <3>1, ProductsAssumption
           DEF Reader, GetProductBySlug, Live
      <3> QED BY <2>1, <3>1, <3>2 DEF Reader
    <2> QED BY <2>2, <2>3
  <1>3. Reader(r)'
    BY <1>1 DEF Reader, Unflushed
  <1>4. ASSUME NEW k \in DOMAIN redis \ outdated PROVE Current(k)'
    <2>1. Current(k) /\ k[1] \in Kinds
      BY <1>4 DEF CInv, TInv, TypeOK
    <2>2. CASE k[1] \in ProductKinds
      BY <1>1, <2>2 DEF Current
    <2>3. CASE k[1] = "rate"
      <3>1. CASE to = "keep"
        BY <1>1, <2>3, <3>1 DEF Current
      <3>2. CASE to # "keep" /\ redis[k].by \in overtaken
        BY <1>1, <3>2 DEF Current
      <3>3. CASE to # "keep" /\ \E q \in Requests : pc[q] = "keep"
        BY <1>1, <2>3, <3>3 DEF Current, Alone
      <3>4. CASE to # "keep" /\ IsAnswer(k, redis[k].value)
        <4>1. redis[k].value = Rate(t)
          BY <2>3, <3>4 DEF IsAnswer
        <4>2. Rate(t') = Rate(t)
          BY <1>1, <3>4 DEF Rate
        <4>3. IsAnswer(k, redis[k].value)'
          BY <1>1, <2>3, <4>1, <4>2 DEF IsAnswer
        <4> QED BY <4>3 DEF Current
      <3> QED BY <2>1, <2>3, <3>1, <3>2, <3>3, <3>4
              DEF Current, ProductKinds
    <2> QED BY <2>1, <2>2, <2>3 DEF Kinds, Current
  <1>5. \A k \in DOMAIN redis' : k[1] = "rate" => k = <<"rate">>
    BY <1>1 DEF CInv
  <1> QED BY <1>1, <1>2, <1>3, <1>4, <1>5 DEF CInv

LEMMA RequestCache ==
    ASSUME TInv, CInv, NEW r \in Requests, RequestMove(r)
    PROVE  CInv'
  <1>1. /\ pc[r] = "idle" /\ Alone(r)
        /\ pc'[r] \in {"find", "count", "options", "named", "verify", "slug",
                       "rate"}
        /\ UNCHANGED <<t, redis, overtaken, outdated>>
    BY RequestTypes DEF Alone
  <1>2. Reader(r)'
    BY <1>1, NoReader
  <1> QED BY <1>1, <1>2, QuietCache DEF Unflushed

LEMMA GiveUpCache ==
    ASSUME TInv, CInv, NEW r \in Requests, NEW from, GiveUp(r, from)
    PROVE  CInv'
  <1>1. /\ pc'[r] = "failed" /\ Alone(r)
        /\ UNCHANGED <<t, overtaken>>
    BY GiveUpTypes DEF Alone
  <1>2. /\ pc[r] = from /\ redis' = redis
        /\ outdated' = IF from \in Unflushed THEN DOMAIN redis ELSE outdated
    BY DEF GiveUp
  <1>3. outdated \subseteq outdated'
    BY <1>2 DEF TInv, TypeOK
  <1>4. Reader(r)'
    BY <1>1, NoReader
  <1> QED BY <1>1, <1>2, <1>3, <1>4, QuietCache DEF Unflushed

\* A step of a writer before its statement.
LEMMA StepCache ==
    ASSUME TInv, CInv, NEW r \in Requests,
           NEW from, from \notin Unflushed,
           NEW to, to \notin Done, to \notin Reading \union {"keep"},
           NEW holds, Step(r, from, to, holds)
    PROVE  CInv'
  <1>1. /\ pc[r] = from /\ pc'[r] = to /\ Alone(r)
        /\ UNCHANGED <<t, redis, overtaken, outdated>>
    BY Moved DEF Step
  <1>2. Reader(r)'
    BY <1>1, NoReader DEF Reading
  <1> QED BY <1>1, <1>2, QuietCache DEF Unflushed

LEMMA PrepareCache ==
    ASSUME TInv, CInv, NEW r \in Requests,
           \/ VerifyAdminStatus(r) \/ GetOrSetExisting(r) \/ FindProduct(r)
           \/ ReadImageKeys(r)
    PROVE  CInv'
  <1>1. {"verify", "known", "slug", "keys"} \intersect Unflushed = {}
    BY DEF Unflushed
  <1>2. {"known", "bulk", "update", "insert", "keys", "archive", "delete"}
            \intersect (Done \union Reading \union {"keep"}) = {}
    BY DEF Done, Reading
  <1>3. CASE VerifyAdminStatus(r)
    BY <1>1, <1>2, <1>3, StepCache, GiveUpCache DEF VerifyAdminStatus
  <1>4. CASE GetOrSetExisting(r)
    BY <1>1, <1>2, <1>4, StepCache, GiveUpCache DEF GetOrSetExisting
  <1>5. CASE FindProduct(r)
    BY <1>1, <1>2, <1>5, StepCache, GiveUpCache DEF FindProduct
  <1>6. CASE ReadImageKeys(r)
    BY <1>1, <1>2, <1>6, StepCache, GiveUpCache DEF ReadImageKeys
  <1> QED BY <1>3, <1>4, <1>5, <1>6

\* A statement that leaves the rate alone.
LEMMA RowsCache ==
    ASSUME TInv, CInv, NEW r \in Requests, NEW new, NEW to, NEW holds,
           to \in Unflushed, pc[r] # "keep",
           Wrote(r, new, to, holds), new.rate = t.rate, to # "keep"
    PROVE  CInv'
  BY WroteCache

LEMMA SaveCache ==
    ASSUME TInv, CInv, NEW r \in Requests,
           UpdateExistingProduct(r) \/ CreateNewProduct(r)
    PROVE  CInv'
  <1> DEFINE to == AfterRow(r)
             new == CreateProduct(t, r, body[r].form, second)
             holds == [got[r] EXCEPT !.about = r]
  <1>1. pc[r] \in {"update", "insert"} /\ pc[r] \in Saving
    BY DEF UpdateExistingProduct, CreateNewProduct, Saving
  <1>2. to \in Unflushed /\ to # "keep" /\ pc[r] # "keep"
    BY <1>1, AfterSaving DEF Unflushed
  <1>3. MayCreate(t, body[r].form) => new.rate = t.rate
    BY <1>1, AfterSaving, CreateKeeps, ProductsAssumption DEF TInv, TypeOK
  <1> HIDE DEF to, new, holds
  <1>4. CASE UpdateExistingProduct(r)
    BY <1>2, <1>4, RowsCache, GiveUpCache DEF UpdateExistingProduct, to
  <1>5. CASE CreateNewProduct(r)
    BY <1>2, <1>3, <1>5, RowsCache, GiveUpCache
       DEF CreateNewProduct, to, new, holds
  <1> QED BY <1>4, <1>5

LEMMA UploadCache ==
    ASSUME TInv, CInv, NEW r \in Requests, UploadMultipleFilesToS3(r)
    PROVE  CInv'
  <1>1. /\ UNCHANGED <<t, redis, overtaken>> /\ Alone(r) /\ pc[r] = "upload"
    BY UploadTypes DEF Alone, UploadMultipleFilesToS3
  <1>2. \/ pc'[r] = "failed" /\ outdated' = DOMAIN redis
        \/ pc'[r] \in {"image", "upload"} /\ outdated' = outdated
    BY UploadTypes
  <1>3. outdated \subseteq outdated'
    BY <1>2 DEF TInv, TypeOK
  <1>4. Reader(r)'
    BY <1>2, NoReader
  <1> QED BY <1>1, <1>2, <1>3, <1>4, QuietCache DEF Unflushed

LEMMA PurgeCache ==
    ASSUME TInv, CInv, NEW r \in Requests, DeleteMultipleFilesFromS3(r)
    PROVE  CInv'
  <1>1. pc[r] = "purge" /\ body[r].op # "save"
    BY DEF DeleteMultipleFilesFromS3, TInv, AskAt
  <1>2. CASE ~GiveUp(r, "purge")
    <2>1. /\ Go(r, "flush") /\ got' = [got EXCEPT ![r] = Nothing]
          /\ UNCHANGED <<t, redis, body, overtaken, outdated>>
      BY <1>2 DEF DeleteMultipleFilesFromS3
    <2>2. pc'[r] = "flush" /\ Alone(r)
      BY <1>1, <2>1, FlushNext DEF Alone
    <2>3. Reader(r)'
      BY <2>2, NoReader
    <2> QED BY <1>1, <2>1, <2>2, <2>3, QuietCache DEF Unflushed
  <1> QED BY <1>2, GiveUpCache

LEMMA ImageCache ==
    ASSUME TInv, CInv, NEW r \in Requests,
           \/ CreateProductImages(r) \/ UpdateProductImageUrls(r)
           \/ UpsertSpecifications(r)
    PROVE  CInv'
  <1>1. /\ pc[r] \in {"image", "order", "spec"} /\ pc[r] \in Saving
        /\ pc[r] # "keep" /\ IsCatalogue(t) /\ r \in Products
    BY ProductsAssumption
       DEF CreateProductImages, UpdateProductImageUrls, UpsertSpecifications,
           Saving, TInv, TypeOK
  <1>2. AfterImages(r) \in {"order", "spec", "flush"}
    BY <1>1, AfterSaving
  <1>3. HasProduct(r) => r \in Live(t)
    BY <1>1 DEF HasProduct, Live
  <1>4. CASE CreateProductImages(r)
    <2> DEFINE left == Tail(got[r].todo)
               holds == [got[r] EXCEPT !.todo = left]
               to == IF Len(got[r].todo) = 1 THEN AfterImages(r) ELSE "image"
               new == CreateProductImage(t, r, Head(got[r].todo))
    <2>1. got[r].todo \in Seq(Paths) /\ got[r].todo # <<>>
      BY <1>4 DEF CreateProductImages, TInv, HoldsAt
    <2>2. Head(got[r].todo) \in Paths
      BY <2>1, RestOf
    <2>3. HasProduct(r) => new.rate = t.rate
      BY <1>1, <1>3, <2>2, ImageKeeps
    <2>4. to \in Unflushed /\ to # "keep"
      BY <1>2 DEF Unflushed
    <2>5. GiveUp(r, "image") \/ (HasProduct(r) /\ Wrote(r, new, to, holds))
      BY <1>4 DEF CreateProductImages
    <2> HIDE DEF holds, to, new
    <2> QED BY <1>1, <2>3, <2>4, <2>5, RowsCache, GiveUpCache
  <1>5. CASE UpdateProductImageUrls(r)
    <2> DEFINE to == IF body[r].form.specs # {} THEN "spec" ELSE "flush"
               new == IF HasProduct(r)
                      THEN UpdateProductImages(t, r, body[r].form.order) ELSE t
    <2>1. new.rate = t.rate
      <3>1. ASSUME HasProduct(r)
            PROVE  UpdateProductImages(t, r, body[r].form.order).rate = t.rate
        <4>1. body[r].form.order \in Seq(Paths)
          BY <1>1, AfterSaving, ProductsAssumption
        <4> QED BY <1>1, <1>3, <3>1, <4>1, OrderKeeps
      <3> QED BY <3>1
    <2>2. to \in Unflushed /\ to # "keep"
      BY DEF Unflushed
    <2>3. GiveUp(r, "order") \/ Wrote(r, new, to, got[r])
      BY <1>5 DEF UpdateProductImageUrls
    <2> HIDE DEF to, new
    <2> QED BY <1>1, <2>1, <2>2, <2>3, RowsCache, GiveUpCache
  <1>6. CASE UpsertSpecifications(r)
    <2>1. ASSUME HasProduct(r), NEW spec \in body[r].form.specs
          PROVE  UpsertProductSpecification(t, r, spec).rate = t.rate
      <3>1. spec \in Specs
        BY <1>1, <2>1, AfterSaving, ProductsAssumption
      <3> QED BY <1>1, <1>3, <2>1, <3>1, SpecKeeps
    <2>2. {"flush", "spec"} \subseteq Unflushed \ {"keep"}
      BY DEF Unflushed
    <2> QED BY <1>1, <1>6, <2>1, <2>2, RowsCache, GiveUpCache
            DEF UpsertSpecifications
  <1> QED BY <1>4, <1>5, <1>6

LEMMA DeleteCache ==
    ASSUME TInv, CInv, NEW r \in Requests,
           DeleteProduct(r) \/ ArchiveProduct(r) \/ BulkStatement(r)
    PROVE  CInv'
  <1>1. IsCatalogue(t) /\ pc[r] # "keep"
    BY DEF DeleteProduct, ArchiveProduct, BulkStatement, TInv, TypeOK
  <1>2. ASSUME NEW new, NEW to \in {"flush", "purge"}, NEW holds,
               Wrote(r, new, to, holds),
               \/ \E ps : new = DeleteProducts(t, ps)
               \/ \E ps : \E status \in Statuses :
                      new = SetStatus(t, ps, status)
        PROVE  CInv'
    <2>1. new.rate = t.rate
      BY <1>1, <1>2, DeleteKeeps, StatusKeeps
    <2> QED BY <1>1, <1>2, <2>1, RowsCache DEF Unflushed
  <1>3. CASE DeleteProduct(r)
    BY <1>2, <1>3, GiveUpCache DEF DeleteProduct, DeleteProductByID
  <1>4. CASE ArchiveProduct(r)
    <2>1. \E status \in Statuses :
              ArchiveProductByID(t, got[r].about) =
                  SetStatus(t, {got[r].about}, status)
      BY DEF ArchiveProductByID, Statuses
    <2> QED BY <1>2, <1>4, <2>1, GiveUpCache DEF ArchiveProduct
  <1>5. CASE BulkStatement(r)
    <2>1. Wrote(r, BulkState(r), "flush", Nothing) \/ GiveUp(r, "bulk")
      BY <1>5 DEF BulkStatement, BulkState
    <2> QED BY <1>2, <2>1, BulkKeeps, GiveUpCache
  <1> QED BY <1>3, <1>4, <1>5

LEMMA RateCache ==
    ASSUME TInv, CInv, NEW r \in Requests, StoreExchangeRate(r)
    PROVE  CInv'
  <1> DEFINE new == UpdateExchangeRate(t, body[r].rate)
             holds == [Nothing EXCEPT !.value = body[r].rate]
  <1>1. /\ pc[r] = "rate" /\ body[r].rate \in Nat \ {0} /\ IsCatalogue(t)
    BY ProductsAssumption DEF TInv, TypeOK, AskAt, StoreExchangeRate
  <1>2. new.rate = IF t.rate = None THEN None ELSE body[r].rate
    BY <1>1, RateKeeps
  <1>3. holds.value = body[r].rate
    BY NothingHeld, HoldsValue
  <1> HIDE DEF new, holds
  <1> QED BY <1>1, <1>2, <1>3, WroteCache, GiveUpCache
          DEF StoreExchangeRate, new, holds, Unflushed


\* An entry that a step of r leaves, while r is between its statement and its
\* flush before and after it.
LEMMA EntryStays ==
    ASSUME NEW r \in Requests, Alone(r), UNCHANGED <<t, overtaken>>,
           pc[r] \in Unflushed => pc'[r] \in Unflushed,
           NEW k, Current(k), redis'[k] = redis[k],
           pc[r] = "keep" => k[1] # "rate"
    PROVE  Current(k)'
  <1>1. IsAnswer(k, redis[k].value) => IsAnswer(k, redis[k].value)'
    BY DEF IsAnswer
  <1>2. (\E q \in Requests : pc[q] \in Unflushed) =>
            \E q \in Requests : pc'[q] \in Unflushed
    BY DEF Alone
  <1>3. k[1] = "rate" /\ (\E q \in Requests : pc[q] = "keep") =>
            \E q \in Requests : pc'[q] = "keep"
    BY DEF Alone
  <1> QED BY <1>1, <1>2, <1>3 DEF Current

\* The rate that is stored is that of the table, unless there is no row, or
\* another rate has come since; and when it is not stored, the old one is
\* outdated.
LEMMA KeepCache ==
    ASSUME TInv, CInv, NEW r \in Requests, KeepExchangeRate(r)
    PROVE  CInv'
  <1> DEFINE rate == <<"rate">>
             entry == [value |-> got[r].value, by |-> r]
  <1>1. pc[r] = "keep" /\ body[r].op # "save"
    BY DEF KeepExchangeRate, TInv, AskAt
  <1>2. /\ Go(r, "flush") /\ got' = [got EXCEPT ![r] = Nothing]
        /\ UNCHANGED <<t, body, overtaken>>
    BY DEF KeepExchangeRate
  <1>3. pc'[r] = "flush" /\ Alone(r)
    BY <1>1, <1>2, FlushNext DEF Alone
  <1>4. \A q \in Requests : q \notin overtaken' => Reader(q)'
    <2> TAKE q \in Requests
    <2>1. CASE q = r
      BY <1>3, <2>1, NoReader
    <2>2. CASE q # r
      BY <1>2, <1>3, <2>2, ReaderStays DEF CInv, Alone
    <2> QED BY <2>1, <2>2
  <1>5. entry.value = got[r].value /\ entry.by = r /\ rate[1] = "rate"
    OBVIOUS
  <1> HIDE DEF rate, entry
  <1>6. \/ /\ redis' = Updated(redis, [k \in {rate} |-> entry])
           /\ outdated' = IF t.rate = None THEN outdated \union {rate}
                          ELSE outdated \ {rate}
        \/ /\ redis' = redis
           /\ outdated' = outdated \union (DOMAIN redis \intersect {rate})
    BY DEF KeepExchangeRate, rate, entry
  <1>7. /\ DOMAIN redis' \subseteq DOMAIN redis \union {rate}
        /\ \A k \in DOMAIN redis' \ {rate} : redis'[k] = redis[k]
        /\ outdated \ {rate} \subseteq outdated'
    BY <1>6 DEF Updated
  <1>8. \A k \in DOMAIN redis' : k[1] = "rate" => k = rate
    BY <1>7 DEF CInv, rate
  <1>9. ASSUME NEW k \in DOMAIN redis' \ outdated' PROVE Current(k)'
    <2>1. CASE k # rate
      <3>1. k \in DOMAIN redis \ outdated /\ redis'[k] = redis[k]
        BY <1>7, <1>9, <2>1
      <3>2. Current(k) /\ k[1] # "rate"
        BY <1>8, <1>9, <2>1, <3>1 DEF CInv
      <3> QED BY <1>2, <1>3, <3>1, <3>2, EntryStays DEF Unflushed
    <2>2. CASE k = rate
      <3>1. redis'[rate] = entry /\ t.rate # None
        BY <1>6, <1>9, <2>2 DEF Updated
      <3>2. r \in overtaken \/ got[r].value = t.rate
        BY <1>1, <3>1 DEF CInv, Reader
      <3>3. redis'[k].by = r /\ redis'[k].value = got[r].value
        BY <1>5, <2>2, <3>1
      <3>4. ASSUME got[r].value = t.rate PROVE IsAnswer(k, redis[k].value)'
        <4>1. redis'[k].value = Rate(t')
          BY <1>2, <3>1, <3>3, <3>4 DEF Rate
        <4> QED BY <1>5, <2>2, <4>1 DEF IsAnswer
      <3> QED BY <1>2, <3>2, <3>3, <3>4 DEF Current
    <2> QED BY <2>1, <2>2
  <1> QED BY <1>4, <1>8, <1>9 DEF CInv, rate


\* Every key of the products is dropped, or outdated.
LEMMA FlushCache ==
    ASSUME TInv, CInv, NEW r \in Requests, InvalidateProductCache(r)
    PROVE  CInv'
  <1>1. /\ pc[r] = "flush" /\ Go(r, "ok") /\ Held(r, "ok", got[r])
        /\ UNCHANGED <<t, overtaken>>
    BY DEF InvalidateProductCache
  <1>2. pc'[r] = "ok" /\ Alone(r)
    BY <1>1, Moved
  <1>3. \A q \in Requests : q \notin overtaken' => Reader(q)'
    <2> TAKE q \in Requests
    <2>1. CASE q = r
      BY <1>2, <2>1, NoReader
    <2>2. CASE q # r
      BY <1>1, <1>2, <2>2, ReaderStays DEF CInv, Alone
    <2> QED BY <2>1, <2>2
  <1>4. /\ DOMAIN redis' \subseteq DOMAIN redis
        /\ \A k \in DOMAIN redis' \ outdated' :
              /\ k \notin outdated /\ redis'[k] = redis[k]
              /\ k[1] \notin ProductKinds
    <2>1. PICK kept \in SUBSET ProductKeys :
              /\ redis' = [k \in DOMAIN redis \ (ProductKeys \ kept) |->
                              redis[k]]
              /\ outdated' = (outdated \ ProductKeys) \union kept
      BY DEF InvalidateProductCache
    <2> QED BY <2>1 DEF ProductKeys
  <1>5. ASSUME NEW k \in DOMAIN redis' \ outdated' PROVE Current(k)'
    <2>1. Current(k) /\ redis'[k] = redis[k] /\ k[1] \notin ProductKinds
      BY <1>4 DEF CInv
    <2>2. (\E q \in Requests : pc[q] = "keep") =>
              \E q \in Requests : pc'[q] = "keep"
      BY <1>1, <1>2 DEF Alone
    <2>3. IsAnswer(k, redis[k].value) => IsAnswer(k, redis[k].value)'
      BY <1>1, <2>1 DEF IsAnswer
    <2> QED BY <1>1, <2>1, <2>2, <2>3 DEF Current
  <1>6. \A k \in DOMAIN redis' : k[1] = "rate" => k = <<"rate">>
    BY <1>4 DEF CInv
  <1> QED BY <1>3, <1>5, <1>6 DEF CInv

\* A step of a reader that reads.
LEMMA ReaderCache ==
    ASSUME TInv, CInv, NEW r \in Requests, NEW from \in Reading,
           NEW to, NEW holds, Step(r, from, to, holds),
           r \notin overtaken => Reader(r)'
    PROVE  CInv'
  <1>1. Alone(r) /\ pc[r] = from /\ UNCHANGED <<t, redis, overtaken, outdated>>
    BY Moved DEF Step
  <1> QED BY <1>1, QuietCache DEF Reading, Unflushed

LEMMA QueryCache ==
    ASSUME TInv, CInv, NEW r \in Requests, NEW from \in Reading,
           NEW direct, Query(r, from, direct)
    PROVE  CInv'
  <1> DEFINE holds == [Nothing EXCEPT !.direct = direct]
             to == FirstQuery(body[r].op)
  <1>1. /\ to \in {"lookup", "count", "fetch"}
        /\ to = "fetch" => body[r].op \notin {"images", "pricing", "specs"}
    BY DEF FirstQuery
  <1>2. Step(r, from, to, holds)
    BY DEF Query
  <1> HIDE DEF holds, to
  <1>3. pc'[r] = to /\ body'[r] = body[r]
    BY <1>1, <1>2, Moved DEF Step
  <1>4. Reader(r)'
    BY <1>1, <1>3 DEF Reader
  <1> QED BY <1>2, <1>4, ReaderCache

LEMMA FallCache ==
    ASSUME TInv, CInv, NEW r \in Requests, NEW from \in Reading, Fall(r, from)
    PROVE  CInv'
  BY QueryCache, GiveUpCache DEF Fall

LEMMA FindCache ==
    ASSUME TInv, CInv, NEW r \in Requests, Find(r)
    PROVE  CInv'
  <1>1. "find" \in Reading
    BY DEF Reading
  <1>2. CASE Step(r, "find", "ok", Nothing)
    <2>1. pc'[r] = "ok"
      BY <1>2, Moved DEF Step
    <2>2. Reader(r)'
      BY <2>1, NoReader
    <2> QED BY <1>1, <1>2, <2>2, ReaderCache
  <1> QED BY <1>1, <1>2, QueryCache, FallCache DEF Find

LEMMA LookupCache ==
    ASSUME TInv, CInv, NEW r \in Requests, LookupProduct(r)
    PROVE  CInv'
  <1>1. "lookup" \in Reading
    BY DEF Reading
  <1>2. ASSUME NEW p \in GetProductBySlug(t, body[r].key[2]),
               Step(r, "lookup", "fetch", [got[r] EXCEPT !.about = p])
        PROVE  CInv'
    <2> DEFINE holds == [got[r] EXCEPT !.about = p]
    <2>1. holds.about = p
      BY HoldsAbout DEF TInv, Shaped
    <2>2. Step(r, "lookup", "fetch", holds)
      BY <1>2
    <2> HIDE DEF holds
    <2>3. pc'[r] = "fetch" /\ got'[r] = holds /\ body'[r] = body[r] /\ t' = t
      BY <2>2, Moved DEF Step, Done
    <2>4. Reader(r)'
      BY <1>2, <2>1, <2>3 DEF Reader, Slug
    <2> QED BY <1>1, <2>2, <2>4, ReaderCache
  <1> QED BY <1>1, <1>2, FallCache DEF LookupProduct

\* The last query: what it gives is an answer, whatever has come between.
LEMMA FetchCache ==
    ASSUME TInv, CInv, NEW r \in Requests, NEW op, NEW values,
           Fetch(r, op, values),
           r \notin overtaken /\ op \notin Searches =>
               \A v \in values : IsAnswer(body[r].key, v)
    PROVE  CInv'
  <1>1. "fetch" \in Reading /\ body[r].op = op
    BY DEF Reading, Fetch
  <1>2. ASSUME NEW v \in values,
               Step(r, "fetch", IF got[r].direct THEN "ok" ELSE "fill",
                    [got[r] EXCEPT !.value = v])
        PROVE  CInv'
    <2> DEFINE holds == [got[r] EXCEPT !.value = v]
               to == IF got[r].direct THEN "ok" ELSE "fill"
    <2>1. holds.value = v
      BY HoldsValue DEF TInv, Shaped
    <2>2. Step(r, "fetch", to, holds) /\ to \in {"ok", "fill"}
      BY <1>2
    <2> HIDE DEF holds, to
    <2>3. /\ pc'[r] = to /\ t' = t
          /\ to = "fill" => got'[r] = holds /\ body'[r] = body[r]
      BY <2>2, Moved DEF Step, Done
    <2>4. ASSUME r \notin overtaken PROVE Reader(r)'
      <3>1. CASE to = "ok"
        BY <2>3, <3>1, NoReader
      <3>2. CASE to = "fill"
        <4>1. ASSUME op \notin Searches
              PROVE  IsAnswer(body[r].key, got[r].value)'
          <5>1. IsAnswer(body[r].key, v)
            BY <2>4, <4>1
          <5>2. body'[r] = body[r] /\ got'[r].value = v /\ t' = t
            BY <2>1, <2>3, <3>2
          <5> QED BY <5>1, <5>2 DEF IsAnswer
        <4> QED BY <1>1, <2>3, <3>2, <4>1 DEF Reader
      <3> QED BY <2>2, <3>1, <3>2
    <2> QED BY <1>1, <2>2, <2>4, ReaderCache
  <1> QED BY <1>1, <1>2, FallCache DEF Fetch


LEMMA NamesCache ==
    ASSUME TInv, CInv, NEW r \in Requests,
           \/ FetchName(r) \/ FetchDetail(r) \/ FetchCart(r) \/ FetchSEO(r)
           \/ FetchSitemap(r)
    PROVE  CInv'
  <1>1. pc[r] = "fetch" /\ body[r].key[1] = KindOf[body[r].op]
    BY DEF FetchName, FetchDetail, FetchCart, FetchSEO, FetchSitemap, Fetch,
           TInv, AskAt, Keyed
  <1>2. CASE FetchName(r)
    <2>1. body[r].key[1] = "details"
      BY <1>1, <1>2 DEF FetchName, Fetch, KindOf
    <2>2. \A v \in GetProductNames(t, Slug(r)) : IsAnswer(body[r].key, v)
      BY <2>1 DEF IsAnswer, Slug
    <2> QED BY <1>2, <2>2, FetchCache DEF FetchName
  <1>3. CASE FetchDetail(r)
    <2>1. body[r].key[1] = "details"
      BY <1>1, <1>3 DEF FetchDetail, Fetch, KindOf
    <2>2. \A v \in GetV2ProductDetailBySlug(t, Slug(r)) :
              IsAnswer(body[r].key, v)
      BY <2>1 DEF IsAnswer, Slug
    <2> QED BY <1>3, <2>2, FetchCache DEF FetchDetail
  <1>4. CASE FetchCart(r)
    <2>1. body[r].key[1] = "cart"
      BY <1>1, <1>4 DEF FetchCart, Fetch, KindOf
    <2>2. \A v \in GetProductCartByProductSlug(t, Slug(r)) :
              IsAnswer(body[r].key, v)
      BY <2>1 DEF IsAnswer, Slug
    <2> QED BY <1>4, <2>2, FetchCache DEF FetchCart
  <1>5. CASE FetchSEO(r)
    <2>1. body[r].key[1] = "seo"
      BY <1>1, <1>5 DEF FetchSEO, Fetch, KindOf
    <2>2. \A v \in GetProductSEO(t, Slug(r)) : IsAnswer(body[r].key, v)
      BY <2>1 DEF IsAnswer, Slug
    <2> QED BY <1>5, <2>2, FetchCache DEF FetchSEO
  <1>6. CASE FetchSitemap(r)
    <2>1. body[r].key[1] = "sitemap"
      BY <1>1, <1>6 DEF FetchSitemap, Fetch, KindOf
    <2>2. \A v \in ListProducts(t) : IsAnswer(body[r].key, v)
      BY <2>1 DEF IsAnswer
    <2> QED BY <1>6, <2>2, FetchCache DEF FetchSitemap
  <1> QED BY <1>2, <1>3, <1>4, <1>5, <1>6

LEMMA ListsCache ==
    ASSUME TInv, CInv, NEW r \in Requests,
           \/ FetchBestSellers(r) \/ FetchFeatured(r) \/ FetchNewArrivals(r)
           \/ FetchDailyDeals(r) \/ GetLatestExchangeRate(r)
    PROVE  CInv'
  <1>1. pc[r] = "fetch" /\ body[r].key[1] = KindOf[body[r].op]
    BY DEF FetchBestSellers, FetchFeatured, FetchNewArrivals, FetchDailyDeals,
           GetLatestExchangeRate, Fetch, TInv, AskAt, Keyed
  <1>2. CASE FetchBestSellers(r)
    <2>1. body[r].key[1] = "best-sellers"
      BY <1>1, <1>2 DEF FetchBestSellers, Fetch, KindOf
    <2>2. \A v \in GetBestSellerProducts(t, PageSize) :
              IsAnswer(body[r].key, v)
      BY <2>1 DEF IsAnswer
    <2> QED BY <1>2, <2>2, FetchCache DEF FetchBestSellers
  <1>3. CASE FetchFeatured(r)
    <2>1. body[r].key[1] = "featured"
      BY <1>1, <1>3 DEF FetchFeatured, Fetch, KindOf
    <2>2. \A v \in GetFeaturedProducts(t, PageSize) : IsAnswer(body[r].key, v)
      BY <2>1 DEF IsAnswer
    <2> QED BY <1>3, <2>2, FetchCache DEF FetchFeatured
  <1>4. CASE FetchNewArrivals(r)
    <2>1. body[r].key[1] = "new-arrivals"
      BY <1>1, <1>4 DEF FetchNewArrivals, Fetch, KindOf
    <2>2. \A v \in GetNewArrivalProducts(t, PageSize) :
              IsAnswer(body[r].key, v)
      BY <2>1 DEF IsAnswer
    <2> QED BY <1>4, <2>2, FetchCache DEF FetchNewArrivals
  <1>5. CASE FetchDailyDeals(r)
    <2>1. body[r].key[1] = "daily-deals"
      BY <1>1, <1>5 DEF FetchDailyDeals, Fetch, KindOf
    <2>2. \A v \in GetDailyDeals(t) : IsAnswer(body[r].key, v)
      BY <2>1 DEF IsAnswer
    <2> QED BY <1>5, <2>2, FetchCache DEF FetchDailyDeals
  <1>6. CASE GetLatestExchangeRate(r)
    <2>1. body[r].key[1] = "rate"
      BY <1>1, <1>6 DEF GetLatestExchangeRate, Fetch, KindOf
    <2>2. \A v \in {Rate(t)} : IsAnswer(body[r].key, v)
      BY <2>1 DEF IsAnswer
    <2> QED BY <1>6, <2>2, FetchCache DEF GetLatestExchangeRate
  <1> QED BY <1>2, <1>3, <1>4, <1>5, <1>6

\* The queries by the id that another query gave.
LEMMA IdsCache ==
    ASSUME TInv, CInv, NEW r \in Requests,
           FetchImages(r) \/ FetchPricing(r) \/ FetchSpecs(r)
    PROVE  CInv'
  <1>1. /\ pc[r] = "fetch" /\ body[r].key[1] = KindOf[body[r].op]
        /\ body[r].op \in {"images", "pricing", "specs"}
    BY DEF FetchImages, FetchPricing, FetchSpecs, Fetch, TInv, AskAt, Keyed
  <1>2. r \notin overtaken =>
            got[r].about \in GetProductBySlug(t, body[r].key[2])
    BY <1>1 DEF CInv, Reader, Slug
  <1>3. CASE FetchImages(r)
    <2>1. body[r].key[1] = "images"
      BY <1>1, <1>3 DEF FetchImages, Fetch, KindOf
    <2>2. r \notin overtaken =>
              \A v \in GetImageKeysByProductID(t, got[r].about) :
                  IsAnswer(body[r].key, v)
      BY <1>2, <2>1 DEF IsAnswer
    <2> QED BY <1>3, <2>2, FetchCache DEF FetchImages
  <1>4. CASE FetchPricing(r)
    <2> DEFINE values == IF t.items[got[r].about] = None THEN {}
                         ELSE GetProductPricingByProductID(t, got[r].about)
    <2>1. body[r].key[1] = "pricing"
      BY <1>1, <1>4 DEF FetchPricing, Fetch, KindOf
    <2>2. r \notin overtaken => \A v \in values : IsAnswer(body[r].key, v)
      BY <1>2, <2>1 DEF IsAnswer
    <2>3. Fetch(r, "pricing", values)
      BY <1>4 DEF FetchPricing
    <2> HIDE DEF values
    <2> QED BY <2>2, <2>3, FetchCache
  <1>5. CASE FetchSpecs(r)
    <2>1. body[r].key[1] = "specs"
      BY <1>1, <1>5 DEF FetchSpecs, Fetch, KindOf
    <2>2. r \notin overtaken =>
              \A v \in GetProductSpecsByID(t, got[r].about) :
                  IsAnswer(body[r].key, v)
      BY <1>2, <2>1 DEF IsAnswer
    <2> QED BY <1>5, <2>2, FetchCache DEF FetchSpecs
  <1> QED BY <1>3, <1>4, <1>5

LEMMA SearchCache ==
    ASSUME TInv, CInv, NEW r \in Requests,
           Search(r) \/ SearchPaginated(r) \/ Autocomplete(r)
    PROVE  CInv'
  <1>1. ASSUME NEW op \in Searches, NEW values, Fetch(r, op, values)
        PROVE  CInv'
    BY <1>1, FetchCache
  <1> QED BY <1>1 DEF Search, SearchPaginated, Autocomplete, Searches


\* The page of a list is a list.
LEMMA PageIsList ==
    ASSUME NEW u, NEW c, NEW n \in Pages,
           NEW s \in GetProductsByParentCategoryID(u, c, n, PageSize)
    PROVE  s \in Seq(Products)
  <1> DEFINE S == SellingIn(u, Below(u, {c} \intersect Stored(u)))
  <1>1. PICK o \in SetToSeqs(S) : s = Page(o, n, PageSize)
    BY DEF GetProductsByParentCategoryID
  <1>2. S \subseteq Products /\ IsFiniteSet(S)
    BY CatalogueAssumption, FS_Subset DEF SellingIn, Selling, Live
  <1> HIDE DEF S
  <1>3. Cardinality(S) \in Nat /\ o \in [1..Cardinality(S) -> S]
    BY <1>1, <1>2, FS_CardinalityType DEF SetToSeqs
  <1>4. o \in Seq(Products) /\ Len(o) = Cardinality(S)
    BY <1>2, <1>3
  <1> DEFINE from == (n - 1) * PageSize + 1
             to == IF Len(o) < n * PageSize THEN Len(o) ELSE n * PageSize
  <1>5. n \in Nat \ {0} /\ PageSize \in Nat \ {0}
    BY ProductsAssumption
  <1>6. (n - 1) * PageSize \in Nat /\ n * PageSize \in Nat
    BY <1>5
  <1>7. from \in Int /\ to \in Int /\ from >= 1 /\ to <= Len(o)
    BY <1>4, <1>6
  <1>8. s = SubSeq(o, from, to)
    BY <1>1 DEF Page
  <1> HIDE DEF from, to
  <1>9. \A i \in from..to : o[i] \in Products
    BY <1>4, <1>7
  <1> QED BY <1>7, <1>8, <1>9, SubSeqProperties

LEMMA AppendIs ==
    ASSUME NEW s, IsList(s), NEW x
    PROVE  /\ IsList(Append(s, x)) /\ Len(Append(s, x)) = Len(s) + 1
           /\ Len(s) \in Nat
           /\ \A i \in 1..Len(s) : Append(s, x)[i] = s[i]
           /\ Append(s, x)[Len(s) + 1] = x
  <1> DEFINE S == Range(s) \union {x}
  <1>1. s \in Seq(S) /\ x \in S
    BY DEF IsList
  <1> HIDE DEF S
  <1>2. /\ Append(s, x) \in Seq(S) /\ Len(Append(s, x)) = Len(s) + 1
        /\ \A i \in 1..Len(s) : Append(s, x)[i] = s[i]
        /\ Append(s, x)[Len(s) + 1] = x
    BY <1>1, AppendProperties
  <1>3. IsList(Append(s, x))
    BY <1>2, SeqOfRange DEF IsList
  <1> QED BY <1>1, <1>2, <1>3

LEMMA TailIs ==
    ASSUME NEW s, IsList(s), s # <<>>
    PROVE  /\ IsList(Tail(s)) /\ Len(Tail(s)) = Len(s) - 1
           /\ Len(s) \in Nat /\ Len(s) # 0 /\ Head(s) = s[1]
           /\ \A i \in 1..Len(Tail(s)) : Tail(s)[i] = s[i + 1]
           /\ Len(s) # 1 => Tail(s) # <<>>
  <1> DEFINE S == Range(s)
  <1>1. s \in Seq(S)
    BY DEF IsList
  <1> HIDE DEF S
  <1>2. /\ Tail(s) \in Seq(S) /\ Len(Tail(s)) = Len(s) - 1
        /\ \A i \in 1..Len(Tail(s)) : Tail(s)[i] = s[i + 1]
    BY <1>1, HeadTailProperties
  <1>3. IsList(Tail(s))
    BY <1>2, SeqOfRange DEF IsList
  <1>4. Len(s) \in Nat /\ Len(s) # 0 /\ Head(s) = s[1]
    BY <1>1
  <1>5. Len(s) # 1 => Len(Tail(s)) # 0
    BY <1>2, <1>4
  <1>6. Len(s) # 1 => Tail(s) # <<>>
    BY <1>5
  <1> QED BY <1>2, <1>3, <1>4, <1>6

\* One more row is mapped.
LEMMA PageStep ==
    ASSUME NEW u, NEW s, NEW rows, IsList(rows), NEW todo, IsList(todo),
           todo # <<>>, IsPage(u, s, rows, todo),
           NEW row, IsRow(u, Head(todo), row)
    PROVE  IsPage(u, s, Append(rows, row), Tail(todo))
  <1> DEFINE new == Append(rows, row)
             left == Tail(todo)
  <1>1. /\ Len(new) = Len(rows) + 1 /\ Len(rows) \in Nat
        /\ \A i \in 1..Len(rows) : new[i] = rows[i]
        /\ new[Len(rows) + 1] = row
    BY AppendIs
  <1>2. /\ Len(left) = Len(todo) - 1 /\ Len(todo) \in Nat /\ Len(todo) # 0
        /\ Head(todo) = todo[1]
        /\ \A i \in 1..Len(left) : left[i] = todo[i + 1]
    BY TailIs
  <1> HIDE DEF new, left
  <1>3. Len(s) = Len(new) + Len(left)
    BY <1>1, <1>2 DEF IsPage
  <1>4. /\ todo[1].id = s[Len(rows) + 1]
        /\ todo[1].usd = u.items[s[Len(rows) + 1]].usd
    BY <1>2 DEF IsPage
  <1>5. /\ row.id = s[Len(rows) + 1]
        /\ row.price = Price(u, s[Len(rows) + 1])
        /\ row.image \in FirstImage(u, s[Len(rows) + 1])
    BY <1>2, <1>4 DEF IsRow, Price
  <1>6. ASSUME NEW i \in 1..Len(new)
        PROVE  /\ new[i].id = s[i]
               /\ new[i].price = Price(u, s[i])
               /\ new[i].image \in FirstImage(u, s[i])
    <2>1. i \in 1..Len(rows) \/ i = Len(rows) + 1
      BY <1>1
    <2> QED BY <1>1, <1>5, <2>1 DEF IsPage
  <1>7. ASSUME NEW i \in 1..Len(left)
        PROVE  /\ left[i].id = s[Len(new) + i]
               /\ left[i].usd = u.items[s[Len(new) + i]].usd
    <2>1. i + 1 \in 1..Len(todo) /\ left[i] = todo[i + 1]
      BY <1>2
    <2>2. Len(rows) + (i + 1) = Len(new) + i
      BY <1>1, <1>2
    <2>3. /\ todo[i + 1].id = s[Len(rows) + (i + 1)]
          /\ todo[i + 1].usd = u.items[s[Len(rows) + (i + 1)]].usd
      BY <2>1 DEF IsPage
    <2> QED BY <2>1, <2>2, <2>3
  <1>8. IsPage(u, s, new, left)
    BY <1>3, <1>6, <1>7 DEF IsPage
  <1> QED BY <1>8 DEF new, left

\* A page before its first row is mapped.
LEMMA RowsStart ==
    ASSUME NEW u, NEW b, NEW g, NEW s, Len(s) \in Nat, s # <<>>,
           s \in GetProductsByParentCategoryID(u, b.key[2], b.key[3], PageSize),
           g.value = [total |-> CountProductsByParentCategoryID(u, b.key[2]),
                      rows |-> <<>>],
           IsList(g.todo), g.todo # <<>>, Len(g.todo) = Len(s),
           \A i \in 1..Len(s) :
               g.todo[i].id = s[i] /\ g.todo[i].usd = u.items[s[i]].usd
    PROVE  RowsRead(u, b, g)
  <1>1. /\ g.value.rows = <<>> /\ <<>> \in Seq(Range(<<>>)) /\ Len(<<>>) = 0
    OBVIOUS
  <1>2. \A i \in 1..Len(g.todo) :
            g.todo[i].id = s[0 + i] /\ g.todo[i].usd = u.items[s[0 + i]].usd
    OBVIOUS
  <1>3. IsPage(u, s, <<>>, g.todo)
    BY <1>1, <1>2 DEF IsPage
  <1> QED BY <1>1, <1>3 DEF RowsRead, IsList

\* One more is mapped, and others are left.
LEMMA RowsNext ==
    ASSUME NEW u, NEW b, NEW g, RowsRead(u, b, g),
           NEW row, IsRow(u, Head(g.todo), row), Len(g.todo) # 1,
           NEW h, h.todo = Tail(g.todo),
           h.value = [total |-> g.value.total,
                      rows |-> Append(g.value.rows, row)]
    PROVE  RowsRead(u, b, h)
  <1>1. /\ g.value.total = CountProductsByParentCategoryID(u, b.key[2])
        /\ IsList(g.value.rows) /\ IsList(g.todo) /\ g.todo # <<>>
    BY DEF RowsRead
  <1>2. PICK s \in GetProductsByParentCategoryID(u, b.key[2], b.key[3],
                                                 PageSize) :
            IsPage(u, s, g.value.rows, g.todo)
    BY DEF RowsRead
  <1>3. IsList(Append(g.value.rows, row))
    BY <1>1, AppendIs
  <1>4. IsList(Tail(g.todo)) /\ Tail(g.todo) # <<>>
    BY <1>1, TailIs
  <1>5. IsPage(u, s, Append(g.value.rows, row), Tail(g.todo))
    BY <1>1, <1>2, PageStep
  <1> QED BY <1>1, <1>3, <1>4, <1>5 DEF RowsRead

\* The last one is mapped.
LEMMA RowsEnd ==
    ASSUME NEW b, b.key[1] = "category", b.key[3] \in Pages,
           NEW g, RowsRead(t, b, g),
           NEW row, IsRow(t, Head(g.todo), row), Len(g.todo) = 1,
           NEW v, v.total = g.value.total, v.rows = Append(g.value.rows, row)
    PROVE  IsAnswer(b.key, v)
  <1>1. /\ v.total = CountProductsByParentCategoryID(t, b.key[2])
        /\ IsList(g.value.rows) /\ IsList(g.todo) /\ g.todo # <<>>
    BY DEF RowsRead
  <1>2. PICK s \in GetProductsByParentCategoryID(t, b.key[2], b.key[3],
                                                 PageSize) :
            IsPage(t, s, g.value.rows, g.todo)
    BY DEF RowsRead
  <1>3. IsPage(t, s, v.rows, Tail(g.todo))
    BY <1>1, <1>2, PageStep
  <1>4. IsList(v.rows) /\ Len(Tail(g.todo)) = 0
    BY <1>1, AppendIs, TailIs
  <1>5. DOMAIN v.rows = 1..Len(v.rows) /\ Len(v.rows) \in Nat
    BY <1>4 DEF IsList
  <1>6. Len(s) = Len(v.rows)
    <2>1. Len(s) = Len(v.rows) + Len(Tail(g.todo))
      BY <1>3 DEF IsPage
    <2>2. Len(Tail(g.todo)) = 0 /\ Len(v.rows) \in Nat
      BY <1>4, <1>5
    <2>3. Len(v.rows) + Len(Tail(g.todo)) = Len(v.rows)
      <3>1. \A m \in Nat : m + 0 = m
        OBVIOUS
      <3> QED BY <2>2, <3>1, Zenon
    <2> QED BY <2>1, <2>3
  <1>7. \A i \in DOMAIN v.rows :
            /\ v.rows[i].id = s[i]
            /\ v.rows[i].price = Price(t, s[i])
            /\ v.rows[i].image \in FirstImage(t, s[i])
    BY <1>3, <1>5, <1>6 DEF IsPage
  <1>8. s \in [DOMAIN v.rows -> Products]
    <2>1. s \in Seq(Products)
      BY PageIsList
    <2> QED BY <1>5, <1>6, <2>1
  <1> QED BY <1>1, <1>7, <1>8, CategoryAnswer

LEMMA CountCache ==
    ASSUME TInv, CInv, NEW r \in Requests, CountAll(r) \/ CountInCategory(r)
    PROVE  CInv'
  <1>1. /\ "count" \in Reading /\ body[r].op \in {"all", "category"}
        /\ IsGot(got[r])
    BY DEF Reading, CountAll, CountInCategory, TInv, Shaped
  <1> DEFINE n == IF body[r].op = "all" THEN CountProducts(t)
                  ELSE CountProductsByParentCategoryID(t, Slug(r))
  <1>2. ASSUME NEW to \in {"page", "ok"},
               Step(r, "count", to, [got[r] EXCEPT !.value =
                                        [total |-> n, rows |-> <<>>]])
        PROVE  CInv'
    <2> DEFINE value == [total |-> n, rows |-> <<>>]
               holds == [got[r] EXCEPT !.value = value]
    <2>1. holds.value = value
      BY <1>1, HoldsValue
    <2>2. Step(r, "count", to, holds)
      BY <1>2
    <2> HIDE DEF holds
    <2>3. /\ pc'[r] = to /\ t' = t
          /\ to = "page" => got'[r] = holds /\ body'[r] = body[r]
      BY <2>2, Moved DEF Step, Done
    <2>4. Reader(r)'
      <3>1. CASE to = "ok"
        BY <2>3, <3>1, NoReader
      <3>2. CASE to = "page"
        <4>1. got'[r].value = value /\ body'[r] = body[r] /\ pc'[r] = "page"
          BY <2>1, <2>3, <3>2
        <4>2. Slug(r)' = Slug(r)
          BY <4>1 DEF Slug
        <4> QED BY <2>3, <4>1, <4>2 DEF Reader
      <3> QED BY <3>1, <3>2
    <2> QED BY <1>1, <2>2, <2>4, ReaderCache
  <1>3. CASE CountAll(r)
    BY <1>1, <1>2, <1>3, FallCache DEF CountAll
  <1>4. CASE CountInCategory(r)
    <2> DEFINE to == IF n = 0 THEN "ok" ELSE "page"
    <2>1. \/ Step(r, "count", to, [got[r] EXCEPT !.value =
                                      [total |-> n, rows |-> <<>>]])
          \/ Fall(r, "count")
      BY <1>4 DEF CountInCategory
    <2>2. to \in {"page", "ok"}
      OBVIOUS
    <2> HIDE DEF to, n
    <2> QED BY <1>1, <1>2, <2>1, <2>2, FallCache
  <1> QED BY <1>3, <1>4

LEMMA PageOfAllCache ==
    ASSUME TInv, CInv, NEW r \in Requests, PageOfAll(r)
    PROVE  CInv'
  <1>1. /\ pc[r] = "page" /\ "page" \in Reading /\ body[r].op = "all"
        /\ body[r].key[1] = "all" /\ IsGot(got[r])
    BY DEF Reading, PageOfAll, TInv, Shaped, AskAt, Keyed, KindOf
  <1>2. ASSUME NEW s \in GetV2Products(t, Slug(r), PageSize),
               Step(r, "page", "fill", [got[r] EXCEPT !.value.rows = s])
        PROVE  CInv'
    <2> DEFINE value == [got[r].value EXCEPT !.rows = s]
               holds == [got[r] EXCEPT !.value = value]
    <2>1. Step(r, "page", "fill", holds)
      BY <1>2
    <2>2. holds.value = value
      BY <1>1, HoldsValue
    <2> HIDE DEF holds
    <2>3. /\ pc'[r] = "fill" /\ t' = t /\ got'[r] = holds
          /\ body'[r] = body[r]
      BY <2>1, Moved DEF Step, Done
    <2>4. ASSUME r \notin overtaken PROVE Reader(r)'
      <3>1. got[r].value = [total |-> CountProducts(t), rows |-> <<>>]
        BY <1>1, <2>4 DEF CInv, Reader
      <3>2. value.total = CountProducts(t) /\ value.rows = s
        BY <3>1
      <3>3. IsAnswer(body[r].key, value)
        BY <1>1, <3>2 DEF IsAnswer, Slug
      <3>4. IsAnswer(body[r].key, got[r].value)'
        <4>1. got'[r].value = value
          BY <2>2, <2>3
        <4> HIDE DEF value
        <4> QED BY <2>3, <3>3, <4>1, AnswerHeld
      <3> QED BY <2>3, <3>4 DEF Reader
    <2> QED BY <1>1, <2>1, <2>4, ReaderCache
  <1> QED BY <1>1, <1>2, FallCache DEF PageOfAll

LEMMA PageOfCategoryCache ==
    ASSUME TInv, CInv, NEW r \in Requests, PageOfCategory(r)
    PROVE  CInv'
  <1>1. /\ pc[r] = "page" /\ "page" \in Reading /\ body[r].op = "category"
        /\ body[r].key[1] = "category" /\ body[r].key[3] \in Pages
        /\ IsGot(got[r])
    BY DEF Reading, PageOfCategory, TInv, Shaped, AskAt, Keyed, KindOf
  <1>2. ASSUME NEW s \in GetProductsByParentCategoryID(
                             t, body[r].key[2], body[r].key[3], PageSize),
               NEW todo,
               todo = [i \in DOMAIN s |-> [id |-> s[i],
                                           usd |-> t.items[s[i]].usd]],
               NEW to, to = IF s = <<>> THEN "fill" ELSE "row",
               Step(r, "page", to, [got[r] EXCEPT !.todo = todo])
        PROVE  CInv'
    <2> DEFINE holds == [got[r] EXCEPT !.todo = todo]
    <2>1. Step(r, "page", to, holds)
      BY <1>2
    <2>2. holds.value = got[r].value /\ holds.todo = todo
      BY <1>1, HoldsTodo
    <2> HIDE DEF holds
    <2>3. /\ pc'[r] = to /\ t' = t /\ got'[r] = holds /\ body'[r] = body[r]
      BY <1>2, <2>1, Moved DEF Step, Done
    <2>4. ASSUME r \notin overtaken PROVE Reader(r)'
      <3>1. got[r].value =
                [total |-> CountProductsByParentCategoryID(t, body[r].key[2]),
                 rows |-> <<>>]
        BY <1>1, <2>4 DEF CInv, Reader, Slug
      <3>2. CASE s = <<>>
        <4> DEFINE value == got[r].value
        <4>1. /\ value.rows = <<>>
              /\ value.total =
                     CountProductsByParentCategoryID(t, body[r].key[2])
          BY <3>1
        <4>2. s \in [DOMAIN value.rows -> Products] /\ DOMAIN value.rows = {}
          BY <3>2, <4>1
        <4>3. s \in GetProductsByParentCategoryID(
                       t, body[r].key[2], body[r].key[3], PageSize)
          BY <1>2
        <4> HIDE DEF value
        <4>4. IsAnswer(body[r].key, value)
          BY <1>1, <4>1, <4>2, <4>3, CategoryAnswer
        <4>5. IsAnswer(body[r].key, got[r].value)'
          BY <2>2, <2>3, <4>4, AnswerHeld DEF value
        <4> QED BY <1>2, <2>3, <3>2, <4>5 DEF Reader
      <3>3. CASE s # <<>>
        <4>1. holds.value =
                [total |-> CountProductsByParentCategoryID(t, body[r].key[2]),
                 rows |-> <<>>]
          BY <2>2, <3>1
        <4>2. RowsRead(t, body[r], holds)
          <5>1. s \in Seq(Products)
            BY <1>1, <1>2, PageIsList
          <5>2. DOMAIN s = 1..Len(s) /\ Len(s) \in Nat
            BY <5>1
          <5>3. /\ todo \in [1..Len(s) -> Range(todo)]
                /\ \A i \in 1..Len(s) :
                      /\ todo[i].id = s[i]
                      /\ todo[i].usd = t.items[s[i]].usd
            BY <1>2, <5>2 DEF Range
          <5>4. IsList(todo) /\ Len(todo) = Len(s) /\ todo # <<>>
            BY <3>3, <5>1, <5>2, <5>3 DEF IsList
          <5>5. /\ IsList(holds.todo) /\ holds.todo # <<>>
                /\ Len(holds.todo) = Len(s)
                /\ \A i \in 1..Len(s) :
                      /\ holds.todo[i].id = s[i]
                      /\ holds.todo[i].usd = t.items[s[i]].usd
            BY <2>2, <5>3, <5>4
          <5>6. s \in GetProductsByParentCategoryID(
                         t, body[r].key[2], body[r].key[3], PageSize)
            BY <1>2
          <5> QED BY <3>3, <4>1, <5>2, <5>5, <5>6, RowsStart
        <4>3. RowsRead(t, body[r], got[r])'
          BY <2>3, <4>2
        <4> QED BY <1>1, <1>2, <2>3, <3>3, <4>3 DEF Reader
      <3> QED BY <3>2, <3>3
    <2> QED BY <1>1, <2>1, <2>4, ReaderCache
  <1>3. \/ Fall(r, "page")
        \/ \E s \in GetProductsByParentCategoryID(
                        t, body[r].key[2], body[r].key[3], PageSize) :
               Step(r, "page", IF s = <<>> THEN "fill" ELSE "row",
                    [got[r] EXCEPT !.todo =
                        [i \in DOMAIN s |-> [id |-> s[i],
                                             usd |-> t.items[s[i]].usd]]])
    BY DEF PageOfCategory, Slug
  <1> QED BY <1>1, <1>2, <1>3, FallCache


LEMMA MapCache ==
    ASSUME TInv, CInv, NEW r \in Requests, MapProduct(r)
    PROVE  CInv'
  <1>1. /\ pc[r] = "row" /\ "row" \in Reading /\ Keyed(body[r])
        /\ IsGot(got[r])
    BY DEF Reading, MapProduct, TInv, Shaped, AskAt
  <1> DEFINE p == Head(got[r].todo)
  <1>2. ASSUME NEW image \in FirstImage(t, p.id),
               NEW row, row = [id |-> p.id, price |-> p.usd * Rate(t),
                               image |-> image],
               NEW rows, rows = Append(got[r].value.rows, row),
               NEW to, to = IF Len(got[r].todo) = 1 THEN "fill" ELSE "row",
               NEW holds,
               holds = [got[r] EXCEPT !.todo = Tail(@),
                                      !.value.rows = Append(@, row)],
               Step(r, "row", to, holds)
        PROVE  CInv'
    <2> DEFINE left == Tail(got[r].todo)
               first == [got[r] EXCEPT !.todo = left]
               value == [got[r].value EXCEPT !.rows = rows]
    <2>1. first.value = got[r].value /\ first.todo = left /\ IsGot(first)
      BY <1>1, HoldsTodo
    <2>2. holds = [first EXCEPT !.value = [first.value EXCEPT !.rows = rows]]
      <3>1. holds = [first EXCEPT !.value.rows = Append(@, row)]
        BY <1>2
      <3> HIDE DEF first
      <3>2. holds = [first EXCEPT !.value =
                        [first.value EXCEPT !.rows = Append(@, row)]]
        BY <3>1
      <3>3. [first.value EXCEPT !.rows = Append(@, row)] =
                [first.value EXCEPT !.rows = rows]
        BY <1>2, <2>1
      <3> QED BY <3>2, <3>3
    <2>3. holds.value = value /\ holds.todo = left
      <3> HIDE DEF first
      <3> QED BY <2>1, <2>2, HoldsValue
    <2> HIDE DEF first
    <2>4. /\ pc'[r] = to /\ t' = t /\ got'[r] = holds /\ body'[r] = body[r]
      BY <1>2, Moved DEF Step, Done
    <2>5. ASSUME r \notin overtaken PROVE Reader(r)'
      <3>1. RowsRead(t, body[r], got[r]) /\ body[r].op = "category"
        BY <1>1, <2>5 DEF CInv, Reader
      <3>2. body[r].key[1] = "category" /\ body[r].key[3] \in Pages
        BY <1>1, <3>1 DEF Keyed, KindOf
      <3>3. /\ IsRow(t, Head(got[r].todo), row)
            /\ rows = Append(got[r].value.rows, row)
        BY <1>2 DEF IsRow
      <3>4. value = [total |-> got[r].value.total, rows |-> rows]
        BY <3>1 DEF RowsRead
      <3>5. CASE Len(got[r].todo) = 1
        <4>1. /\ value.total = got[r].value.total
              /\ value.rows = Append(got[r].value.rows, row)
          BY <3>3, <3>4
        <4> HIDE DEF value
        <4>2. IsAnswer(body[r].key, value)
          BY <3>1, <3>2, <3>5, <3>3, <4>1, RowsEnd
        <4>3. IsAnswer(body[r].key, got[r].value)'
          BY <2>3, <2>4, <4>2, AnswerHeld
        <4> QED BY <1>2, <2>4, <3>5, <4>3 DEF Reader
      <3>6. CASE Len(got[r].todo) # 1
        <4>1. RowsRead(t, body[r], holds)
          BY <2>3, <3>1, <3>6, <3>3, <3>4, RowsNext
        <4>2. RowsRead(t, body[r], got[r])'
          BY <2>4, <4>1
        <4> QED BY <1>2, <2>4, <3>1, <3>6, <4>2 DEF Reader
      <3> QED BY <3>5, <3>6
    <2> QED BY <1>1, <1>2, <2>5, ReaderCache
  <1> QED BY <1>1, <1>2, FallCache DEF MapProduct


\* The filters, which store nothing.
LEMMA FilterCache ==
    ASSUME TInv, CInv, NEW r \in Requests,
           \/ CountFiltered(r) \/ PageOfFiltered(r)
           \/ FindCategory(r) \/ FetchFilterOptions(r)
    PROVE  CInv'
  <1>1. {"count", "page", "named", "options"} \subseteq Reading
    BY DEF Reading
  <1>2. ASSUME NEW from \in Reading, NEW to \in {"page", "options", "ok"},
               NEW holds, Step(r, from, to, holds),
               to = "page" => body[r].op \in {"filter", "filtered"}
        PROVE  CInv'
    <2>1. pc'[r] = to /\ (to # "ok" => body'[r] = body[r])
      BY <1>2, Moved DEF Step, Done
    <2>2. Reader(r)'
      BY <1>2, <2>1 DEF Reader
    <2> QED BY <1>2, <2>2, ReaderCache
  <1>3. CASE CountFiltered(r)
    <2>1. ASSUME NEW n, Step(r, "count", "page", [got[r] EXCEPT !.value = n])
          PROVE  CInv'
      BY <1>1, <1>2, <1>3, <2>1 DEF CountFiltered
    <2> QED BY <1>3, <2>1, GiveUpCache DEF CountFiltered
  <1>4. CASE PageOfFiltered(r)
    <2>1. ASSUME NEW v, Step(r, "page", "ok", [got[r] EXCEPT !.value = v])
          PROVE  CInv'
      BY <1>1, <1>2, <2>1
    <2> QED BY <1>4, <2>1, GiveUpCache DEF PageOfFiltered
  <1>5. CASE FindCategory(r)
    <2>1. ASSUME NEW c,
                 Step(r, "named", "options", [got[r] EXCEPT !.about = c])
          PROVE  CInv'
      BY <1>1, <1>2, <2>1
    <2> QED BY <1>5, <2>1, GiveUpCache DEF FindCategory
  <1>6. CASE FetchFilterOptions(r)
    <2>1. ASSUME NEW v, Step(r, "options", "ok", [got[r] EXCEPT !.value = v])
          PROVE  CInv'
      BY <1>1, <1>2, <2>1
    <2> QED BY <1>6, <2>1, GiveUpCache DEF FetchFilterOptions
  <1> QED BY <1>3, <1>4, <1>5, <1>6

\* What a reader stores is an answer, unless a write has come since it read.
LEMMA FillCache ==
    ASSUME TInv, CInv, NEW r \in Requests, Fill(r)
    PROVE  CInv'
  <1>1. pc[r] = "fill" /\ "fill" \in Reading /\ Keyed(body[r])
    BY DEF Fill, TInv, AskAt, Reading
  <1>2. CASE Step(r, "fill", "ok", Nothing)
    <2>1. pc'[r] = "ok"
      BY <1>2, Moved DEF Step
    <2>2. Reader(r)'
      BY <2>1, NoReader
    <2> QED BY <1>1, <1>2, <2>2, ReaderCache
  <1>3. CASE Fall(r, "fill")
    BY <1>1, <1>3, FallCache
  <1>4. CASE ~Step(r, "fill", "ok", Nothing) /\ ~Fall(r, "fill")
    <2> DEFINE key == body[r].key
               entry == [value |-> got[r].value, by |-> r]
    <2>1. /\ redis' = Updated(redis, [k \in {key} |-> entry])
          /\ outdated' = outdated \ {key}
          /\ Go(r, "ok") /\ Held(r, "ok", Nothing)
          /\ UNCHANGED <<t, overtaken>>
      BY <1>4 DEF Fill
    <2>2. pc'[r] = "ok" /\ Alone(r)
      BY <2>1, Moved
    <2>3. entry.value = got[r].value /\ entry.by = r
      OBVIOUS
    <2>4. \A q \in Requests : q \notin overtaken' => Reader(q)'
      <3> TAKE q \in Requests
      <3>1. CASE q = r
        BY <2>2, <3>1, NoReader
      <3>2. CASE q # r
        BY <2>1, <2>2, <3>2, ReaderStays DEF CInv, Alone
      <3> QED BY <3>1, <3>2
    <2> HIDE DEF key, entry
    <2>5. /\ DOMAIN redis' = DOMAIN redis \union {key} /\ redis'[key] = entry
          /\ \A k \in DOMAIN redis' \ {key} : redis'[k] = redis[k]
      BY <2>1 DEF Updated
    <2>6. key[1] = "rate" => key = <<"rate">>
      BY <1>1 DEF Keyed, KindOf, key
    <2>7. \A k \in DOMAIN redis' : k[1] = "rate" => k = <<"rate">>
      BY <2>5, <2>6 DEF CInv
    <2>8. ASSUME NEW k \in DOMAIN redis' \ outdated' PROVE Current(k)'
      <3>1. CASE k # key
        <4>1. k \in DOMAIN redis \ outdated /\ redis'[k] = redis[k]
          BY <2>1, <2>5, <2>8, <3>1
        <4>2. Current(k)
          BY <4>1 DEF CInv
        <4> QED BY <1>1, <2>1, <2>2, <4>1, <4>2, EntryStays DEF Unflushed
      <3>2. CASE k = key
        <4>1. redis'[k].by = r /\ redis'[k].value = got[r].value
          BY <2>3, <2>5, <3>2
        <4>2. CASE body[r].op \in Searches
          <5>1. key[1] \in {"search", "autocomplete"}
            BY <1>1, <4>2 DEF Keyed, KindOf, Searches, key
          <5> QED BY <3>2, <5>1 DEF Current
        <4>3. CASE r \in overtaken
          BY <2>1, <4>1, <4>3 DEF Current
        <4>4. CASE body[r].op \notin Searches /\ r \notin overtaken
          <5>1. IsAnswer(key, got[r].value)
            BY <1>1, <4>4 DEF CInv, Reader, key
          <5>2. IsAnswer(k, redis[k].value)'
            BY <2>1, <3>2, <4>1, <5>1, EntryAnswers
          <5> QED BY <5>2 DEF Current
        <4> QED BY <4>2, <4>3, <4>4
      <3> QED BY <3>1, <3>2
    <2> QED BY <2>4, <2>7, <2>8 DEF CInv
  <1> QED BY <1>2, <1>3, <1>4

LEMMA ReadCache ==
    ASSUME TInv, CInv, NEW r \in Requests, Read(r)
    PROVE  CInv'
  BY FindCache, LookupCache, FillCache, NamesCache, ListsCache, IdsCache,
     SearchCache, CountCache, PageOfAllCache, PageOfCategoryCache, MapCache,
     FilterCache DEF Read

LEMMA ChangeCache ==
    ASSUME TInv, CInv, NEW r \in Requests, Changed(r)
    PROVE  CInv'
  BY PrepareCache, SaveCache, UploadCache, ImageCache, DeleteCache, PurgeCache,
     RateCache, KeepCache, FlushCache DEF Changed

LEMMA InitCInv == Init => CInv
  <1> SUFFICES ASSUME Init PROVE CInv
    OBVIOUS
  <1>1. \A r \in Requests : pc[r] = "idle"
    BY DEF Init
  <1>2. DOMAIN redis = {}
    BY DEF Init
  <1>3. \A r \in Requests : Reader(r)
    BY <1>1 DEF Reader
  <1> QED BY <1>2, <1>3 DEF CInv

LEMMA NextCInv == TInv /\ CInv /\ [Next]_vars => CInv'
  <1> SUFFICES ASSUME TInv, CInv, [Next]_vars PROVE CInv'
    OBVIOUS
  <1>1. ASSUME NEW r \in Requests, Requested(r) PROVE CInv'
    BY <1>1, RequestsMove, RequestCache
  <1>2. ASSUME NEW r \in Requests, Read(r) PROVE CInv'
    BY <1>2, ReadCache
  <1>3. ASSUME NEW r \in Requests, Changed(r) PROVE CInv'
    BY <1>3, ChangeCache
  <1>4. ASSUME UNCHANGED <<t, pc, body, got, overtaken>>,
               DOMAIN redis' \subseteq DOMAIN redis,
               DOMAIN redis' \ outdated' \subseteq DOMAIN redis \ outdated,
               \A k \in DOMAIN redis' : redis'[k] = redis[k]
        PROVE  CInv'
    <2>1. \A q \in Requests : q \notin overtaken' => Reader(q)'
      BY <1>4, ReaderStays DEF CInv
    <2>2. ASSUME NEW k \in DOMAIN redis' \ outdated' PROVE Current(k)'
      <3>1. Current(k) /\ redis'[k] = redis[k]
        BY <1>4, <2>2 DEF CInv
      <3>2. IsAnswer(k, redis[k].value) => IsAnswer(k, redis[k].value)'
        BY <1>4, <3>1 DEF IsAnswer
      <3> QED BY <1>4, <3>1, <3>2 DEF Current
    <2>3. \A k \in DOMAIN redis' : k[1] = "rate" => k = <<"rate">>
      BY <1>4 DEF CInv
    <2> QED BY <2>1, <2>2, <2>3 DEF CInv
  <1>5. CASE Expire
    BY <1>4, <1>5 DEF Expire
  <1>6. CASE Tick
    BY <1>4, <1>6 DEF Tick
  <1>7. CASE UNCHANGED vars
    BY <1>4, <1>7 DEF vars
  <1> QED BY <1>1, <1>2, <1>3, <1>5, <1>6, <1>7 DEF Next

\* Once no request is between its statement and its flush, what Redis holds of
\* the products and of the rate is what the queries would answer, however the
\* requests interleave and wherever they fail. What is left stale has one of
\* the causes the model records: a reader that a write came after, a request
\* that failed after it wrote, or a key that Redis did not drop.
THEOREM ProductCacheIsCurrent == Spec => []CachedIsCurrent
  <1>1. TInv /\ CInv => CachedIsCurrent
    <2> SUFFICES ASSUME CInv, \A r \in Requests : pc[r] \notin Unflushed,
                        NEW k \in DOMAIN redis \ outdated
                 PROVE  \/ k[1] \in {"search", "autocomplete"}
                        \/ redis[k].by \in overtaken
                        \/ IsAnswer(k, redis[k].value)
      BY DEF CachedIsCurrent
    <2>1. Current(k)
      BY DEF CInv
    <2>2. \A r \in Requests : pc[r] # "keep"
      BY DEF Unflushed
    <2> QED BY <2>1, <2>2 DEF Current
  <1>2. Init => TInv /\ CInv
    BY InitTInv, InitCInv
  <1>3. TInv /\ CInv /\ [Next]_vars => (TInv /\ CInv)'
    BY NextTInv, NextCInv
  <1> QED BY <1>1, <1>2, <1>3, PTL DEF Spec
=============================================================================
