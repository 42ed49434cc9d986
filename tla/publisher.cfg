SPECIFICATION Spec
CONSTANTS
  Publishers = {p1, p2}
  dev = dev
  prod = prod
  Environments = {dev, prod}
  Slugs = {"dev", "prod"}
  Slug <- TwoSlugs
  Revisions = {r1, r2}
  Stamps = {t1, t2}
  Assets = {a1, a2}
  Absent = Absent
  Nobody = Nobody
  MaxActivations = 2
  MaxReleases = 1
  MaxStops = 1
SYMMETRY Symmetry
INVARIANTS PublicationsSound TreeSound
PROPERTY ReadersSeeImmutableCdn
CHECK_DEADLOCK FALSE
