SPECIFICATION Spec
CONSTANTS
  X86 = X86
  ARM = ARM
  crt = crt
  foo = foo
  bar = bar
  datum = datum
  residue = residue
  Text = Text
  Data = Data
  considered_archs <- MCArchs
  considered_sections <- MCSections
  Symbols = {crt, foo, bar, datum, residue}
  SECTION_ALIGN = 16
  PAGE_ALIGN = 4
  UINT64_MAX = 100
  start_id = 0
INVARIANTS
  AlignedAcrossArchs
  SitesCorrespond
  SitesSelectTheirOwn
  EntryPointsAgree
  CheckedMeansTransformable
