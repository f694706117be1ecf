\* Steady and changing datasets of two and three sources, and every label text
\* of up to three lines out of 33.
CONSTANTS
    Number <- SomeNumber
    NumClasses = 1
    Infinite = 1000000
    Scans <- SomeScans
    ImagesOf <- SomeImages
    TextsOf <- SomeTexts
    ShapeOf <- TwoShapes
SPECIFICATION Spec
INVARIANTS
    ScanIsReference
    FallbackWithinLimit
    AnnotationsMatchProofs
    RefusedOnlyForInfinite
    NativeIsReference
    ReferenceOnlyWhenUnclear
CHECK_DEADLOCK FALSE
