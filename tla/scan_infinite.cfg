\* Labels with an infinite class under single_cls.
CONSTANTS
    Number <- SomeNumber
    NumClasses = 1
    Infinite = 1000000
    Scans <- InfiniteClass
    ImagesOf <- SomeImages
    TextsOf <- SomeTexts
    ShapeOf <- TwoShapes
SPECIFICATION Spec
INVARIANTS
    ValidResultIsEncodable
CHECK_DEADLOCK FALSE
