-------------------------- MODULE DescriptorMessages --------------------------
(***************************************************************************)
(* The classes of google/protobuf/descriptor.ts and google/api/http.ts,    *)
(* which come with the node APIs: the messages that describe messages, and *)
(* the rules of an HTTP gateway.  Each is its fields, in the order the     *)
(* class writes them.  A repeated message is declared packed in http.ts    *)
(* and written item by item, as everywhere.                                *)
(***************************************************************************)
EXTENDS MessageFields

FileDescriptorSet == <<Messages(1, "file", "FileDescriptorProto")>>
FileDescriptorProto ==
    <<Optional(1, "name"), Optional(2, "package"), Repeated(3, "dependency"),
      Repeated(10, "publicDependency"), Repeated(11, "weakDependency"),
      Messages(4, "messageType", "DescriptorProto"),
      Messages(5, "enumType", "EnumDescriptorProto"),
      Messages(6, "service", "ServiceDescriptorProto"),
      Messages(7, "extension", "FieldDescriptorProto"),
      Message(8, "options", "FileOptions"), Message(9, "sourceCodeInfo", "SourceCodeInfo"),
      Optional(12, "syntax"), Optional(13, "edition")>>
DescriptorProto ==
    <<Optional(1, "name"), Messages(2, "field", "FieldDescriptorProto"),
      Messages(6, "extension", "FieldDescriptorProto"),
      Messages(3, "nestedType", "DescriptorProto"),
      Messages(4, "enumType", "EnumDescriptorProto"),
      Messages(5, "extensionRange", "DescriptorProto_ExtensionRange"),
      Messages(8, "oneofDecl", "OneofDescriptorProto"),
      Message(7, "options", "MessageOptions"),
      Messages(9, "reservedRange", "DescriptorProto_ReservedRange"),
      Repeated(10, "reservedName")>>
DescriptorProto_ExtensionRange ==
    <<Optional(1, "start"), Optional(2, "end"),
      Message(3, "options", "ExtensionRangeOptions")>>
DescriptorProto_ReservedRange == <<Optional(1, "start"), Optional(2, "end")>>
ExtensionRangeOptions ==
    <<Messages(999, "uninterpretedOption", "UninterpretedOption"),
      Messages(2, "declaration", "ExtensionRangeOptions_Declaration"),
      Message(50, "features", "FeatureSet"), Optional(3, "verification")>>
ExtensionRangeOptions_Declaration ==
    <<Optional(1, "number"), Optional(2, "fullName"), Optional(3, "type"),
      Optional(5, "reserved"), Optional(6, "repeated")>>
FieldDescriptorProto ==
    <<Optional(1, "name"), Optional(3, "number"), Optional(4, "label"),
      Optional(5, "type"), Optional(6, "typeName"), Optional(2, "extendee"),
      Optional(7, "defaultValue"), Optional(9, "oneofIndex"), Optional(10, "jsonName"),
      Message(8, "options", "FieldOptions"), Optional(17, "proto3Optional")>>
OneofDescriptorProto == <<Optional(1, "name"), Message(2, "options", "OneofOptions")>>
EnumDescriptorProto ==
    <<Optional(1, "name"), Messages(2, "value", "EnumValueDescriptorProto"),
      Message(3, "options", "EnumOptions"),
      Messages(4, "reservedRange", "EnumDescriptorProto_EnumReservedRange"),
      Repeated(5, "reservedName")>>
EnumDescriptorProto_EnumReservedRange == <<Optional(1, "start"), Optional(2, "end")>>
EnumValueDescriptorProto ==
    <<Optional(1, "name"), Optional(2, "number"),
      Message(3, "options", "EnumValueOptions")>>
ServiceDescriptorProto ==
    <<Optional(1, "name"), Messages(2, "method", "MethodDescriptorProto"),
      Message(3, "options", "ServiceOptions")>>
MethodDescriptorProto ==
    <<Optional(1, "name"), Optional(2, "inputType"), Optional(3, "outputType"),
      Message(4, "options", "MethodOptions"), Optional(5, "clientStreaming"),
      Optional(6, "serverStreaming")>>
FileOptions ==
    <<Optional(1, "javaPackage"), Optional(8, "javaOuterClassname"),
      Optional(10, "javaMultipleFiles"), Optional(20, "javaGenerateEqualsAndHash"),
      Optional(27, "javaStringCheckUtf8"), Optional(9, "optimizeFor"),
      Optional(11, "goPackage"), Optional(16, "ccGenericServices"),
      Optional(17, "javaGenericServices"), Optional(18, "pyGenericServices"),
      Optional(42, "phpGenericServices"), Optional(23, "deprecated"),
      Optional(31, "ccEnableArenas"), Optional(36, "objcClassPrefix"),
      Optional(37, "csharpNamespace"), Optional(39, "swiftPrefix"),
      Optional(40, "phpClassPrefix"), Optional(41, "phpNamespace"),
      Optional(44, "phpMetadataNamespace"), Optional(45, "rubyPackage"),
      Message(50, "features", "FeatureSet"),
      Messages(999, "uninterpretedOption", "UninterpretedOption")>>
MessageOptions ==
    <<Optional(1, "messageSetWireFormat"), Optional(2, "noStandardDescriptorAccessor"),
      Optional(3, "deprecated"), Optional(7, "mapEntry"),
      Optional(11, "deprecatedLegacyJsonFieldConflicts"),
      Message(12, "features", "FeatureSet"),
      Messages(999, "uninterpretedOption", "UninterpretedOption")>>
FieldOptions ==
    <<Optional(1, "ctype"), Optional(2, "packed"), Optional(6, "jstype"),
      Optional(5, "lazy"), Optional(15, "unverifiedLazy"), Optional(3, "deprecated"),
      Optional(10, "weak"), Optional(16, "debugRedact"), Optional(17, "retention"),
      Repeated(19, "targets"),
      Messages(20, "editionDefaults", "FieldOptions_EditionDefault"),
      Message(21, "features", "FeatureSet"),
      Messages(999, "uninterpretedOption", "UninterpretedOption")>>
FieldOptions_EditionDefault == <<Optional(1, "edition"), Optional(2, "value")>>
OneofOptions ==
    <<Message(1, "features", "FeatureSet"),
      Messages(999, "uninterpretedOption", "UninterpretedOption")>>
EnumOptions ==
    <<Optional(2, "allowAlias"), Optional(3, "deprecated"),
      Optional(6, "deprecatedLegacyJsonFieldConflicts"),
      Message(7, "features", "FeatureSet"),
      Messages(999, "uninterpretedOption", "UninterpretedOption")>>
EnumValueOptions ==
    <<Optional(1, "deprecated"), Message(2, "features", "FeatureSet"),
      Optional(3, "debugRedact"),
      Messages(999, "uninterpretedOption", "UninterpretedOption")>>
ServiceOptions ==
    <<Message(34, "features", "FeatureSet"), Optional(33, "deprecated"),
      Messages(999, "uninterpretedOption", "UninterpretedOption")>>
MethodOptions ==
    <<Optional(33, "deprecated"), Optional(34, "idempotencyLevel"),
      Message(35, "features", "FeatureSet"),
      Messages(999, "uninterpretedOption", "UninterpretedOption")>>
UninterpretedOption ==
    <<Messages(2, "name", "UninterpretedOption_NamePart"), Optional(3, "identifierValue"),
      Optional(4, "positiveIntValue"), Optional(5, "negativeIntValue"),
      Optional(6, "doubleValue"), Optional(7, "stringValue"),
      Optional(8, "aggregateValue")>>
UninterpretedOption_NamePart == <<Plain(1, "namePart"), Plain(2, "isExtension")>>
FeatureSet ==
    <<Optional(1, "fieldPresence"), Optional(2, "enumType"),
      Optional(3, "repeatedFieldEncoding"), Optional(4, "stringFieldValidation"),
      Optional(5, "messageEncoding"), Optional(6, "jsonFormat"),
      Message(999, "rawFeatures", "FeatureSet")>>
SourceCodeInfo == <<Messages(1, "location", "SourceCodeInfo_Location")>>
SourceCodeInfo_Location ==
    <<Packed(1, "path"), Packed(2, "span"), Optional(3, "leadingComments"),
      Optional(4, "trailingComments"), Repeated(6, "leadingDetachedComments")>>
GeneratedCodeInfo == <<Messages(1, "annotation", "GeneratedCodeInfo_Annotation")>>
GeneratedCodeInfo_Annotation ==
    <<Packed(1, "path"), Optional(2, "sourceFile"), Optional(3, "begin"),
      Optional(4, "end"), Optional(5, "semantic")>>
Http == <<Messages(1, "rules", "HttpRule"), Plain(2, "fullyDecodeReservedExpansion")>>
HttpRule ==
    <<Plain(1, "selector"), Case(2, "get", "scalar"), Case(3, "put", "scalar"),
      Case(4, "post", "scalar"), Case(5, "delete", "scalar"), Case(6, "patch", "scalar"),
      Case(8, "custom", "CustomHttpPattern"), Plain(7, "body"), Plain(12, "responseBody"),
      Messages(11, "additionalBindings", "HttpRule")>>
CustomHttpPattern == <<Plain(1, "kind"), Plain(2, "path")>>

DescriptorSchema ==
    [FileDescriptorSet |-> FileDescriptorSet, FileDescriptorProto |-> FileDescriptorProto,
     DescriptorProto |-> DescriptorProto,
     DescriptorProto_ExtensionRange |-> DescriptorProto_ExtensionRange,
     DescriptorProto_ReservedRange |-> DescriptorProto_ReservedRange,
     ExtensionRangeOptions |-> ExtensionRangeOptions,
     ExtensionRangeOptions_Declaration |-> ExtensionRangeOptions_Declaration,
     FieldDescriptorProto |-> FieldDescriptorProto,
     OneofDescriptorProto |-> OneofDescriptorProto,
     EnumDescriptorProto |-> EnumDescriptorProto,
     EnumDescriptorProto_EnumReservedRange |-> EnumDescriptorProto_EnumReservedRange,
     EnumValueDescriptorProto |-> EnumValueDescriptorProto,
     ServiceDescriptorProto |-> ServiceDescriptorProto,
     MethodDescriptorProto |-> MethodDescriptorProto, FileOptions |-> FileOptions,
     MessageOptions |-> MessageOptions, FieldOptions |-> FieldOptions,
     FieldOptions_EditionDefault |-> FieldOptions_EditionDefault,
     OneofOptions |-> OneofOptions, EnumOptions |-> EnumOptions,
     EnumValueOptions |-> EnumValueOptions, ServiceOptions |-> ServiceOptions,
     MethodOptions |-> MethodOptions, UninterpretedOption |-> UninterpretedOption,
     UninterpretedOption_NamePart |-> UninterpretedOption_NamePart,
     FeatureSet |-> FeatureSet, SourceCodeInfo |-> SourceCodeInfo,
     SourceCodeInfo_Location |-> SourceCodeInfo_Location,
     GeneratedCodeInfo |-> GeneratedCodeInfo,
     GeneratedCodeInfo_Annotation |-> GeneratedCodeInfo_Annotation, Http |-> Http,
     HttpRule |-> HttpRule, CustomHttpPattern |-> CustomHttpPattern]
=============================================================================
